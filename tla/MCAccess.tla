------------------------------ MODULE MCAccess ------------------------------
EXTENDS Access

AllScopes == {"generate", "read", "admin"}

SessionOf(at, home, away, rank) ==
  [who |-> "session", at |-> at, scopes |-> AllScopes, rank |-> rank,
   roles |-> [home |-> home, away |-> away]]
KeyOf(at, scopes) ==
  [who |-> "key", at |-> at, scopes |-> scopes, rank |-> "none",
   roles |-> [home |-> "none", away |-> "none"]]

\* The master key; a member of each role, by header; the owner of another organization who
\* is a viewer of Home, or no member; a user whose own rank is owner, of no organization and
\* as a viewer of Home; keys of Home without and with the admin scope, and one of the other
\* organization.
MCCallers ==
  {[who |-> "master", at |-> "none", scopes |-> AllScopes, rank |-> "none",
    roles |-> [home |-> "none", away |-> "none"]]}
  \cup {SessionOf("home", r, "none", "member") : r \in {"viewer", "member", "admin", "owner"}}
  \cup {SessionOf("away", "viewer", "owner", "member"), SessionOf("none", "none", "owner", "member"),
        SessionOf("none", "none", "none", "owner"), SessionOf("none", "viewer", "none", "owner")}
  \cup {KeyOf("home", {"generate", "read"}), KeyOf("home", AllScopes), KeyOf("away", AllScopes)}

MCDeployments ==
  {[mode |-> "hosted", backend |-> "sqlite"], [mode |-> "hosted", backend |-> "postgres"],
   [mode |-> "single", backend |-> "sqlite"]}
MCNames == DOMAIN Handlers
=============================================================================
