------------------------------ MODULE Tenants -------------------------------
(***************************************************************************)
(* How accounts come into being and into organizations: signup, OAuth,     *)
(* invitations, memberships and their owners (handlers/auth_password.rs,   *)
(* users.rs, oauth.rs, orgs.rs).  Extends the accounts with the            *)
(* organizations, organization_members, applications and invitations       *)
(* tables; every handler that spans both is a task of the same kind, its   *)
(* user, membership, application and session written one statement at a    *)
(* time with no transaction around them.                                   *)
(*                                                                         *)
(* Foreign keys and primary keys are checked by the database; invitations  *)
(* reference no table.                                                     *)
(***************************************************************************)
EXTENDS Accounts

CONSTANTS
  DefaultOrg,   \* DEFAULT_ORG_ID, created by a migration
  MaxApps,      \* a bound on the applications of an organization
  ProviderOf    \* the provider of each OAuth identity

ASSUME TenantsAssumption ==
  /\ DefaultOrg \in OrgIds
  /\ MaxApps \in Nat \ {0}
  /\ ProviderOf \in [Idents -> {"github", "google"}]

VARIABLES
  mode,      \* config.mode of the deployment
  orgs,      \* the organizations table
  members,   \* the organization_members table
  apps,      \* rows of the applications table, per organization
  invites,   \* the invitations table
  founder,   \* history: the accounts an organization was created for
  vouched    \* history: <<t, e>>, account e was found by an identity whose
             \* provider vouched for the address t was mailed to

tenantVars == <<mode, orgs, members, apps, invites, founder, vouched>>
vars == <<users, sessions, resets, fails, task, begun, unrevoked, redeemed,
          mode, orgs, members, apps, invites, founder, vouched>>

Invite ==
  [e : Emails, o : OrgIds, r : {"admin", "member"}, st : TokenState \ {"none"}]

ASSUME NoneIsNoInvite == None \notin Invite

TenantsTypeOK ==
  /\ AccountsTypeOK
  /\ mode \in {"single", "hosted"}
  /\ orgs \subseteq OrgIds
  /\ members \in [OrgIds -> [Emails -> Roles \cup {None}]]
  /\ apps \in [OrgIds -> 0 .. MaxApps]
  /\ invites \in [InviteTokens -> Invite \cup {None}]
  /\ founder \in [OrgIds -> SUBSET Emails]
  /\ vouched \subseteq InviteTokens \X Emails

NoMembers == [e \in Emails |-> None]

\* A deployment that has been in use: some accounts, one of them still the
\* owner of the organization it was created with, the others in none (their
\* signup stopped half-way, or they were removed from theirs); the owner
\* may be logged in.
Init ==
  /\ mode \in {"single", "hosted"}
  /\ \E known \in SUBSET Emails, boss \in Emails, home \in OrgIds,
        p \in Passwords :
       /\ known # {} => boss \in known
       /\ home = DefaultOrg <=> mode = "single" \/ known = {}
       /\ users = [e \in Emails |->
            IF e \notin known THEN None
            ELSE Account(p, IF mode = "hosted" \/ e = boss
                            THEN "owner" ELSE "member", "password")]
       /\ orgs = {DefaultOrg, home}
       /\ members = [o \in OrgIds |-> [e \in Emails |->
            IF o = home /\ e = boss /\ e \in known THEN "owner" ELSE None]]
       /\ founder = [o \in OrgIds |->
            IF o = home /\ known # {} THEN {boss} ELSE {}]
       /\ \E in \in {{}} \cup {{x} : x \in SessionIds} :
            sessions = [x \in SessionIds |->
              IF x \in in /\ known # {}
              THEN [e |-> boss, pw |-> p, late |-> FALSE] ELSE None]
  /\ invites = [t \in InviteTokens |-> None]
  /\ vouched = {}
  /\ apps = [o \in OrgIds |-> IF o \in orgs THEN 1 ELSE 0]
  /\ resets = [t \in ResetTokens |-> None]
  /\ fails = [e \in Emails |-> 0]
  /\ task = [s \in Slots |-> Idle]
  /\ begun = 0
  /\ unrevoked = [e \in Emails |-> FALSE]
  /\ redeemed = [t \in Tokens |-> 0]

-----------------------------------------------------------------------------
(* Organizations and applications.                                         *)

accountRows == <<users, sessions, resets, fails, unrevoked>>

OwnersOf(o) == {e \in Emails : members[o][e] = "owner"}

\* The ids a request can name: a new one is a random UUID, and list_orgs and
\* the response show it once its founder is a member.
Named(o) == o = DefaultOrg \/ founder[o] # {}

\* POST /v1/orgs, by the user of a session.
CreateOrg(s, x) ==
  /\ Admitted(x)
  /\ Begin(s, [Idle EXCEPT !.op = "org", !.pc = "provision",
                           !.e = sessions[x].e, !.r = "owner"])
  /\ UNCHANGED <<accountRows, redeemed, tenantVars>>

\* delete_organization removes what depends on it in one transaction.
DeleteOrg(o) ==
  /\ Request
  /\ o \in orgs /\ Named(o)
  /\ orgs' = orgs \ {o}
  /\ members' = [members EXCEPT ![o] = NoMembers]
  /\ apps' = [apps EXCEPT ![o] = 0]
  /\ invites' = [t \in InviteTokens |->
       IF invites[t] # None /\ invites[t].o = o
       THEN [invites[t] EXCEPT !.st = "gone"] ELSE invites[t]]
  /\ UNCHANGED <<accountRows, task, redeemed, mode, founder, vouched>>

CreateApp(o) ==
  /\ Request
  /\ o \in orgs /\ Named(o)
  /\ apps[o] < MaxApps
  /\ apps' = [apps EXCEPT ![o] = @ + 1]
  /\ UNCHANGED <<accountRows, task, redeemed, mode, orgs, members, invites,
                 founder, vouched>>

DeleteApp(o) ==
  /\ Request
  /\ apps[o] > 0 /\ Named(o)
  /\ apps' = [apps EXCEPT ![o] = @ - 1]
  /\ UNCHANGED <<accountRows, task, redeemed, mode, orgs, members, invites,
                 founder, vouched>>

\* A faulty check that lets the owner be demoted or removed.
FaultyMemberMayChange(o, e) == members[o][e] # None

\* The owner's membership is neither changed nor removed, nor given.
MemberMayChange(o, e) == members[o][e] \notin {None, "owner"}

ChangeMember(o, e, r) ==
  [Idle EXCEPT !.op = "member", !.pc = "write", !.o = o, !.e = e, !.r = r,
               !.seen = members[o][e]]

PatchMember(s, o, e, r) ==
  /\ MemberMayChange(o, e)
  /\ r # "owner"
  /\ Begin(s, ChangeMember(o, e, r))
  /\ UNCHANGED <<accountRows, redeemed, tenantVars>>

RemoveMember(s, o, e) ==
  /\ MemberMayChange(o, e)
  /\ Begin(s, ChangeMember(o, e, None))
  /\ UNCHANGED <<accountRows, redeemed, tenantVars>>

MemberWrite(s) ==
  /\ At(s, "member", "write")
  /\ LET new == task[s] IN
       members' = [members EXCEPT ![new.o][new.e] =
                     IF @ = None THEN None ELSE new.r]
  /\ End(s)
  /\ UNCHANGED <<accountRows, redeemed, mode, orgs, apps, invites,
                 founder, vouched>>

\* A faulty transfer that does not demote.
FaultyTransferOrgOwner(o, e) ==
  /\ Request
  /\ members[o][e] # None
  /\ members' = [members EXCEPT ![o][e] = "owner"]
  /\ UNCHANGED <<accountRows, task, redeemed, mode, orgs, apps, invites,
                 founder, vouched>>

\* transfer_org_owner: one transaction, of which the database runs one at a
\* time (sqlite); without a member to promote it is rolled back.
TransferOrgOwner(o, e) ==
  /\ Request
  /\ members[o][e] # None
  /\ members' = [members EXCEPT ![o] = [u \in Emails |->
       IF u = e THEN "owner"
       ELSE IF members[o][u] = "owner" THEN "admin" ELSE members[o][u]]]
  /\ UNCHANGED <<accountRows, task, redeemed, mode, orgs, apps, invites,
                 founder, vouched>>

-----------------------------------------------------------------------------
(* Invitations.                                                            *)

Invitable == Roles \ {"owner"}

\* The platform admin may invite into an organization deleted meanwhile.
InviteMember(t, o, e, r) ==
  /\ Request
  /\ r \in Invitable
  /\ invites[t] = None
  /\ Named(o)
  /\ invites' = [invites EXCEPT ![t] =
                   [e |-> e, o |-> o, r |-> r, st |-> "open"]]
  /\ UNCHANGED <<accountRows, task, redeemed, mode, orgs, members, apps,
                 founder, vouched>>

InviteExpires(t) ==
  /\ invites[t] # None /\ invites[t].st = "open"
  /\ invites' = [invites EXCEPT ![t].st = "expired"]
  /\ UNCHANGED <<accountVars, mode, orgs, members, apps, founder, vouched>>

Valid(t) == invites[t] # None /\ invites[t].st = "open"

\* What a handler remembers of the invitation it has read.
Answer(op, t, e) ==
  [Idle EXCEPT !.op = op, !.pc = "read", !.t = t, !.e = e,
               !.o = invites[t].o, !.r = invites[t].r]

\* POST /v1/auth/invitations/{token}/accept, with a password.
AcceptStart(s, t, p) ==
  /\ Valid(t)
  /\ Begin(s, [Answer("accept", t, invites[t].e) EXCEPT !.p = p])
  /\ UNCHANGED <<accountRows, redeemed, tenantVars>>

\* An account that exists must show its password.
AcceptRead(s) ==
  /\ At(s, "accept", "read")
  /\ \/ users[task[s].e] = None /\ Goto(s, "create")
     \/ Verified(task[s].e, task[s].p) /\ Goto(s, "add")
     \/ /\ users[task[s].e] # None
        /\ ~Verified(task[s].e, task[s].p)
        /\ End(s)
  /\ UNCHANGED <<accountRows, redeemed, tenantVars>>

\* A faulty compare-and-set that drops `used_at IS NULL'.
FaultyInviteUnused(t) == invites[t].st # "gone"

\* mark_invitation_used finds the row by its token and looks at used_at only.
InviteUnused(t) == invites[t].st \notin {"used", "gone"}

\* Where the request that consumed an invitation goes on: with a password the
\* membership is there already.
AfterConsume(op) == IF op = "join" THEN "add" ELSE "session"

Consume(s) ==
  /\ task[s].op \in {"accept", "join"} /\ task[s].pc = "consume"
  /\ LET t == task[s].t IN
       \/ /\ InviteUnused(t)
          /\ invites' = [invites EXCEPT ![t].st = "used"]
          /\ Goto(s, AfterConsume(task[s].op))
       \/ /\ ~InviteUnused(t)
          /\ End(s)
          /\ UNCHANGED invites
  /\ UNCHANGED <<accountRows, redeemed, mode, orgs, members, apps, founder,
                 vouched>>

-----------------------------------------------------------------------------
(* Signup, OAuth, and the statements they share with the invitations.      *)

\* POST /v1/auth/signup: the first account of a single tenant, or, hosted,
\* any new address.
SignupStart(s, e, p) ==
  /\ IF mode = "single" THEN Known = {} ELSE users[e] = None
  /\ Begin(s, [Idle EXCEPT !.op = "signup", !.pc = "create", !.e = e,
                           !.p = p, !.r = "owner"])
  /\ UNCHANGED <<accountRows, redeemed, tenantVars>>

\* An OAuth callback: the provider vouches for identity i and the verified
\* address e it has today.
OAuthStart(s, i, e) ==
  /\ Begin(s, [Idle EXCEPT !.op = "oauth", !.pc = "read", !.i = i,
                           !.e = e, !.r = "owner"])
  /\ UNCHANGED <<accountRows, redeemed, tenantVars>>

\* An invitation is for the address it was mailed to.
Addressed(t, e) == Valid(t) /\ invites[t].e = e

OAuthJoinStart(s, i, e, t) ==
  /\ Addressed(t, e)
  /\ Begin(s, [Answer("join", t, e) EXCEPT !.i = i])
  /\ UNCHANGED <<accountRows, redeemed, tenantVars>>

HolderOf(i) == {e \in Known : i \in users[e].oauth}

\* An account has one column for each provider, which is written over.
WithIdentity(held, i) ==
  {j \in held : ProviderOf[j] # ProviderOf[i]} \cup {i}

\* A faulty rule that links an account whose address nobody has verified.
FaultyLinkable(e) == users[e] # None

\* An account may be linked by its address if a provider vouched for it.
Linkable(e) == users[e] # None /\ users[e].oauth # {}

\* Where a callback goes on once it has its account.
AfterAccount(op) ==
  CASE op = "oauth"  -> "session"
    [] op = "join"   -> "consume"
    [] op = "accept" -> "add"

\* The account that has the identity, whatever address it was made with.
OAuthFound(s) ==
  /\ task[s].op \in {"oauth", "join"} /\ task[s].pc = "read"
  /\ \E e \in HolderOf(task[s].i) :
       \/ /\ users[e].active
          /\ task' = [task EXCEPT ![s].e = e,
                                  ![s].pc = AfterAccount(task[s].op)]
          /\ vouched' = IF /\ task[s].op = "join"
                           /\ invites[task[s].t].e = task[s].e
                        THEN vouched \cup {<<task[s].t, e>>} ELSE vouched
          /\ UNCHANGED begun
       \/ ~users[e].active /\ End(s) /\ UNCHANGED vouched
  /\ UNCHANGED <<accountRows, redeemed, mode, orgs, members, apps, invites,
                 founder>>

OAuthByEmail(s) ==
  /\ task[s].op \in {"oauth", "join"} /\ task[s].pc = "read"
  /\ HolderOf(task[s].i) = {}
  /\ LET e == task[s].e IN
       \/ /\ Linkable(e)
          /\ task' = [task EXCEPT ![s].pc = "link",
                                  ![s].live = users[e].active]
          /\ UNCHANGED begun
       \/ users[e] # None /\ ~Linkable(e) /\ End(s)
       \/ /\ users[e] = None
          /\ IF task[s].op = "oauth" /\ mode = "single"
             THEN End(s) ELSE Goto(s, "create")
  /\ UNCHANGED <<accountRows, redeemed, tenantVars>>

\* link_oauth; the activity is that of the row read before.  The column is
\* UNIQUE, and apply_invitation_oauth ignores that error.
OAuthLink(s) ==
  /\ task[s].op \in {"oauth", "join"} /\ task[s].pc = "link"
  /\ LET free == HolderOf(task[s].i) \subseteq {task[s].e} IN
       /\ users' = IF free
                   THEN [users EXCEPT ![task[s].e].oauth =
                           WithIdentity(@, task[s].i)]
                   ELSE users
       /\ IF task[s].live /\ (free \/ task[s].op = "join")
          THEN Goto(s, AfterAccount(task[s].op)) ELSE End(s)
  /\ UNCHANGED <<sessions, resets, fails, unrevoked, redeemed, tenantVars>>

AfterCreate(op) ==
  CASE op = "signup" -> IF mode = "single" THEN "add" ELSE "provision"
    [] op = "oauth"  -> "provision"
    [] op = "join"   -> "consume"
    [] op = "accept" -> "add"

\* create_user, which the UNIQUE columns may refuse.  The first owner of a
\* single tenant goes into the default organization.
CreateUser(s) ==
  /\ task[s].pc = "create"
  /\ LET new  == task[s]
         free == users[new.e] = None /\ HolderOf(new.i) = {} IN
       \/ /\ free
          /\ users' = [users EXCEPT ![new.e] =
               IF new.i = None
               THEN Account(new.p, new.r, "password")
               ELSE [Account(None, new.r, "oauth") EXCEPT !.oauth = {new.i}]]
          /\ task' = [task EXCEPT
               ![s].pc = AfterCreate(new.op),
               ![s].o = IF new.op = "signup" /\ mode = "single"
                        THEN DefaultOrg ELSE @]
          /\ UNCHANGED begun
       \/ ~free /\ End(s) /\ UNCHANGED users
  /\ UNCHANGED <<sessions, resets, fails, unrevoked, redeemed, tenantVars>>

\* create_organization, under an id never used before.
CreateOrganization(s) ==
  /\ task[s].pc = "provision"
  /\ \E o \in OrgIds \ {DefaultOrg} :
       /\ o \notin orgs /\ ~Named(o)
       /\ orgs' = orgs \cup {o}
       /\ task' = [task EXCEPT ![s].pc = "add", ![s].o = o]
  /\ UNCHANGED <<accountRows, begun, redeemed, mode, members, apps, invites,
                 founder, vouched>>

AfterAdd(op) ==
  CASE op = "accept" -> "consume"
    [] op = "join"   -> "session"
    [] op = "signup" -> IF mode = "single" THEN "session" ELSE "app"
    [] OTHER         -> "app"

\* add_org_member, which only the invited skip if they are members already;
\* the foreign key wants the organization to exist.
AddMember(s) ==
  /\ task[s].pc = "add"
  /\ LET o == task[s].o  e == task[s].e  op == task[s].op IN
       \/ /\ o \in orgs /\ members[o][e] = None
          /\ members' = [members EXCEPT ![o][e] = task[s].r]
          /\ founder' = IF op \in {"signup", "oauth", "org"}
                        THEN [founder EXCEPT ![o] = @ \cup {e}] ELSE founder
          /\ redeemed' = IF op \in {"accept", "join"}
                         THEN [redeemed EXCEPT ![task[s].t] = @ + 1]
                         ELSE redeemed
          /\ Goto(s, AfterAdd(op))
       \/ /\ members[o][e] # None /\ op \in {"accept", "join"}
          /\ Goto(s, AfterAdd(op))
          /\ UNCHANGED <<members, founder, redeemed>>
       \/ /\ \/ o \notin orgs /\ members[o][e] = None
             \/ members[o][e] # None /\ op \notin {"accept", "join"}
          /\ End(s)
          /\ UNCHANGED <<members, founder, redeemed>>
  /\ UNCHANGED <<accountRows, mode, orgs, apps, invites, vouched>>

\* create_application, the default one; a new organization is then complete.
CreateDefaultApp(s) ==
  /\ task[s].pc = "app"
  /\ IF task[s].o \in orgs
     THEN apps[task[s].o] < MaxApps
          /\ apps' = [apps EXCEPT ![task[s].o] = @ + 1]
     ELSE UNCHANGED apps
  /\ IF task[s].o \in orgs /\ task[s].op # "org"
     THEN Goto(s, "session") ELSE End(s)
  /\ UNCHANGED <<accountRows, redeemed, mode, orgs, members, invites, founder,
                 vouched>>

FinishLogin(s) ==
  /\ task[s].pc = "session" /\ task[s].op # "login"
  /\ NewSession(task[s].e, task[s].p)
  /\ End(s)
  /\ UNCHANGED <<users, resets, fails, unrevoked, redeemed, tenantVars>>

-----------------------------------------------------------------------------
Handlers(s) ==
  \/ \E x \in SessionIds : CreateOrg(s, x)
  \/ \E o \in OrgIds, e \in Emails :
       \/ \E r \in Roles : PatchMember(s, o, e, r)
       \/ RemoveMember(s, o, e)
  \/ MemberWrite(s)
  \/ \E t \in InviteTokens, p \in Passwords : AcceptStart(s, t, p)
  \/ AcceptRead(s) \/ Consume(s)
  \/ \E e \in Emails, p \in Passwords : SignupStart(s, e, p)
  \/ \E i \in Idents, e \in Emails :
       \/ OAuthStart(s, i, e)
       \/ \E t \in InviteTokens : OAuthJoinStart(s, i, e, t)
  \/ OAuthFound(s) \/ OAuthByEmail(s) \/ OAuthLink(s)
  \/ CreateUser(s) \/ CreateOrganization(s) \/ AddMember(s)
  \/ CreateDefaultApp(s) \/ FinishLogin(s)

\* Requests of one statement, and the passing of time.
Management ==
  \/ \E o \in OrgIds : DeleteOrg(o) \/ CreateApp(o) \/ DeleteApp(o)
  \/ \E o \in OrgIds, e \in Emails : TransferOrgOwner(o, e)
  \/ \E t \in InviteTokens :
       \/ \E o \in OrgIds, e \in Emails, r \in Roles :
            InviteMember(t, o, e, r)
       \/ InviteExpires(t)

Next ==
  \/ AccountsNext /\ UNCHANGED tenantVars
  \/ \E s \in Slots : Handlers(s)
  \/ Management

Spec == Init /\ [][Next]_vars

-----------------------------------------------------------------------------
(* Properties.                                                             *)

\* An organization has at most one owner, whatever transfers, removals,
\* invitations and deletions run: only its creation and transfer_org_owner
\* give that role.  The exception is the default organization of a single
\* tenant, where each signup that saw no account adds an owner.
AtMostOneOwner ==
  \A o \in OrgIds :
    Cardinality(OwnersOf(o)) <=
      IF mode = "single" /\ o = DefaultOrg THEN Cardinality(Slots) ELSE 1

\* The owner of an organization that stays is lost only to a member update or
\* removal that was decided before a transfer made its target the owner:
\* patch_member and remove_member refuse the owner on a row read before.
OrgOwnerLostOnlyToRace ==
  [][\A o \in orgs \cap orgs' :
       OwnersOf(o) # {} /\ OwnersOf(o)' = {} =>
         \E s \in Slots :
           /\ At(s, "member", "write") /\ task'[s].pc = "idle"
           /\ task[s].o = o /\ task[s].seen # "owner"
           /\ members[o][task[s].e] = "owner"
    ]_vars

\* Whoever is in an organization created it, or was invited to it at the
\* address of the account, or has the OAuth identity that came with such an
\* invitation while its provider vouched for the address it was mailed to
\* (oauth.rs compares that address, and joins the account of the identity,
\* which may have been made with another one).
MembersInvited ==
  \A o \in OrgIds, e \in Emails :
    members[o][e] # None =>
      \/ e \in founder[o]
      \/ \E t \in InviteTokens :
           /\ invites[t] # None /\ invites[t].o = o
           /\ invites[t].e = e \/ <<t, e>> \in vouched

\* An OAuth login joins an organization only as the one request that consumed
\* the invitation: a request told "invitation_invalid" has not joined
\* (oauth.rs consumes before it adds the member).
ConsumedBeforeJoin ==
  \A s \in Slots :
    task[s].op = "join" /\ task[s].pc \in {"add", "session"} =>
      /\ invites[task[s].t].st \in {"used", "gone"}
      /\ \A s2 \in Slots \ {s} :
           task[s2].t = task[s].t => task[s2].pc \notin {"add", "session"}
                                       \/ task[s2].op = "accept"

\* An OAuth identity is only ever on an account that a provider vouched for
\* when it was made, never on one made with a password (the rule against
\* pre-registered addresses in resolve_or_create_user).
VerifiedLink ==
  \A e \in Known : users[e].oauth # {} => users[e].born = "oauth"

\* What of a token's state matters to those who hold it.
Phase(row) ==
  IF row = None THEN "none"
  ELSE IF row.st = "open" THEN "open"
  ELSE IF row.st = "expired" THEN "shut" ELSE "used"

Phases ==
  [t \in Tokens |-> Phase(IF t \in ResetTokens THEN resets[t] ELSE invites[t])]

\* What a handler was let in for and has not got yet: a reset writes the
\* password, and an invitation accepted with a password adds the member,
\* before the token is marked used; an OAuth login marks it first.
Standing(k) ==
  IF \/ k.op = "reset" /\ k.pc = "update"
     \/ k.op = "accept" /\ k.pc \in {"read", "create", "add"}
  THEN "eager"
  ELSE IF k.op = "join" /\ k.pc \in {"read", "link", "create", "consume"}
  THEN "patient"
  ELSE IF k.op = "join" /\ k.pc = "add" THEN "claimed" ELSE "none"

Holders(standing) ==
  {w \in Slots \X Tokens :
     Standing(task[w[1]]) = standing /\ task[w[1]].t = w[2]}

\* Password resets and invitations are one-time tokens.
Redemption == INSTANCE OneTimeToken WITH
  Requests <- Slots,
  state    <- Phases,
  eager    <- Holders("eager"),
  patient  <- Holders("patient"),
  claimed  <- Holders("claimed")

\* Nobody is let in with a token that has lapsed or was used, whoever was let
\* in gets its password or membership at most once, and an OAuth login only
\* if it used the token up itself: the loser of two gets nothing.  Of requests
\* let in together by a reset, or by an invitation with a password, each gets it
\* all the same: the effect comes before the compare-and-set.
RedeemedOnce == Redemption!Spec
=============================================================================
