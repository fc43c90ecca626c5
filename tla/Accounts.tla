------------------------------ MODULE Accounts ------------------------------
(***************************************************************************)
(* User accounts of the gateway and what guards them: passwords, browser   *)
(* sessions, the login lockout, password resets and the administration of  *)
(* users (handlers/auth_password.rs, account.rs, users.rs, auth/lockout.rs *)
(* and the users, sessions, password_resets and login_attempts tables).    *)
(*                                                                         *)
(* A handler is a task that runs one database statement per step: a row it *)
(* read may have changed by the time it writes, and hashing or verifying a *)
(* password keeps it busy in between.  An account is named by its e-mail   *)
(* address: the column is UNIQUE, no handler changes it, no row is deleted.*)
(***************************************************************************)
EXTENDS Naturals, FiniteSets

CONSTANTS
  Emails,
  Passwords,
  Idents,       \* OAuth identities, at most one of a provider
  SessionIds,
  ResetTokens,
  InviteTokens,
  OrgIds,
  Slots,        \* handlers that may run at the same time
  MaxFails,     \* auth/lockout.rs MAX_FAILS
  MaxRequests,  \* a bound on the requests of a behaviour
  None

ASSUME AccountsAssumption ==
  /\ IsFiniteSet(Slots) /\ Slots # {}
  /\ MaxFails \in Nat \ {0}
  /\ MaxRequests \in Nat
  /\ None \notin Emails \cup Passwords \cup SessionIds \cup OrgIds
  /\ None \notin ResetTokens \cup InviteTokens \cup Idents
  /\ None \notin {"owner", "admin", "member"}
  /\ ResetTokens \cap InviteTokens = {}

VARIABLES
  users,      \* the users table
  sessions,   \* the sessions table
  resets,     \* the password_resets table
  fails,      \* failed login attempts of the last WINDOW_MINUTES
  task,       \* the handlers that run
  begun,      \* requests so far
  unrevoked,  \* history: a new password whose handler has revoked nothing yet
  redeemed    \* history: how often a token changed a password or added a member

accountVars ==
  <<users, sessions, resets, fails, task, begun, unrevoked, redeemed>>

Tokens == ResetTokens \cup InviteTokens

Roles == {"owner", "admin", "member"}

\* born is history: how the row came to be.
User ==
  [pw : Passwords \cup {None}, role : Roles, active : BOOLEAN,
   oauth : SUBSET Idents, born : {"password", "oauth"}]

\* History of a session: the password its holder proved, None if another
\* proof was given, and whether that was no longer the account's password
\* when the row was written.
Session == [e : Emails, pw : Passwords \cup {None}, late : BOOLEAN]

\* Whether a token was never issued, can be used, has expired, was used, or
\* its row was deleted.
TokenState == {"none", "open", "expired", "used", "gone"}

Reset == [e : Emails, st : TokenState \ {"none", "gone"}]

\* What a handler holds between two of its statements: where it is, the
\* account, password, session, token, organization and role it works on,
\* and the role and activity it read of its target.
Task ==
  [op : {"none", "login", "password", "reset", "user", "transfer", "signup",
         "org", "accept", "oauth", "join", "member"},
   pc : {"idle", "read", "fail", "session", "update", "consume", "revoke",
         "write", "create", "provision", "add", "app", "link"},
   e  : Emails \cup {None},
   p  : Passwords \cup {None},
   x  : SessionIds \cup {None},
   t  : ResetTokens \cup InviteTokens \cup {None},
   i  : Idents \cup {None},
   o  : OrgIds \cup {None},
   r  : Roles \cup {None},
   a  : {"keep", "on", "off"},
   seen : Roles \cup {None},
   live : BOOLEAN]

Idle ==
  [op |-> "none", pc |-> "idle", e |-> None, p |-> None, x |-> None,
   t |-> None, i |-> None, o |-> None, r |-> None, a |-> "keep",
   seen |-> None, live |-> TRUE]

ASSUME NoneIsNoRow == None \notin User \cup Session \cup Reset

AccountsTypeOK ==
  /\ users \in [Emails -> User \cup {None}]
  /\ sessions \in [SessionIds -> Session \cup {None}]
  /\ resets \in [ResetTokens -> Reset \cup {None}]
  /\ fails \in [Emails -> Nat]
  /\ task \in [Slots -> Task]
  /\ begun \in 0 .. MaxRequests
  /\ unrevoked \in [Emails -> BOOLEAN]
  /\ redeemed \in [Tokens -> Nat]

Known == {e \in Emails : users[e] # None}

Account(p, r, how) ==
  [pw |-> p, role |-> r, active |-> TRUE, oauth |-> {}, born |-> how]

-----------------------------------------------------------------------------
(* Requests: one statement each, or a task that is taken up, moves on, and *)
(* is over.                                                                *)

Request == begun < MaxRequests /\ begun' = begun + 1

At(s, op, pc) == task[s].op = op /\ task[s].pc = pc

Begin(s, new) ==
  /\ task[s].pc = "idle"
  /\ Request
  /\ task' = [task EXCEPT ![s] = new]

Goto(s, pc) == task' = [task EXCEPT ![s].pc = pc] /\ UNCHANGED begun

End(s) == task' = [task EXCEPT ![s] = Idle] /\ UNCHANGED begun

\* A statement fails, or the client or the process goes away: whatever the
\* handler wrote so far stays.
Abort(s) ==
  /\ task[s].pc # "idle"
  /\ End(s)
  /\ UNCHANGED <<users, sessions, resets, fails, unrevoked, redeemed>>

-----------------------------------------------------------------------------
(* Sessions.                                                               *)

\* create_session_cookies, for someone who proved password p (or None).
NewSession(e, p) ==
  \E x \in SessionIds :
    /\ sessions[x] = None
    /\ sessions' = [sessions EXCEPT ![x] =
         [e |-> e, pw |-> p, late |-> p # None /\ p # users[e].pw]]

SessionsOf(e) == {x \in SessionIds : sessions[x] # None /\ sessions[x].e = e}

\* auth_middleware lets the request of a session in.
Admitted(x) == sessions[x] # None /\ users[sessions[x].e].active

Logout(x) ==
  /\ Request
  /\ Admitted(x)
  /\ sessions' = [sessions EXCEPT ![x] = None]
  /\ UNCHANGED <<users, resets, fails, task, unrevoked, redeemed>>

\* A session revokes another one of its account.
RevokeSession(x, y) ==
  /\ Request
  /\ Admitted(x)
  /\ y \in SessionsOf(sessions[x].e) \ {x}
  /\ sessions' = [sessions EXCEPT ![y] = None]
  /\ UNCHANGED <<users, resets, fails, task, unrevoked, redeemed>>

\* The middleware meets an expired session and deletes it.
SessionExpired(x) ==
  /\ sessions[x] # None
  /\ sessions' = [sessions EXCEPT ![x] = None]
  /\ UNCHANGED <<users, resets, fails, task, begun, unrevoked, redeemed>>

-----------------------------------------------------------------------------
(* POST /v1/auth/login.                                                    *)

\* A faulty lockout that is off by one.
FaultyLockedOut(e) == fails[e] > MaxFails

LockedOut(e) == fails[e] >= MaxFails

LoginStart(s, e, p) ==
  /\ ~LockedOut(e)
  /\ Begin(s, [Idle EXCEPT !.op = "login", !.pc = "read", !.e = e, !.p = p])
  /\ UNCHANGED <<users, sessions, resets, fails, unrevoked, redeemed>>

Verified(e, p) == users[e] # None /\ users[e].pw = p

LoginRead(s) ==
  /\ At(s, "login", "read")
  /\ \/ /\ Verified(task[s].e, task[s].p) /\ users[task[s].e].active
        /\ Goto(s, "session")
     \/ /\ ~(Verified(task[s].e, task[s].p) /\ users[task[s].e].active)
        /\ Goto(s, "fail")
  /\ UNCHANGED <<users, sessions, resets, fails, unrevoked, redeemed>>

LoginFail(s) ==
  /\ At(s, "login", "fail")
  /\ fails' = [fails EXCEPT ![task[s].e] = @ + 1]
  /\ End(s)
  /\ UNCHANGED <<users, sessions, resets, unrevoked, redeemed>>

LoginSession(s) ==
  /\ At(s, "login", "session")
  /\ NewSession(task[s].e, task[s].p)
  /\ End(s)
  /\ UNCHANGED <<users, resets, fails, unrevoked, redeemed>>

\* The oldest failed attempt leaves the window.
AttemptAges(e) ==
  /\ fails[e] > 0
  /\ fails' = [fails EXCEPT ![e] = @ - 1]
  /\ UNCHANGED <<users, sessions, resets, task, begun, unrevoked, redeemed>>

-----------------------------------------------------------------------------
(* A new password: update_user, then delete_user_sessions.                 *)

SetPassword(e, p) ==
  /\ users' = [users EXCEPT ![e].pw = p]
  /\ unrevoked' = [unrevoked EXCEPT ![e] = TRUE]

\* A faulty revocation that spares the sessions it should end.
FaultyRevokeSessions(e, kept, p) ==
  /\ UNCHANGED sessions
  /\ unrevoked' = [unrevoked EXCEPT ![e] = FALSE]

\* Every session of the account but `kept', which now goes with password p.
RevokeSessions(e, kept, p) ==
  /\ sessions' = [x \in SessionIds |->
       IF x \notin SessionsOf(e) THEN sessions[x]
       ELSE IF x = kept
            THEN [e |-> e, pw |-> p, late |-> p # users[e].pw]
            ELSE None]
  /\ unrevoked' = [unrevoked EXCEPT ![e] = FALSE]

\* PATCH /v1/account, by a session whose holder knows the current password.
PasswordStart(s, x, p) ==
  /\ Admitted(x)
  /\ users[sessions[x].e].pw # None
  /\ Begin(s, [Idle EXCEPT !.op = "password", !.pc = "update",
                           !.e = sessions[x].e, !.p = p, !.x = x])
  /\ UNCHANGED <<users, sessions, resets, fails, unrevoked, redeemed>>

PasswordUpdate(s) ==
  /\ At(s, "password", "update")
  /\ SetPassword(task[s].e, task[s].p)
  /\ Goto(s, "revoke")
  /\ UNCHANGED <<sessions, resets, fails, redeemed>>

PasswordRevoke(s) ==
  /\ At(s, "password", "revoke")
  /\ RevokeSessions(task[s].e, task[s].x, task[s].p)
  /\ End(s)
  /\ UNCHANGED <<users, resets, fails, redeemed>>

-----------------------------------------------------------------------------
(* Password reset: a token by mail, then a confirmation that uses it.      *)

ResetRequest(e, t) ==
  /\ Request
  /\ users[e] # None
  /\ resets[t] = None
  /\ resets' = [resets EXCEPT ![t] = [e |-> e, st |-> "open"]]
  /\ UNCHANGED <<users, sessions, fails, task, unrevoked, redeemed>>

ResetExpires(t) ==
  /\ resets[t] # None /\ resets[t].st = "open"
  /\ resets' = [resets EXCEPT ![t].st = "expired"]
  /\ UNCHANGED <<users, sessions, fails, task, begun, unrevoked, redeemed>>

ResetStart(s, t, p) ==
  /\ resets[t] # None /\ resets[t].st = "open"
  /\ Begin(s, [Idle EXCEPT !.op = "reset", !.pc = "update",
                           !.e = resets[t].e, !.p = p, !.t = t])
  /\ UNCHANGED <<users, sessions, resets, fails, unrevoked, redeemed>>

ResetUpdate(s) ==
  /\ At(s, "reset", "update")
  /\ SetPassword(task[s].e, task[s].p)
  /\ redeemed' = [redeemed EXCEPT ![task[s].t] = @ + 1]
  /\ Goto(s, "consume")
  /\ UNCHANGED <<sessions, resets, fails>>

\* mark_password_reset_used looks at used_at only.
ResetUnused(t) == resets[t].st # "used"

ResetConsume(s) ==
  /\ At(s, "reset", "consume")
  /\ \/ /\ ResetUnused(task[s].t)
        /\ resets' = [resets EXCEPT ![task[s].t].st = "used"]
        /\ Goto(s, "revoke")
     \/ /\ ~ResetUnused(task[s].t)
        /\ End(s)
        /\ UNCHANGED resets
  /\ UNCHANGED <<users, sessions, fails, unrevoked, redeemed>>

ResetRevoke(s) ==
  /\ At(s, "reset", "revoke")
  /\ RevokeSessions(task[s].e, None, task[s].p)
  /\ End(s)
  /\ UNCHANGED <<users, resets, fails, redeemed>>

-----------------------------------------------------------------------------
(* Administration of users: read the target, decide, write.                *)

\* A faulty check that forgets the role.
FaultyPatchAllowed(e, r, a) == users[e].role = "owner" => a # "off"

\* PATCH /v1/users/{id} leaves an owner's role and activity alone.
PatchAllowed(e, r, a) ==
  users[e].role = "owner" => r \in {None, "owner"} /\ a # "off"

WriteUser(e, r, a) ==
  [Idle EXCEPT !.op = "user", !.pc = "write", !.e = e, !.r = r, !.a = a,
               !.seen = users[e].role]

PatchUser(s, e, r, a) ==
  /\ users[e] # None
  /\ PatchAllowed(e, r, a)
  /\ Begin(s, WriteUser(e, r, a))
  /\ UNCHANGED <<users, sessions, resets, fails, unrevoked, redeemed>>

\* DELETE /v1/users/{id} deactivates, and keeps the account's sessions.
DeleteUser(s, e) ==
  /\ users[e] # None
  /\ users[e].role # "owner"
  /\ Begin(s, WriteUser(e, None, "off"))
  /\ UNCHANGED <<users, sessions, resets, fails, unrevoked, redeemed>>

UpdateUser(s) ==
  /\ At(s, "user", "write")
  /\ LET new == task[s] IN
       users' = [users EXCEPT
         ![new.e].role = IF new.r = None THEN @ ELSE new.r,
         ![new.e].active = (new.a = "on") \/ (new.a = "keep" /\ @)]
  /\ End(s)
  /\ UNCHANGED <<sessions, resets, fails, unrevoked, redeemed>>

\* POST /v1/users/transfer-owner, to an account that is active.
TransferStart(s, e) ==
  /\ users[e] # None
  /\ users[e].active
  /\ Begin(s, [Idle EXCEPT !.op = "transfer", !.pc = "write", !.e = e])
  /\ UNCHANGED <<users, sessions, resets, fails, unrevoked, redeemed>>

TransferOwner(s) ==
  /\ At(s, "transfer", "write")
  /\ users' = [e \in Emails |->
       IF e = task[s].e THEN [users[e] EXCEPT !.role = "owner"]
       ELSE IF users[e] # None /\ users[e].role = "owner"
            THEN [users[e] EXCEPT !.role = "admin"]
            ELSE users[e]]
  /\ End(s)
  /\ UNCHANGED <<sessions, resets, fails, unrevoked, redeemed>>

-----------------------------------------------------------------------------
AccountStep(s) ==
  \/ Abort(s)
  \/ \E e \in Emails, p \in Passwords : LoginStart(s, e, p)
  \/ LoginRead(s) \/ LoginFail(s) \/ LoginSession(s)
  \/ \E x \in SessionIds, p \in Passwords : PasswordStart(s, x, p)
  \/ PasswordUpdate(s) \/ PasswordRevoke(s)
  \/ \E t \in ResetTokens, p \in Passwords : ResetStart(s, t, p)
  \/ ResetUpdate(s) \/ ResetConsume(s) \/ ResetRevoke(s)
  \/ \E e \in Emails, r \in Roles \cup {None}, a \in {"keep", "on", "off"} :
       PatchUser(s, e, r, a)
  \/ \E e \in Emails : DeleteUser(s, e)
  \/ UpdateUser(s)
  \/ \E e \in Emails : TransferStart(s, e)
  \/ TransferOwner(s)

Background ==
  \/ \E x \in SessionIds : Logout(x) \/ SessionExpired(x)
  \/ \E x, y \in SessionIds : RevokeSession(x, y)
  \/ \E e \in Emails : AttemptAges(e)
  \/ \E e \in Emails, t \in ResetTokens : ResetRequest(e, t)
  \/ \E t \in ResetTokens : ResetExpires(t)

AccountsNext == (\E s \in Slots : AccountStep(s)) \/ Background

-----------------------------------------------------------------------------
(* Properties.                                                             *)

\* At most MaxFails - 1 guesses of a password, and one more for each handler
\* that may be past the lockout check at the same time, fail within a window:
\* login reads the attempts and records its own in statements of their own.
GuessBound == \A e \in Emails : fails[e] <= MaxFails - 1 + Cardinality(Slots)

\* A session whose holder proved a password that the account no longer has
\* is left in two cases only: it was written after the change, by a login that
\* had verified the old password, or the handler that changed the password
\* has not revoked the sessions (it is about to, gave up, or lost its token
\* to another).  patch_account and password_reset_confirm both revoke.
OldPasswordSessions ==
  \A x \in SessionIds :
    sessions[x] # None =>
      \/ sessions[x].pw \in {None, users[sessions[x].e].pw}
      \/ sessions[x].late
      \/ unrevoked[sessions[x].e]

Owners == {e \in Known : users[e].role = "owner" /\ users[e].active}

\* The last active owner is lost only to a write that was decided on a row
\* that has changed since: patch_user and delete_user refuse to touch an owner
\* and transfer_owner an inactive target, but each on a row read before.
LastOwnerLostOnlyToRace ==
  [][Owners # {} /\ Owners' = {} =>
       \E s \in Slots :
         /\ task[s].pc = "write" /\ task'[s].pc = "idle"
         /\ \/ task[s].op = "user" /\ task[s].seen # users[task[s].e].role
            \/ task[s].op = "transfer" /\ ~users[task[s].e].active
    ]_accountVars
=============================================================================
