--------------------------- MODULE Tenants_proofs ---------------------------
(***************************************************************************)
(* Proofs about accounts, invitations and organizations, for any number of *)
(* accounts, identities, tokens, organizations and concurrent handlers:    *)
(* types and what a handler carries, verified links, password resets and   *)
(* invitations, each of which is redeemed once, who may guess and who      *)
(* stays logged in, and who is a member and who owns the deployment and    *)
(* its organizations.                                                      *)
(***************************************************************************)
EXTENDS Tenants, FiniteSetTheorems, TLAPS

----------------------------------------------------------------------------
(* The inductive invariant *)

\* What a handler works on exists, and is what it read: accounts, invitations
\* and resets are never deleted.
HasAccount(s) ==
  LET k == task[s] IN
    /\ k.pc # "idle" => k.e \in Emails
    /\ \/ k.op \in {"user", "transfer"}
       \/ k.pc \in {"session", "update", "consume", "revoke", "provision",
                    "add", "app", "link"}
       => k.e \in Emails /\ users[k.e] # None
    /\ k.pc = "link" => users[k.e].oauth # {}

HasInvite(s) ==
  LET k == task[s] IN
    k.op \in {"accept", "join"} =>
      /\ k.t \in InviteTokens /\ invites[k.t] # None
      /\ k.o = invites[k.t].o /\ k.r = invites[k.t].r
      /\ k.op = "accept" \/ k.pc = "read" => k.e = invites[k.t].e
      /\ k.e = invites[k.t].e \/ <<k.t, k.e>> \in vouched

HasReset(s) ==
  task[s].op = "reset" => task[s].t \in ResetTokens /\ resets[task[s].t] # None

\* What it carries from its request, and the steps its operation has.
Carries(s) ==
  LET k == task[s] IN
    /\ IF k.op \in {"oauth", "join"}
       THEN k.i \in Idents ELSE k.i = None
    /\ k.op \in {"oauth", "signup", "org"} => k.r = "owner"
    /\ k.op \notin {"reset", "accept", "join"} => k.t = None
    /\ k.pc = "create" => k.op \in {"signup", "oauth", "join", "accept"}
    /\ k.pc = "provision" => k.op \in {"signup", "oauth", "org"}
    /\ k.pc \in {"add", "app"} =>
         /\ k.o \in OrgIds
         /\ k.op \in {"signup", "oauth", "join", "accept", "org"}
    /\ k.pc = "app" => k.op \in {"signup", "oauth", "org"}
    /\ k.op = "member" =>
         k.pc = "write" /\ k.o \in OrgIds /\ k.r # "owner" /\ k.seen # "owner"
    /\ k.op = "user" =>
         /\ k.pc = "write"
         /\ k.seen = "owner" => k.r \in {None, "owner"} /\ k.a # "off"

Working(s) == HasAccount(s) /\ HasInvite(s) /\ HasReset(s) /\ Carries(s)

\* Sessions and resets are those of accounts; an account with an identity was
\* made by an OAuth login.
Rows ==
  /\ \A x \in SessionIds : sessions[x] # None => users[sessions[x].e] # None
  /\ \A t \in ResetTokens : resets[t] # None => users[resets[t].e] # None
  /\ \A e \in Emails :
       users[e] # None /\ users[e].oauth # {} => users[e].born = "oauth"

TInv == TenantsTypeOK /\ Rows /\ \A s \in Slots : Working(s)

\* What no step takes back.
Grows ==
  /\ \A e \in Emails : users[e] # None =>
       users'[e] # None /\ (users[e].oauth # {} => users'[e].oauth # {})
  /\ \A t \in ResetTokens : resets[t] # None =>
       resets'[t] # None /\ resets'[t].e = resets[t].e
  /\ \A t \in InviteTokens : invites[t] # None =>
       /\ invites'[t] # None
       /\ invites'[t].o = invites[t].o /\ invites'[t].r = invites[t].r
       /\ invites'[t].e = invites[t].e
  /\ vouched \subseteq vouched'

----------------------------------------------------------------------------
(* The handlers *)

LEMMA IdleTask == Idle \in Task /\ Idle.pc = "idle" /\ Idle.op = "none"
  BY DEF Idle, Task

LEMMA StaysWorking ==
  ASSUME TInv, Grows, NEW s \in Slots, task'[s] = task[s]
  PROVE  Working(s)'
  <1>1. Working(s) /\ task[s] \in Task
    BY DEF TInv, TenantsTypeOK, AccountsTypeOK
  <1>2. HasAccount(s)'
    BY <1>1 DEF Working, HasAccount, Grows
  <1>3. HasInvite(s)'
    BY <1>1 DEF Working, HasInvite, Grows
  <1>4. HasReset(s)'
    BY <1>1 DEF Working, HasReset, Grows
  <1>5. Carries(s)'
    BY <1>1 DEF Working, Carries
  <1> QED
    BY <1>2, <1>3, <1>4, <1>5 DEF Working

\* One handler moves: the others are as they were.
LEMMA OneWorks ==
  ASSUME TInv, Grows, NEW s \in Slots, NEW new \in Task,
         task' = [task EXCEPT ![s] = new], Working(s)'
  PROVE  /\ task' \in [Slots -> Task]
         /\ \A r \in Slots : Working(r)'
  <1>1. task \in [Slots -> Task]
    BY DEF TInv, TenantsTypeOK, AccountsTypeOK
  <1>2. task' \in [Slots -> Task] /\ \A r \in Slots \ {s} : task'[r] = task[r]
    BY <1>1
  <1> QED
    BY <1>2, StaysWorking

LEMMA EndsWorking ==
  ASSUME TInv, Grows, NEW s \in Slots, End(s)
  PROVE  /\ task' \in [Slots -> Task] /\ begun' \in 0 .. MaxRequests
         /\ \A r \in Slots : Working(r)'
  <1>1. Idle \in Task /\ task' = [task EXCEPT ![s] = Idle] /\ UNCHANGED begun
    BY IdleTask DEF End
  <1>2. task'[s] = Idle
    BY <1>1 DEF TInv, TenantsTypeOK, AccountsTypeOK
  <1>3. Working(s)'
    BY <1>2 DEF Working, HasAccount, HasInvite, HasReset, Carries, Idle
  <1> QED
    BY <1>1, <1>3, OneWorks DEF TInv, TenantsTypeOK, AccountsTypeOK

LEMMA AllStayWorking ==
  ASSUME TInv, Grows, UNCHANGED task
  PROVE  task' \in [Slots -> Task] /\ \A r \in Slots : Working(r)'
  BY StaysWorking DEF TInv, TenantsTypeOK, AccountsTypeOK

LEMMA BegunTyped ==
  ASSUME TInv, Request
  PROVE  begun' \in 0 .. MaxRequests
  BY AccountsAssumption DEF TInv, TenantsTypeOK, AccountsTypeOK, Request

----------------------------------------------------------------------------
(* Steps that write no row *)

Rest == <<users, sessions, resets, fails, unrevoked, redeemed, mode, orgs,
          members, apps, invites, founder, vouched>>

LEMMA RestStays ==
  ASSUME TInv, UNCHANGED Rest, task' \in [Slots -> Task],
         begun' \in 0 .. MaxRequests, \A r \in Slots : Working(r)'
  PROVE  TInv'
  <1>1. Rows'
    BY DEF TInv, Rows, Rest
  <1>2. TenantsTypeOK'
    BY DEF TInv, TenantsTypeOK, AccountsTypeOK, Rest
  <1> QED
    BY <1>1, <1>2 DEF TInv

LEMMA RestGrows == ASSUME UNCHANGED Rest PROVE Grows
  BY DEF Rest, Grows

LEMMA OnlyTask ==
  ASSUME TInv, NEW s \in Slots, NEW new \in Task,
         task' = [task EXCEPT ![s] = new], begun' \in 0 .. MaxRequests,
         UNCHANGED Rest, Working(s)'
  PROVE  TInv'
  BY RestStays, RestGrows, OneWorks

LEMMA OnlyEnd ==
  ASSUME TInv, NEW s \in Slots, End(s), UNCHANGED Rest
  PROVE  TInv'
  BY RestStays, RestGrows, EndsWorking

\* A handler that moves on.
LEMMA GotoTask ==
  ASSUME TInv, NEW s \in Slots,
         NEW pc \in {"read", "fail", "session", "update", "consume", "revoke",
                     "write", "create", "provision", "add", "app", "link"},
         Goto(s, pc)
  PROVE  /\ task' \in [Slots -> Task] /\ begun' \in 0 .. MaxRequests
         /\ task' = [task EXCEPT ![s] = [task[s] EXCEPT !.pc = pc]]
         /\ [task[s] EXCEPT !.pc = pc] \in Task
         /\ task'[s] = [task[s] EXCEPT !.pc = pc]
         /\ task'[s].pc = pc
         /\ task'[s].op = task[s].op /\ task'[s].e = task[s].e
         /\ task'[s].i = task[s].i /\ task'[s].t = task[s].t
         /\ task'[s].o = task[s].o /\ task'[s].r = task[s].r
         /\ task'[s].a = task[s].a /\ task'[s].seen = task[s].seen
  <1>1. /\ task[s] \in Task /\ begun' \in 0 .. MaxRequests
        /\ task \in [Slots -> Task]
    BY DEF TInv, TenantsTypeOK, AccountsTypeOK, Goto
  <1>2. [task[s] EXCEPT !.pc = pc] \in Task
    BY <1>1 DEF Task
  <1>3. task' = [task EXCEPT ![s] = [task[s] EXCEPT !.pc = pc]]
    BY <1>1 DEF Goto
  <1>4. task' \in [Slots -> Task] /\ task'[s] = [task[s] EXCEPT !.pc = pc]
    BY <1>1, <1>2, <1>3
  <1> QED
    BY <1>1, <1>2, <1>3, <1>4 DEF Task

\* The goal of most actions: the handler that moves is still in order.
LEMMA OnlyGoto ==
  ASSUME TInv, NEW s \in Slots,
         NEW pc \in {"read", "fail", "session", "update", "consume", "revoke",
                     "write", "create", "provision", "add", "app", "link"},
         Goto(s, pc), UNCHANGED Rest, Working(s)'
  PROVE  TInv'
  <1> DEFINE new == [task[s] EXCEPT !.pc = pc]
  <1>1. /\ new \in Task /\ task' = [task EXCEPT ![s] = new]
        /\ begun' \in 0 .. MaxRequests
    BY GotoTask
  <1> HIDE DEF new
  <1> QED
    BY <1>1, OnlyTask

\* A handler that is taken up.
LEMMA OnlyBegin ==
  ASSUME TInv, NEW s \in Slots, NEW new \in Task, Begin(s, new), UNCHANGED Rest,
         task'[s] = new => Working(s)'
  PROVE  TInv'
  <1>1. task' = [task EXCEPT ![s] = new] /\ Request
    BY DEF Begin
  <1>2. task'[s] = new
    BY <1>1 DEF TInv, TenantsTypeOK, AccountsTypeOK
  <1> QED
    BY <1>1, <1>2, OnlyTask, BegunTyped

\* A session that is let in is that of an account.
LEMMA AdmittedAccount ==
  ASSUME TInv, NEW x \in SessionIds, Admitted(x)
  PROVE  sessions[x].e \in Emails /\ users[sessions[x].e] # None
  BY DEF TInv, TenantsTypeOK, AccountsTypeOK, Rows, Admitted, Session

LEMMA LoginStartInv ==
  ASSUME TInv, NEW s \in Slots, NEW e \in Emails, NEW p \in Passwords,
         LoginStart(s, e, p), UNCHANGED tenantVars
  PROVE  TInv'
  <1> DEFINE new == [Idle EXCEPT !.op = "login", !.pc = "read", !.e = e, !.p = p]
  <1>1. new \in Task
    BY DEF Idle, Task
  <1>2. Begin(s, new) /\ UNCHANGED Rest
    BY DEF LoginStart, Rest, tenantVars, accountRows
  <1>3. ASSUME task'[s] = new PROVE Working(s)'
    BY <1>2, <1>3
    DEF Working, HasAccount, HasInvite, HasReset, Carries, Idle, Rest
  <1> HIDE DEF new
  <1> QED
    BY <1>1, <1>2, <1>3, OnlyBegin

LEMMA PasswordStartInv ==
  ASSUME TInv, NEW s \in Slots, NEW x \in SessionIds, NEW p \in Passwords,
         PasswordStart(s, x, p), UNCHANGED tenantVars
  PROVE  TInv'
  <1> DEFINE new == [Idle EXCEPT !.op = "password", !.pc = "update",
                                 !.e = sessions[x].e, !.p = p, !.x = x]
  <1>1. sessions[x].e \in Emails /\ users[sessions[x].e] # None
    BY AdmittedAccount DEF PasswordStart
  <1>2. new \in Task
    BY <1>1 DEF Idle, Task
  <1>3. Begin(s, new) /\ UNCHANGED Rest
    BY DEF PasswordStart, Rest, tenantVars, accountRows
  <1>4. ASSUME task'[s] = new PROVE Working(s)'
    BY <1>1, <1>3, <1>4
    DEF Working, HasAccount, HasInvite, HasReset, Carries, Idle, Rest
  <1> HIDE DEF new
  <1> QED
    BY <1>2, <1>3, <1>4, OnlyBegin

LEMMA ResetStartInv ==
  ASSUME TInv, NEW s \in Slots, NEW t \in ResetTokens, NEW p \in Passwords,
         ResetStart(s, t, p), UNCHANGED tenantVars
  PROVE  TInv'
  <1> DEFINE new == [Idle EXCEPT !.op = "reset", !.pc = "update",
                                 !.e = resets[t].e, !.p = p, !.t = t]
  <1>1. resets[t] # None /\ resets[t].e \in Emails /\ users[resets[t].e] # None
    BY DEF ResetStart, Reset, TInv, TenantsTypeOK, AccountsTypeOK, Rows
  <1>2. new \in Task
    BY <1>1 DEF Idle, Task
  <1>3. Begin(s, new) /\ UNCHANGED Rest
    BY DEF ResetStart, Rest, tenantVars, accountRows
  <1>4. ASSUME task'[s] = new PROVE Working(s)'
    BY <1>1, <1>3, <1>4
    DEF Working, HasAccount, HasInvite, HasReset, Carries, Idle, Rest
  <1> HIDE DEF new
  <1> QED
    BY <1>2, <1>3, <1>4, OnlyBegin

LEMMA PatchUserInv ==
  ASSUME TInv, NEW s \in Slots, NEW e \in Emails, NEW r \in Roles \cup {None},
         NEW a \in {"keep", "on", "off"},
         PatchUser(s, e, r, a), UNCHANGED tenantVars
  PROVE  TInv'
  <1> DEFINE new == [Idle EXCEPT !.op = "user", !.pc = "write", !.e = e, !.r = r,
                                 !.a = a, !.seen = users[e].role]
  <1>1. /\ users[e] # None /\ users[e].role \in Roles
        /\ users[e].role = "owner" => r \in {None, "owner"} /\ a # "off"
    BY DEF PatchUser, PatchAllowed, User, TInv, TenantsTypeOK, AccountsTypeOK
  <1>2. new \in Task
    BY <1>1 DEF Idle, Task
  <1>3. Begin(s, new) /\ UNCHANGED Rest
    BY DEF PatchUser, Rest, tenantVars, accountRows, WriteUser
  <1>4. ASSUME task'[s] = new PROVE Working(s)'
    BY <1>1, <1>3, <1>4
    DEF Working, HasAccount, HasInvite, HasReset, Carries, Idle, Rest
  <1> HIDE DEF new
  <1> QED
    BY <1>2, <1>3, <1>4, OnlyBegin

LEMMA DeleteUserInv ==
  ASSUME TInv, NEW s \in Slots, NEW e \in Emails,
         DeleteUser(s, e), UNCHANGED tenantVars
  PROVE  TInv'
  <1> DEFINE new == [Idle EXCEPT !.op = "user", !.pc = "write", !.e = e, !.r = None,
                                 !.a = "off", !.seen = users[e].role]
  <1>1. users[e] # None /\ users[e].role \in Roles /\ users[e].role # "owner"
    BY DEF DeleteUser, User, TInv, TenantsTypeOK, AccountsTypeOK
  <1>2. new \in Task
    BY <1>1 DEF Idle, Task
  <1>3. Begin(s, new) /\ UNCHANGED Rest
    BY DEF DeleteUser, Rest, tenantVars, accountRows, WriteUser
  <1>4. ASSUME task'[s] = new PROVE Working(s)'
    BY <1>1, <1>3, <1>4
    DEF Working, HasAccount, HasInvite, HasReset, Carries, Idle, Rest
  <1> HIDE DEF new
  <1> QED
    BY <1>2, <1>3, <1>4, OnlyBegin

LEMMA TransferStartInv ==
  ASSUME TInv, NEW s \in Slots, NEW e \in Emails,
         TransferStart(s, e), UNCHANGED tenantVars
  PROVE  TInv'
  <1> DEFINE new == [Idle EXCEPT !.op = "transfer", !.pc = "write", !.e = e]
  <1>1. users[e] # None
    BY DEF TransferStart
  <1>2. new \in Task
    BY <1>1 DEF Idle, Task
  <1>3. Begin(s, new) /\ UNCHANGED Rest
    BY DEF TransferStart, Rest, tenantVars, accountRows
  <1>4. ASSUME task'[s] = new PROVE Working(s)'
    BY <1>1, <1>3, <1>4
    DEF Working, HasAccount, HasInvite, HasReset, Carries, Idle, Rest
  <1> HIDE DEF new
  <1> QED
    BY <1>2, <1>3, <1>4, OnlyBegin

LEMMA CreateOrgInv ==
  ASSUME TInv, NEW s \in Slots, NEW x \in SessionIds,
         CreateOrg(s, x)
  PROVE  TInv'
  <1> DEFINE new == [Idle EXCEPT !.op = "org", !.pc = "provision",
                                 !.e = sessions[x].e, !.r = "owner"]
  <1>1. sessions[x].e \in Emails /\ users[sessions[x].e] # None /\ "owner" \in Roles
    BY AdmittedAccount DEF CreateOrg, Roles
  <1>2. new \in Task
    BY <1>1 DEF Idle, Task
  <1>3. Begin(s, new) /\ UNCHANGED Rest
    BY DEF CreateOrg, Rest, tenantVars, accountRows
  <1>4. ASSUME task'[s] = new PROVE Working(s)'
    BY <1>1, <1>3, <1>4
    DEF Working, HasAccount, HasInvite, HasReset, Carries, Idle, Rest
  <1> HIDE DEF new
  <1> QED
    BY <1>2, <1>3, <1>4, OnlyBegin

LEMMA PatchMemberInv ==
  ASSUME TInv, NEW s \in Slots, NEW o \in OrgIds, NEW e \in Emails, NEW r \in Roles,
         PatchMember(s, o, e, r)
  PROVE  TInv'
  <1> DEFINE new == [Idle EXCEPT !.op = "member", !.pc = "write", !.o = o, !.e = e,
                                 !.r = r, !.seen = members[o][e]]
  <1>1. r # "owner" /\ members[o][e] \in Roles \ {"owner"}
    BY DEF PatchMember, MemberMayChange, TInv, TenantsTypeOK
  <1>2. new \in Task
    BY <1>1 DEF Idle, Task
  <1>3. Begin(s, new) /\ UNCHANGED Rest
    BY DEF PatchMember, Rest, tenantVars, accountRows, ChangeMember
  <1>4. ASSUME task'[s] = new PROVE Working(s)'
    BY <1>1, <1>3, <1>4
    DEF Working, HasAccount, HasInvite, HasReset, Carries, Idle, Rest
  <1> HIDE DEF new
  <1> QED
    BY <1>2, <1>3, <1>4, OnlyBegin

LEMMA RemoveMemberInv ==
  ASSUME TInv, NEW s \in Slots, NEW o \in OrgIds, NEW e \in Emails,
         RemoveMember(s, o, e)
  PROVE  TInv'
  <1> DEFINE new == [Idle EXCEPT !.op = "member", !.pc = "write", !.o = o, !.e = e,
                                 !.r = None, !.seen = members[o][e]]
  <1>1. members[o][e] \in Roles \ {"owner"} /\ None # "owner"
    BY AccountsAssumption DEF RemoveMember, MemberMayChange, TInv, TenantsTypeOK
  <1>2. new \in Task
    BY <1>1 DEF Idle, Task
  <1>3. Begin(s, new) /\ UNCHANGED Rest
    BY DEF RemoveMember, Rest, tenantVars, accountRows, ChangeMember
  <1>4. ASSUME task'[s] = new PROVE Working(s)'
    BY <1>1, <1>3, <1>4
    DEF Working, HasAccount, HasInvite, HasReset, Carries, Idle, Rest
  <1> HIDE DEF new
  <1> QED
    BY <1>2, <1>3, <1>4, OnlyBegin

LEMMA InviteRow ==
  ASSUME TInv, NEW t \in InviteTokens, invites[t] # None
  PROVE  /\ invites[t] \in Invite
         /\ invites[t].e \in Emails /\ invites[t].o \in OrgIds
         /\ invites[t].r \in {"admin", "member"} /\ invites[t].r \in Roles
  BY DEF TInv, TenantsTypeOK, Invite, Roles

LEMMA AcceptStartInv ==
  ASSUME TInv, NEW s \in Slots, NEW t \in InviteTokens, NEW p \in Passwords,
         AcceptStart(s, t, p)
  PROVE  TInv'
  <1> DEFINE new == [Idle EXCEPT !.op = "accept", !.pc = "read", !.t = t,
                 !.e = invites[t].e, !.o = invites[t].o, !.r = invites[t].r,
                 !.p = p]
  <1>1. /\ invites[t] # None /\ invites[t].e \in Emails
        /\ invites[t].o \in OrgIds /\ invites[t].r \in Roles
    BY InviteRow DEF AcceptStart, Valid
  <1>2. new \in Task
    BY <1>1 DEF Idle, Task
  <1>3. Begin(s, new) /\ UNCHANGED Rest
    BY DEF AcceptStart, Rest, tenantVars, accountRows, Answer, Idle
  <1>4. ASSUME task'[s] = new PROVE Working(s)'
    BY <1>1, <1>3, <1>4
    DEF Working, HasAccount, HasInvite, HasReset, Carries, Idle, Rest
  <1> HIDE DEF new
  <1> QED
    BY <1>2, <1>3, <1>4, OnlyBegin

LEMMA SignupStartInv ==
  ASSUME TInv, NEW s \in Slots, NEW e \in Emails, NEW p \in Passwords,
         SignupStart(s, e, p)
  PROVE  TInv'
  <1> DEFINE new == [Idle EXCEPT !.op = "signup", !.pc = "create", !.e = e, !.p = p,
                                 !.r = "owner"]
  <1>1. "owner" \in Roles
    BY DEF Roles
  <1>2. new \in Task
    BY <1>1 DEF Idle, Task
  <1>3. Begin(s, new) /\ UNCHANGED Rest
    BY DEF SignupStart, Rest, tenantVars, accountRows
  <1>4. ASSUME task'[s] = new PROVE Working(s)'
    BY <1>1, <1>3, <1>4
    DEF Working, HasAccount, HasInvite, HasReset, Carries, Idle, Rest
  <1> HIDE DEF new
  <1> QED
    BY <1>2, <1>3, <1>4, OnlyBegin

LEMMA OAuthStartInv ==
  ASSUME TInv, NEW s \in Slots, NEW i \in Idents, NEW e \in Emails,
         OAuthStart(s, i, e)
  PROVE  TInv'
  <1> DEFINE new == [Idle EXCEPT !.op = "oauth", !.pc = "read", !.i = i,
                                 !.e = e, !.r = "owner"]
  <1>1. "owner" \in Roles
    BY DEF Roles
  <1>2. new \in Task
    BY <1>1 DEF Idle, Task
  <1>3. Begin(s, new) /\ UNCHANGED Rest
    BY DEF OAuthStart, Rest, tenantVars, accountRows
  <1>4. ASSUME task'[s] = new PROVE Working(s)'
    BY <1>1, <1>3, <1>4
    DEF Working, HasAccount, HasInvite, HasReset, Carries, Idle, Rest
  <1> HIDE DEF new
  <1> QED
    BY <1>2, <1>3, <1>4, OnlyBegin

LEMMA OAuthJoinStartInv ==
  ASSUME TInv, NEW s \in Slots, NEW i \in Idents, NEW e \in Emails,
         NEW t \in InviteTokens, OAuthJoinStart(s, i, e, t)
  PROVE  TInv'
  <1> DEFINE new == [Idle EXCEPT !.op = "join", !.pc = "read", !.t = t,
                 !.e = e, !.o = invites[t].o, !.r = invites[t].r,
                 !.i = i]
  <1>1. /\ invites[t] # None /\ invites[t].e = e
        /\ invites[t].o \in OrgIds /\ invites[t].r \in Roles
    BY InviteRow DEF OAuthJoinStart, Addressed, Valid
  <1>2. new \in Task
    BY <1>1 DEF Idle, Task
  <1>3. Begin(s, new) /\ UNCHANGED Rest
    BY DEF OAuthJoinStart, Rest, tenantVars, accountRows, Answer, Idle
  <1>4. ASSUME task'[s] = new PROVE Working(s)'
    BY <1>1, <1>3, <1>4
    DEF Working, HasAccount, HasInvite, HasReset, Carries, Idle, Rest
  <1> HIDE DEF new
  <1> QED
    BY <1>2, <1>3, <1>4, OnlyBegin

LEMMA AbortInv ==
  ASSUME TInv, NEW s \in Slots, Abort(s), UNCHANGED tenantVars
  PROVE  TInv'
  BY OnlyEnd DEF Abort, Rest, tenantVars

LEMMA LoginReadInv ==
  ASSUME TInv, NEW s \in Slots, LoginRead(s), UNCHANGED tenantVars
  PROVE  TInv'
  <1>1. UNCHANGED Rest /\ task[s].op = "login" /\ Working(s) /\ task[s].e \in Emails
    BY DEF LoginRead, At, Rest, tenantVars, TInv, Working, HasAccount
  <1>2. CASE users[task[s].e] # None /\ Goto(s, "session")
    <2>1. Working(s)'
      BY <1>1, <1>2, GotoTask
      DEF Working, HasAccount, HasInvite, HasReset, Carries, Rest
    <2> QED
      BY <1>1, <1>2, <2>1, OnlyGoto
  <1>3. CASE Goto(s, "fail")
    <2>1. Working(s)'
      BY <1>1, <1>3, GotoTask
      DEF Working, HasAccount, HasInvite, HasReset, Carries, Rest
    <2> QED
      BY <1>1, <1>3, <2>1, OnlyGoto
  <1> QED
    BY <1>2, <1>3 DEF LoginRead, Verified

LEMMA AcceptReadInv ==
  ASSUME TInv, NEW s \in Slots, AcceptRead(s)
  PROVE  TInv'
  <1>1. /\ UNCHANGED Rest /\ task[s].op = "accept" /\ Working(s)
        /\ task[s].e \in Emails /\ task[s].o \in OrgIds
    BY InviteRow DEF AcceptRead, At, Rest, accountRows, tenantVars, TInv,
                     Working, HasAccount, HasInvite
  <1>2. CASE users[task[s].e] = None /\ Goto(s, "create")
    <2>1. Working(s)'
      BY <1>1, <1>2, GotoTask
      DEF Working, HasAccount, HasInvite, HasReset, Carries, Rest
    <2> QED
      BY <1>1, <1>2, <2>1, OnlyGoto
  <1>3. CASE users[task[s].e] # None /\ Goto(s, "add")
    <2>1. Working(s)'
      BY <1>1, <1>3, GotoTask
      DEF Working, HasAccount, HasInvite, HasReset, Carries, Rest
    <2> QED
      BY <1>1, <1>3, <2>1, OnlyGoto
  <1>4. CASE End(s)
    BY <1>1, <1>4, OnlyEnd
  <1> QED
    BY <1>2, <1>3, <1>4 DEF AcceptRead, Verified

\* An identity is held by an account that exists.
LEMMA HolderAccount ==
  ASSUME TInv, NEW i \in Idents, NEW e \in HolderOf(i)
  PROVE  e \in Emails /\ users[e] # None
  BY DEF TInv, Rows, HolderOf, Known

\* A handler moves on with an account.
LEMMA MovesWithAccount ==
  ASSUME TInv, NEW s \in Slots, NEW e \in Emails,
         NEW pc \in {"session", "consume"},
         task' = [task EXCEPT ![s].e = e, ![s].pc = pc]
  PROVE  /\ task' = [task EXCEPT ![s] = task'[s]] /\ task'[s] \in Task
         /\ task'[s].pc = pc /\ task'[s].e = e /\ task'[s].op = task[s].op
         /\ task'[s].o = task[s].o /\ task'[s].i = task[s].i
         /\ task'[s].t = task[s].t /\ task'[s].r = task[s].r
  <1> DEFINE half  == [task[s] EXCEPT !.e = e]
             new   == [half EXCEPT !.pc = pc]
             tasks == [task EXCEPT ![s] = half]
  <1>1. task \in [Slots -> Task] /\ task[s] \in Task
    BY DEF TInv, TenantsTypeOK, AccountsTypeOK
  <1>2. /\ half \in Task /\ half.e = e /\ half.op = task[s].op
        /\ half.o = task[s].o /\ half.i = task[s].i /\ half.t = task[s].t
        /\ half.r = task[s].r
    BY <1>1 DEF Task
  <1>3. tasks \in [Slots -> Task] /\ tasks[s] = half
    BY <1>1, <1>2
  <1>4. task' = [tasks EXCEPT ![s] = [tasks[s] EXCEPT !.pc = pc]]
    OBVIOUS
  <1> HIDE DEF half
  <1>5. /\ new \in Task /\ new.pc = pc /\ new.e = half.e /\ new.op = half.op
        /\ new.o = half.o /\ new.i = half.i /\ new.t = half.t
        /\ new.r = half.r
    BY <1>2 DEF Task
  <1> HIDE DEF new, tasks
  <1>6. task' = [tasks EXCEPT ![s] = new]
    BY <1>3, <1>4 DEF new
  <1>7. task' = [task EXCEPT ![s] = new] /\ task'[s] = new
    BY <1>1, <1>3, <1>6 DEF tasks
  <1> QED
    BY <1>2, <1>5, <1>7

LEMMA OAuthFoundInv ==
  ASSUME TInv, NEW s \in Slots, OAuthFound(s)
  PROVE  TInv'
  <1> DEFINE k == task[s]
  <1>1. /\ UNCHANGED <<accountRows, redeemed, mode, orgs, members, apps,
                       invites, founder>>
        /\ k.op \in {"oauth", "join"} /\ k.pc = "read" /\ Working(s)
        /\ k.i \in Idents /\ k \in Task
    BY DEF OAuthFound, TInv, TenantsTypeOK, AccountsTypeOK, Working, Carries
  <1>2. ASSUME NEW e \in HolderOf(k.i), UNCHANGED begun,
               NEW pc \in {"session", "consume"},
               task' = [task EXCEPT ![s].e = e, ![s].pc = pc],
               vouched' = IF k.op = "join" /\ invites[k.t].e = k.e
                          THEN vouched \cup {<<k.t, e>>} ELSE vouched
        PROVE  TInv'
    <2> DEFINE new == task'[s]
    <2>1. e \in Emails /\ users[e] # None
      BY <1>1, <1>2, HolderAccount
    <2>2. /\ new \in Task /\ task' = [task EXCEPT ![s] = new]
          /\ new.pc = pc /\ new.e = e /\ new.op = k.op
          /\ new.i = k.i /\ new.t = k.t /\ new.o = k.o /\ new.r = k.r
      BY <1>1, <1>2, <2>1, MovesWithAccount
    <2>3. k.op = "join" => k.t \in InviteTokens /\ invites[k.t].e = k.e
      BY <1>1 DEF Working, HasInvite
    <2>4. Grows /\ vouched' \subseteq InviteTokens \X Emails
      <3>1. vouched \subseteq InviteTokens \X Emails
        BY DEF TInv, TenantsTypeOK
      <3> QED
        BY <1>1, <1>2, <2>1, <2>3, <3>1 DEF Grows, accountRows
    <2>5. HasAccount(s)' /\ HasReset(s)' /\ Carries(s)'
      BY <1>1, <2>1, <2>2
      DEF Working, HasAccount, HasReset, Carries, accountRows
    <2>6. HasInvite(s)'
      <3>1. k.op = "join" => <<new.t, new.e>> \in vouched'
        BY <1>2, <2>2, <2>3
      <3>2. /\ new.op = "accept" => FALSE
            /\ new.op = "join" =>
                 /\ new.pc # "read" /\ k.t \in InviteTokens /\ invites[k.t] # None
                 /\ k.o = invites[k.t].o /\ k.r = invites[k.t].r
        BY <1>1, <2>2 DEF Working, HasInvite
      <3> HIDE DEF new
      <3> QED
        BY <1>1, <2>2, <3>1, <3>2 DEF HasInvite, new
    <2>7. task' \in [Slots -> Task] /\ \A r \in Slots : Working(r)'
      BY <2>2, <2>4, <2>5, <2>6, OneWorks DEF Working
    <2>8. Rows'
      BY <1>1 DEF TInv, Rows, accountRows
    <2> QED
      BY <1>1, <1>2, <2>4, <2>7, <2>8
      DEF TInv, TenantsTypeOK, AccountsTypeOK, accountRows
  <1>3. CASE End(s) /\ UNCHANGED vouched
    <2>1. UNCHANGED Rest
      BY <1>1, <1>3 DEF Rest, accountRows
    <2> QED
      BY <1>3, <2>1, OnlyEnd
  <1>4. AfterAccount(k.op) \in {"session", "consume"}
    BY <1>1 DEF AfterAccount
  <1> QED
    BY <1>2, <1>3, <1>4 DEF OAuthFound

LEMMA OAuthByEmailInv ==
  ASSUME TInv, NEW s \in Slots, OAuthByEmail(s)
  PROVE  TInv'
  <1> DEFINE e == task[s].e
             new == [task[s] EXCEPT !.pc = "link", !.live = users[e].active]
  <1>1. /\ UNCHANGED Rest /\ task[s].op \in {"oauth", "join"} /\ Working(s)
        /\ task[s].pc = "read" /\ e \in Emails
        /\ task[s].i \in Idents /\ task[s] \in Task
    BY DEF OAuthByEmail, Rest, accountRows, tenantVars, TInv, TenantsTypeOK,
           AccountsTypeOK, Working, Carries, HasAccount
  <1>2. CASE /\ Linkable(e) /\ UNCHANGED begun
             /\ task' = [task EXCEPT ![s].pc = "link",
                                     ![s].live = users[e].active]
    <2>1. users[e] \in User /\ users[e].oauth # {} /\ users[e] # None
      BY <1>1, <1>2 DEF Linkable, TInv, TenantsTypeOK, AccountsTypeOK
    <2>2. new \in Task /\ task' = [task EXCEPT ![s] = new]
      <3>1. users[e].active \in BOOLEAN
        BY <2>1 DEF User
      <3>2. new \in Task
        BY <1>1, <3>1 DEF Task
      <3>3. task' = [task EXCEPT ![s] = new]
        BY <1>2 DEF TInv, TenantsTypeOK, AccountsTypeOK
      <3> QED BY <3>2, <3>3
    <2>3. task'[s] = new /\ begun' \in 0 .. MaxRequests
      BY <1>2, <2>2 DEF TInv, TenantsTypeOK, AccountsTypeOK
    <2>4. /\ task'[s].pc = "link" /\ task'[s].e = e
          /\ task'[s].op = task[s].op
          /\ task'[s].i = task[s].i /\ task'[s].t = task[s].t
          /\ task'[s].o = task[s].o /\ task'[s].r = task[s].r
      BY <1>1, <2>3 DEF Task
    <2>5. Working(s)'
      BY <1>1, <2>1, <2>4
      DEF Working, HasAccount, HasInvite, HasReset, Carries, Rest
    <2> HIDE DEF new
    <2> QED
      BY <1>1, <2>2, <2>3, <2>5, OnlyTask
  <1>3. CASE End(s)
    BY <1>1, <1>3, OnlyEnd
  <1>4. CASE Goto(s, "create")
    <2>1. Working(s)'
      BY <1>1, <1>4, GotoTask
      DEF Working, HasAccount, HasInvite, HasReset, Carries, Rest
    <2> QED
      BY <1>1, <1>4, <2>1, OnlyGoto
  <1> QED
    BY <1>2, <1>3, <1>4 DEF OAuthByEmail

----------------------------------------------------------------------------
(* Steps that write rows                                                   *)

\* Rows stay in order if accounts stay what they are and the sessions and
\* resets that are new are of accounts.
LEMMA RowsKept ==
  ASSUME TInv, Grows,
         \A x \in SessionIds : sessions'[x] # None =>
           \/ sessions'[x] = sessions[x]
           \/ sessions'[x].e \in Emails /\ users[sessions'[x].e] # None,
         \A t \in ResetTokens : resets'[t] # None =>
           \/ resets[t] # None
           \/ resets'[t].e \in Emails /\ users[resets'[t].e] # None,
         \A e \in Emails : users'[e] # None =>
           /\ users'[e].oauth # {} => users'[e].born = "oauth"
  PROVE  Rows'
  <1>1. ASSUME NEW x \in SessionIds, sessions'[x] # None
        PROVE  users'[sessions'[x].e] # None
    <2>1. CASE sessions'[x] = sessions[x]
      <3>1. sessions[x].e \in Emails /\ users[sessions[x].e] # None
        BY <1>1, <2>1 DEF TInv, Rows, TenantsTypeOK, AccountsTypeOK, Session
      <3> QED
        BY <2>1, <3>1 DEF Grows
    <2>2. CASE sessions'[x].e \in Emails /\ users[sessions'[x].e] # None
      BY <2>2 DEF Grows
    <2> QED
      BY <1>1, <2>1, <2>2
  <1>2. ASSUME NEW t \in ResetTokens, resets'[t] # None
        PROVE  users'[resets'[t].e] # None
    <2>1. CASE resets[t] # None
      <3>1. /\ resets[t].e \in Emails /\ users[resets[t].e] # None
            /\ resets'[t].e = resets[t].e
        BY <2>1 DEF TInv, Rows, TenantsTypeOK, AccountsTypeOK, Reset, Grows
      <3> QED
        BY <3>1 DEF Grows
    <2>2. CASE resets'[t].e \in Emails /\ users[resets'[t].e] # None
      BY <2>2 DEF Grows
    <2> QED
      BY <1>2, <2>1, <2>2
  <1> QED
    BY <1>1, <1>2 DEF Rows

\* A row of an account is updated in other columns than its identities.
LEMMA UserUpdated ==
  ASSUME TInv, NEW e \in Emails, users[e] # None, NEW row \in User,
         row.oauth = users[e].oauth, row.born = users[e].born,
         users' = [users EXCEPT ![e] = row],
         UNCHANGED <<resets, invites, vouched>>
  PROVE  /\ users' \in [Emails -> User \cup {None}]
         /\ Grows
         /\ \A f \in Emails : users'[f] # None =>
              /\ users'[f].oauth # {} => users'[f].born = "oauth"
  <1>1. users \in [Emails -> User \cup {None}] /\ row # None
    BY NoneIsNoRow DEF TInv, TenantsTypeOK, AccountsTypeOK
  <1>2. users'[e] = row /\ \A f \in Emails \ {e} : users'[f] = users[f]
    BY <1>1
  <1>3. Grows
    BY <1>1, <1>2 DEF Grows
  <1>4. ASSUME NEW f \in Emails, users'[f] # None
        PROVE  /\ users'[f].oauth # {} => users'[f].born = "oauth"
    <2>1. CASE f = e
      BY <1>2, <2>1 DEF TInv, Rows
    <2>2. CASE f # e
      BY <1>2, <1>4, <2>2 DEF TInv, Rows
    <2> QED
      BY <2>1, <2>2
  <1> QED
    BY <1>1, <1>3, <1>4

LEMMA SetPasswordRows ==
  ASSUME TInv, NEW e \in Emails, users[e] # None, NEW p \in Passwords \cup {None},
         SetPassword(e, p),
         UNCHANGED <<sessions, resets, invites, vouched>>
  PROVE  /\ users' \in [Emails -> User \cup {None}]
         /\ unrevoked' \in [Emails -> BOOLEAN]
         /\ Grows /\ Rows'
  <1> DEFINE row == [users[e] EXCEPT !.pw = p]
  <1>1. users[e] \in User /\ users \in [Emails -> User \cup {None}]
    BY DEF TInv, TenantsTypeOK, AccountsTypeOK
  <1>2. row \in User /\ row.oauth = users[e].oauth /\ row.born = users[e].born
    BY <1>1 DEF User
  <1>3. users' = [users EXCEPT ![e] = row]
    BY <1>1 DEF SetPassword
  <1> HIDE DEF row
  <1>4. /\ users' \in [Emails -> User \cup {None}] /\ Grows
        /\ \A f \in Emails : users'[f] # None =>
             /\ users'[f].oauth # {} => users'[f].born = "oauth"
    BY <1>2, <1>3, UserUpdated
  <1>5. Rows'
    BY <1>4, RowsKept
  <1>6. unrevoked' \in [Emails -> BOOLEAN]
    BY DEF SetPassword, TInv, TenantsTypeOK, AccountsTypeOK
  <1> QED
    BY <1>4, <1>5, <1>6

LEMMA RevokeSessionsRows ==
  ASSUME TInv, NEW e \in Emails, users[e] # None,
         NEW kept \in SessionIds \cup {None}, NEW p \in Passwords \cup {None},
         RevokeSessions(e, kept, p),
         UNCHANGED <<users, resets, invites, vouched>>
  PROVE  /\ sessions' \in [SessionIds -> Session \cup {None}]
         /\ unrevoked' \in [Emails -> BOOLEAN]
         /\ Grows /\ Rows'
  <1>1. [e |-> e, pw |-> p, late |-> p # users[e].pw] \in Session
    BY DEF Session
  <1>2. sessions' \in [SessionIds -> Session \cup {None}]
    BY <1>1 DEF RevokeSessions, TInv, TenantsTypeOK, AccountsTypeOK
  <1>3. Grows
    BY DEF Grows
  <1>4. ASSUME NEW x \in SessionIds, sessions'[x] # None
        PROVE  \/ sessions'[x] = sessions[x]
               \/ sessions'[x].e \in Emails /\ users[sessions'[x].e] # None
    BY <1>4 DEF RevokeSessions
  <1>5. Rows'
    <2>1. \A f \in Emails : users'[f] # None =>
            /\ users'[f].oauth # {} => users'[f].born = "oauth"
      BY DEF TInv, Rows
    <2> QED
      BY <1>3, <1>4, <2>1, RowsKept
  <1>6. unrevoked' \in [Emails -> BOOLEAN]
    BY DEF RevokeSessions, TInv, TenantsTypeOK, AccountsTypeOK
  <1> QED
    BY <1>2, <1>3, <1>5, <1>6

LEMMA NewSessionRows ==
  ASSUME TInv, NEW e \in Emails, users[e] # None,
         NEW p \in Passwords \cup {None}, NewSession(e, p),
         UNCHANGED <<users, resets, invites, vouched>>
  PROVE  sessions' \in [SessionIds -> Session \cup {None}] /\ Grows /\ Rows'
  <1>1. PICK x \in SessionIds :
          sessions' = [sessions EXCEPT ![x] =
            [e |-> e, pw |-> p, late |-> p # None /\ p # users[e].pw]]
    BY DEF NewSession
  <1>2. [e |-> e, pw |-> p, late |-> p # None /\ p # users[e].pw] \in Session
    BY DEF Session
  <1>3. sessions' \in [SessionIds -> Session \cup {None}]
    BY <1>1, <1>2 DEF TInv, TenantsTypeOK, AccountsTypeOK
  <1>4. Grows
    BY DEF Grows
  <1>5. ASSUME NEW y \in SessionIds, sessions'[y] # None
        PROVE  \/ sessions'[y] = sessions[y]
               \/ sessions'[y].e \in Emails /\ users[sessions'[y].e] # None
    BY <1>1 DEF TInv, TenantsTypeOK, AccountsTypeOK
  <1>6. \A f \in Emails : users'[f] # None =>
          /\ users'[f].oauth # {} => users'[f].born = "oauth"
    BY DEF TInv, Rows
  <1>7. Rows'
    BY <1>4, <1>5, <1>6, RowsKept
  <1> QED
    BY <1>3, <1>4, <1>7

\* Sessions may go at any time.
LEMMA SessionGoneRows ==
  ASSUME TInv, NEW x \in SessionIds,
         sessions' = [sessions EXCEPT ![x] = None],
         UNCHANGED <<users, resets, invites, vouched>>
  PROVE  sessions' \in [SessionIds -> Session \cup {None}] /\ Grows /\ Rows'
  <1>1. sessions' \in [SessionIds -> Session \cup {None}]
    BY DEF TInv, TenantsTypeOK, AccountsTypeOK
  <1>2. Grows
    BY DEF Grows
  <1>3. Rows'
    BY DEF TInv, TenantsTypeOK, AccountsTypeOK, Rows
  <1> QED
    BY <1>1, <1>2, <1>3

LEMMA SetPasswordInv ==
  ASSUME TInv, NEW s \in Slots, UNCHANGED tenantVars,
         PasswordUpdate(s) \/ ResetUpdate(s)
  PROVE  TInv'
  <1> DEFINE e == task[s].e
  <1>1. /\ SetPassword(e, task[s].p) /\ UNCHANGED <<sessions, resets, fails>>
        /\ Working(s) /\ e \in Emails /\ users[e] # None
        /\ task[s] \in Task /\ task[s].p \in Passwords \cup {None}
        /\ task[s].op \in {"password", "reset"}
    BY DEF PasswordUpdate, ResetUpdate, At, TInv, TenantsTypeOK, AccountsTypeOK,
           Working, HasAccount, Task
  <1>2. /\ users' \in [Emails -> User \cup {None}]
        /\ unrevoked' \in [Emails -> BOOLEAN] /\ Grows /\ Rows'
    BY <1>1, SetPasswordRows DEF tenantVars
  <1>3. ASSUME NEW pc \in {"revoke", "consume"}, Goto(s, pc),
               redeemed' \in [Tokens -> Nat]
        PROVE  TInv'
    <2>1. /\ task'[s].pc = pc
          /\ task'[s].op = task[s].op /\ task'[s].e = task[s].e
          /\ task'[s].i = task[s].i /\ task'[s].t = task[s].t
          /\ task'[s].o = task[s].o /\ task'[s].r = task[s].r
          /\ begun' \in 0 .. MaxRequests
      BY <1>3, GotoTask
    <2>2. HasAccount(s)'
      BY <1>1, <1>2, <2>1 DEF HasAccount, Grows
    <2>3. HasInvite(s)' /\ HasReset(s)' /\ Carries(s)'
      BY <1>1, <2>1 DEF Working, HasInvite, HasReset, Carries
    <2> DEFINE new == [task[s] EXCEPT !.pc = pc]
    <2>4. new \in Task /\ task' = [task EXCEPT ![s] = new]
      BY <1>3, GotoTask
    <2> HIDE DEF new
    <2>5. task' \in [Slots -> Task] /\ \A r \in Slots : Working(r)'
      BY <1>2, <2>2, <2>3, <2>4, OneWorks DEF Working
    <2> QED
      BY <1>1, <1>2, <1>3, <2>1, <2>5
      DEF TInv, TenantsTypeOK, AccountsTypeOK, tenantVars
  <1>4. redeemed' \in [Tokens -> Nat]
    BY DEF PasswordUpdate, ResetUpdate, TInv, TenantsTypeOK, AccountsTypeOK
  <1> QED
    BY <1>3, <1>4 DEF PasswordUpdate, ResetUpdate

LEMMA RevokeInv ==
  ASSUME TInv, NEW s \in Slots, UNCHANGED tenantVars,
         PasswordRevoke(s) \/ ResetRevoke(s)
  PROVE  TInv'
  <1> DEFINE e == task[s].e
  <1>1. /\ UNCHANGED <<users, resets, fails, redeemed>> /\ End(s)
        /\ e \in Emails /\ users[e] # None /\ task[s].p \in Passwords \cup {None}
        /\ task[s].x \in SessionIds \cup {None}
    BY DEF PasswordRevoke, ResetRevoke, At, TInv, TenantsTypeOK,
           AccountsTypeOK, Working, HasAccount, Task
  <1>2. \E kept \in SessionIds \cup {None} : RevokeSessions(e, kept, task[s].p)
    BY <1>1 DEF PasswordRevoke, ResetRevoke
  <1>3. /\ sessions' \in [SessionIds -> Session \cup {None}]
        /\ unrevoked' \in [Emails -> BOOLEAN] /\ Grows /\ Rows'
    BY <1>1, <1>2, RevokeSessionsRows DEF tenantVars
  <1>4. /\ task' \in [Slots -> Task] /\ begun' \in 0 .. MaxRequests
        /\ \A r \in Slots : Working(r)'
    BY <1>1, <1>3, EndsWorking
  <1> QED
    BY <1>1, <1>3, <1>4 DEF TInv, TenantsTypeOK, AccountsTypeOK, tenantVars

LEMMA LoginFailInv ==
  ASSUME TInv, NEW s \in Slots, UNCHANGED tenantVars, LoginFail(s)
  PROVE  TInv'
  <1>1. /\ UNCHANGED <<users, sessions, resets, unrevoked, redeemed>> /\ End(s)
        /\ fails' \in [Emails -> Nat]
    <2>1. task[s].e \in Emails
      BY DEF LoginFail, At, TInv, Working, HasAccount
    <2> QED
      BY <2>1 DEF LoginFail, TInv, TenantsTypeOK, AccountsTypeOK
  <1>2. Grows
    BY <1>1 DEF Grows, tenantVars
  <1>3. Rows'
    BY <1>1 DEF TInv, Rows
  <1>4. /\ task' \in [Slots -> Task] /\ begun' \in 0 .. MaxRequests
        /\ \A r \in Slots : Working(r)'
    BY <1>1, <1>2, EndsWorking
  <1> QED
    BY <1>1, <1>3, <1>4 DEF TInv, TenantsTypeOK, AccountsTypeOK, tenantVars

LEMMA NewSessionInv ==
  ASSUME TInv, NEW s \in Slots, UNCHANGED tenantVars,
         LoginSession(s) \/ FinishLogin(s)
  PROVE  TInv'
  <1>1. /\ UNCHANGED <<users, resets, fails, unrevoked, redeemed>> /\ End(s)
        /\ NewSession(task[s].e, task[s].p)
        /\ task[s].e \in Emails /\ users[task[s].e] # None
        /\ task[s].p \in Passwords \cup {None}
    BY DEF LoginSession, FinishLogin, At, TInv, TenantsTypeOK,
           AccountsTypeOK, Working, HasAccount, Task
  <1>2. /\ sessions' \in [SessionIds -> Session \cup {None}] /\ Grows /\ Rows'
    BY <1>1, NewSessionRows DEF tenantVars
  <1>3. /\ task' \in [Slots -> Task] /\ begun' \in 0 .. MaxRequests
        /\ \A r \in Slots : Working(r)'
    BY <1>1, <1>2, EndsWorking
  <1> QED
    BY <1>1, <1>2, <1>3 DEF TInv, TenantsTypeOK, AccountsTypeOK, tenantVars

LEMMA ResetConsumeInv ==
  ASSUME TInv, NEW s \in Slots, UNCHANGED tenantVars, ResetConsume(s)
  PROVE  TInv'
  <1> DEFINE t == task[s].t
  <1>1. /\ UNCHANGED <<users, sessions, fails, unrevoked, redeemed>>
        /\ task[s].op = "reset" /\ task[s].pc = "consume" /\ Working(s)
        /\ task[s].e \in Emails /\ users[task[s].e] # None
        /\ t \in ResetTokens /\ resets[t] \in Reset
    BY DEF ResetConsume, At, TInv, TenantsTypeOK, AccountsTypeOK, Working,
           HasAccount, HasReset
  <1>2. CASE /\ resets' = [resets EXCEPT ![t].st = "used"]
             /\ Goto(s, "revoke")
    <2> DEFINE row == [resets[t] EXCEPT !.st = "used"]
    <2>1. row \in Reset /\ row.e = resets[t].e
      BY <1>1 DEF Reset, TokenState
    <2>2. row # None
      BY <2>1, NoneIsNoRow
    <2>3. resets' = [resets EXCEPT ![t] = row]
      BY <1>1, <1>2 DEF TInv, TenantsTypeOK, AccountsTypeOK
    <2> HIDE DEF row
    <2>4. resets' \in [ResetTokens -> Reset \cup {None}]
      BY <1>1, <1>2, <2>1, <2>3 DEF TInv, TenantsTypeOK, AccountsTypeOK
    <2>5. /\ resets'[t] = row
          /\ \A u \in ResetTokens \ {t} : resets'[u] = resets[u]
      BY <1>1, <2>3 DEF TInv, TenantsTypeOK, AccountsTypeOK
    <2>6. Grows
      BY <1>1, <2>1, <2>2, <2>5 DEF Grows, tenantVars
    <2>7. \A u \in ResetTokens : resets'[u] # None => resets[u] # None
      BY <1>1, <2>5, NoneIsNoRow
    <2>8. Rows'
      BY <1>1, <2>6, <2>7, RowsKept DEF TInv, Rows
    <2>9. /\ task'[s].pc = "revoke"
          /\ task'[s].op = task[s].op /\ task'[s].e = task[s].e
          /\ task'[s].i = task[s].i /\ task'[s].t = task[s].t
          /\ task'[s].o = task[s].o /\ task'[s].r = task[s].r
          /\ begun' \in 0 .. MaxRequests
      BY <1>2, GotoTask
    <2>10. HasAccount(s)'
      BY <1>1, <2>9 DEF HasAccount
    <2>11. HasReset(s)'
      BY <1>1, <2>2, <2>5, <2>9 DEF HasReset
    <2>12. HasInvite(s)' /\ Carries(s)'
      BY <1>1, <2>9 DEF Working, HasInvite, Carries
    <2> DEFINE new == [task[s] EXCEPT !.pc = "revoke"]
    <2>13. new \in Task /\ task' = [task EXCEPT ![s] = new]
      BY <1>2, GotoTask
    <2> HIDE DEF new
    <2>14. task' \in [Slots -> Task] /\ \A r \in Slots : Working(r)'
      BY <2>6, <2>10, <2>11, <2>12, <2>13, OneWorks DEF Working
    <2> QED
      BY <1>1, <2>4, <2>8, <2>9, <2>14
      DEF TInv, TenantsTypeOK, AccountsTypeOK, tenantVars
  <1>3. CASE End(s) /\ UNCHANGED resets
    <2>1. UNCHANGED Rest
      BY <1>1, <1>3 DEF Rest, tenantVars
    <2> QED
      BY <1>3, <2>1, OnlyEnd
  <1> QED
    BY <1>2, <1>3 DEF ResetConsume

LEMMA UpdateUserInv ==
  ASSUME TInv, NEW s \in Slots, UNCHANGED tenantVars, UpdateUser(s)
  PROVE  TInv'
  <1> DEFINE new == task[s]
             e == new.e
             row == [users[e] EXCEPT
               !.role = IF new.r = None THEN users[e].role ELSE new.r,
               !.active = (new.a = "on") \/ (new.a = "keep" /\ users[e].active)]
  <1>1. /\ UNCHANGED <<sessions, resets, fails, unrevoked, redeemed>> /\ End(s)
        /\ e \in Emails /\ users[e] \in User /\ users[e] # None
        /\ new.r \in Roles \cup {None}
    BY DEF UpdateUser, At, TInv, TenantsTypeOK, AccountsTypeOK, Working,
           HasAccount, Task
  <1>2. row \in User /\ row.oauth = users[e].oauth /\ row.born = users[e].born
    <2>1. /\ (IF new.r = None THEN users[e].role ELSE new.r) \in Roles
          /\ ((new.a = "on") \/ (new.a = "keep" /\ users[e].active)) \in BOOLEAN
      BY <1>1 DEF User
    <2> QED
      BY <1>1, <2>1 DEF User
  <1>3. users' = [users EXCEPT ![e] = row]
    BY <1>1 DEF UpdateUser, TInv, TenantsTypeOK, AccountsTypeOK, User
  <1> HIDE DEF row
  <1>4. /\ users' \in [Emails -> User \cup {None}] /\ Grows
        /\ \A f \in Emails : users'[f] # None =>
             /\ users'[f].oauth # {} => users'[f].born = "oauth"
    BY <1>1, <1>2, <1>3, UserUpdated DEF tenantVars
  <1>5. Rows'
    BY <1>1, <1>4, RowsKept
  <1>6. /\ task' \in [Slots -> Task] /\ begun' \in 0 .. MaxRequests
        /\ \A r \in Slots : Working(r)'
    BY <1>1, <1>4, EndsWorking
  <1> QED
    BY <1>1, <1>4, <1>5, <1>6
    DEF TInv, TenantsTypeOK, AccountsTypeOK, tenantVars

LEMMA TransferOwnerInv ==
  ASSUME TInv, NEW s \in Slots, UNCHANGED tenantVars, TransferOwner(s)
  PROVE  TInv'
  <1>1. /\ UNCHANGED <<sessions, resets, fails, unrevoked, redeemed>> /\ End(s)
        /\ task[s].e \in Emails /\ users[task[s].e] # None
    BY DEF TransferOwner, At, TInv, Working, HasAccount
  <1>2. ASSUME NEW e \in Emails
        PROVE  /\ users'[e] \in User \cup {None}
               /\ users'[e] # None <=> users[e] # None
               /\ users[e] # None => /\ users'[e].oauth = users[e].oauth
                                     /\ users'[e].born = users[e].born
    <2>1. users[e] # None =>
            /\ users[e] \in User
            /\ [users[e] EXCEPT !.role = "owner"] \in User
            /\ [users[e] EXCEPT !.role = "admin"] \in User
      <3>1. users[e] # None => users[e] \in User
        BY DEF TInv, TenantsTypeOK, AccountsTypeOK
      <3>2. \A row \in User, r \in Roles : [row EXCEPT !.role = r] \in User
        BY DEF User
      <3>3. "owner" \in Roles /\ "admin" \in Roles
        BY DEF Roles
      <3> QED
        BY <3>1, <3>2, <3>3
    <2>2. users'[e] = IF e = task[s].e THEN [users[e] EXCEPT !.role = "owner"]
                      ELSE IF users[e] # None /\ users[e].role = "owner"
                           THEN [users[e] EXCEPT !.role = "admin"]
                           ELSE users[e]
      BY DEF TransferOwner
    <2>3. users[e] # None =>
            /\ users'[e] \in User
            /\ users'[e].oauth = users[e].oauth
            /\ users'[e].born = users[e].born
      BY <2>1, <2>2 DEF User
    <2>4. users[e] = None => users'[e] = None
      BY <1>1, <2>2
    <2> QED
      BY <2>3, <2>4, NoneIsNoRow
  <1>3. users' \in [Emails -> User \cup {None}]
    BY <1>2 DEF TransferOwner
  <1>4. Grows
    BY <1>1, <1>2 DEF Grows, tenantVars
  <1>5. Rows'
    BY <1>1, <1>2, <1>4, RowsKept DEF TInv, Rows
  <1>6. /\ task' \in [Slots -> Task] /\ begun' \in 0 .. MaxRequests
        /\ \A r \in Slots : Working(r)'
    BY <1>1, <1>4, EndsWorking
  <1> QED
    BY <1>1, <1>3, <1>5, <1>6
    DEF TInv, TenantsTypeOK, AccountsTypeOK, tenantVars

LEMMA BackgroundInv ==
  ASSUME TInv, UNCHANGED tenantVars, Background
  PROVE  TInv'
  <1>1. /\ UNCHANGED <<users, task, unrevoked, redeemed>>
        /\ begun' \in 0 .. MaxRequests
    BY BegunTyped DEF Background, Logout, SessionExpired, RevokeSession,
       AttemptAges, ResetRequest, ResetExpires, TInv, TenantsTypeOK,
       AccountsTypeOK
  <1>2. ASSUME NEW x \in SessionIds, UNCHANGED <<resets, fails>>,
               sessions' = [sessions EXCEPT ![x] = None]
        PROVE  TInv'
    <2>1. /\ sessions' \in [SessionIds -> Session \cup {None}] /\ Grows /\ Rows'
      BY <1>1, <1>2, SessionGoneRows DEF tenantVars
    <2> QED
      BY <1>1, <1>2, <2>1, AllStayWorking
      DEF TInv, TenantsTypeOK, AccountsTypeOK, tenantVars
  <1>3. CASE \E x \in SessionIds : Logout(x) \/ SessionExpired(x)
    BY <1>2, <1>3 DEF Logout, SessionExpired
  <1>4. CASE \E x, y \in SessionIds : RevokeSession(x, y)
    BY <1>2, <1>4 DEF RevokeSession
  <1>5. CASE \E e \in Emails : AttemptAges(e)
    <2>1. fails' \in [Emails -> Nat] /\ UNCHANGED <<resets, sessions>>
      BY <1>5 DEF AttemptAges, TInv, TenantsTypeOK, AccountsTypeOK
    <2>2. Grows /\ Rows'
      BY <1>1, <2>1 DEF Grows, tenantVars, TInv, Rows
    <2> QED
      BY <1>1, <2>1, <2>2, AllStayWorking
      DEF TInv, TenantsTypeOK, AccountsTypeOK, tenantVars
  <1>6. ASSUME NEW t \in ResetTokens, NEW row \in Reset,
               UNCHANGED <<sessions, fails>>,
               resets' = [resets EXCEPT ![t] = row], users[row.e] # None,
               resets[t] # None => row.e = resets[t].e
        PROVE  TInv'
    <2>1. /\ resets' \in [ResetTokens -> Reset \cup {None}] /\ row.e \in Emails
          /\ resets'[t] = row /\ row # None
          /\ \A u \in ResetTokens \ {t} : resets'[u] = resets[u]
      BY <1>6, NoneIsNoRow DEF TInv, TenantsTypeOK, AccountsTypeOK, Reset
    <2>2. Grows
      BY <1>1, <1>6, <2>1 DEF Grows, tenantVars
    <2>3. \A u \in ResetTokens : resets'[u] # None =>
            \/ resets[u] # None
            \/ resets'[u].e \in Emails /\ users[resets'[u].e] # None
      BY <1>6, <2>1
    <2>4. Rows'
      BY <1>1, <1>6, <2>2, <2>3, RowsKept DEF TInv, Rows
    <2> QED
      BY <1>1, <1>6, <2>1, <2>2, <2>4, AllStayWorking
      DEF TInv, TenantsTypeOK, AccountsTypeOK, tenantVars
  <1>7. ASSUME NEW e \in Emails, NEW t \in ResetTokens, ResetRequest(e, t)
        PROVE  TInv'
    <2> DEFINE row == [e |-> e, st |-> "open"]
    <2>1. row \in Reset /\ row.e = e
      BY DEF Reset, TokenState
    <2>2. /\ users[e] # None /\ resets[t] = None
          /\ resets' = [resets EXCEPT ![t] = row] /\ UNCHANGED <<sessions, fails>>
      BY <1>7 DEF ResetRequest
    <2> HIDE DEF row
    <2> QED
      BY <1>6, <2>1, <2>2
  <1>8. ASSUME NEW t \in ResetTokens, ResetExpires(t)
        PROVE  TInv'
    <2> DEFINE row == [resets[t] EXCEPT !.st = "expired"]
    <2>1. resets[t] \in Reset /\ resets[t] # None /\ users[resets[t].e] # None
      BY <1>8 DEF ResetExpires, TInv, TenantsTypeOK, AccountsTypeOK, Rows
    <2>2. row \in Reset /\ row.e = resets[t].e
      BY <2>1 DEF Reset, TokenState
    <2>3. /\ resets' = [resets EXCEPT ![t] = row] /\ UNCHANGED <<sessions, fails>>
      BY <1>8 DEF ResetExpires, TInv, TenantsTypeOK, AccountsTypeOK
    <2> HIDE DEF row
    <2> QED
      BY <1>6, <2>1, <2>2, <2>3
  <1> QED
    BY <1>3, <1>4, <1>5, <1>7, <1>8 DEF Background

----------------------------------------------------------------------------
(* Organizations, invitations and OAuth *)

\* The tables of organizations do not matter to a handler's work.
LEMMA OrgTables ==
  ASSUME TInv, UNCHANGED <<accountRows, mode, invites, vouched>>,
         orgs' \subseteq OrgIds, redeemed' \in [Tokens -> Nat],
         members' \in [OrgIds -> [Emails -> Roles \cup {None}]],
         apps' \in [OrgIds -> 0 .. MaxApps],
         founder' \in [OrgIds -> SUBSET Emails],
         task' \in [Slots -> Task], begun' \in 0 .. MaxRequests,
         \A r \in Slots : Working(r)'
  PROVE  TInv'
  <1>1. Rows'
    BY DEF accountRows, TInv, Rows
  <1> QED
    BY <1>1 DEF TInv, TenantsTypeOK, AccountsTypeOK, accountRows

LEMMA OrgGrows ==
  ASSUME UNCHANGED <<accountRows, invites, vouched>> PROVE Grows
  BY DEF accountRows, Grows

LEMMA MemberWriteInv ==
  ASSUME TInv, NEW s \in Slots, MemberWrite(s)
  PROVE  TInv'
  <1> DEFINE o == task[s].o
             e == task[s].e
             r == IF members[o][e] = None THEN None ELSE task[s].r
  <1>1. /\ UNCHANGED <<accountRows, redeemed, mode, orgs, apps, invites,
                       founder, vouched>>
        /\ End(s) /\ o \in OrgIds /\ e \in Emails
        /\ task[s].r \in Roles \cup {None}
    BY DEF MemberWrite, At, TInv, TenantsTypeOK, AccountsTypeOK, Working,
           HasAccount, Carries, Task
  <1>2. r \in Roles \cup {None}
    BY <1>1
  <1>3. members' = [members EXCEPT ![o] = [members[o] EXCEPT ![e] = r]]
    BY <1>1 DEF MemberWrite, TInv, TenantsTypeOK
  <1> HIDE DEF r
  <1>4. members' \in [OrgIds -> [Emails -> Roles \cup {None}]]
    BY <1>1, <1>2, <1>3 DEF TInv, TenantsTypeOK
  <1>5. /\ task' \in [Slots -> Task] /\ begun' \in 0 .. MaxRequests
        /\ \A q \in Slots : Working(q)'
    BY <1>1, OrgGrows, EndsWorking
  <1> QED
    BY <1>1, <1>4, <1>5, OrgTables DEF TInv, TenantsTypeOK, AccountsTypeOK

LEMMA ConsumeInv ==
  ASSUME TInv, NEW s \in Slots, Consume(s)
  PROVE  TInv'
  <1> DEFINE t == task[s].t
  <1>1. /\ UNCHANGED <<accountRows, redeemed, mode, orgs, members, apps,
                       founder, vouched>>
        /\ task[s].op \in {"accept", "join"} /\ task[s].pc = "consume"
        /\ Working(s)
        /\ task[s].e \in Emails /\ users[task[s].e] # None
        /\ t \in InviteTokens /\ invites[t] \in Invite /\ invites[t] # None
        /\ task[s].o \in OrgIds
    BY InviteRow DEF Consume, TInv, TenantsTypeOK, AccountsTypeOK, Working,
           HasAccount, HasInvite
  <1>2. ASSUME NEW pc \in {"add", "session"}, Goto(s, pc),
               invites' = [invites EXCEPT ![t].st = "used"]
        PROVE  TInv'
    <2> DEFINE row == [invites[t] EXCEPT !.st = "used"]
    <2>1. /\ row \in Invite /\ row.e = invites[t].e /\ row.o = invites[t].o
          /\ row.r = invites[t].r
      BY <1>1 DEF Invite, TokenState
    <2>2. row # None
      BY <2>1, NoneIsNoInvite
    <2>3. invites' = [invites EXCEPT ![t] = row]
      BY <1>1, <1>2 DEF TInv, TenantsTypeOK
    <2> HIDE DEF row
    <2>4. invites' \in [InviteTokens -> Invite \cup {None}]
      BY <1>1, <1>2, <2>1, <2>3 DEF TInv, TenantsTypeOK
    <2>5. /\ invites'[t] = row
          /\ \A u \in InviteTokens \ {t} : invites'[u] = invites[u]
      BY <1>1, <2>3 DEF TInv, TenantsTypeOK
    <2>6. Grows
      BY <1>1, <2>1, <2>2, <2>5 DEF Grows, accountRows
    <2>7. Rows'
      BY <1>1 DEF TInv, Rows, accountRows
    <2>8. /\ task'[s].pc = pc
          /\ task'[s].op = task[s].op /\ task'[s].e = task[s].e
          /\ task'[s].i = task[s].i /\ task'[s].t = task[s].t
          /\ task'[s].o = task[s].o /\ task'[s].r = task[s].r
          /\ begun' \in 0 .. MaxRequests
      BY <1>2, GotoTask
    <2>9. HasAccount(s)'
      BY <1>1, <2>8 DEF HasAccount, accountRows
    <2>10. HasInvite(s)'
      BY <1>1, <2>1, <2>2, <2>5, <2>8 DEF HasInvite, Working
    <2>11. HasReset(s)' /\ Carries(s)'
      BY <1>1, <2>8 DEF Working, HasReset, Carries
    <2> DEFINE new == [task[s] EXCEPT !.pc = pc]
    <2>12. new \in Task /\ task' = [task EXCEPT ![s] = new]
      BY <1>2, GotoTask
    <2> HIDE DEF new
    <2>13. task' \in [Slots -> Task] /\ \A r \in Slots : Working(r)'
      BY <2>6, <2>9, <2>10, <2>11, <2>12, OneWorks DEF Working
    <2> QED
      BY <1>1, <2>4, <2>7, <2>8, <2>13
      DEF TInv, TenantsTypeOK, AccountsTypeOK, accountRows
  <1>3. CASE End(s) /\ UNCHANGED invites
    <2>1. UNCHANGED Rest
      BY <1>1, <1>3 DEF Rest, accountRows
    <2> QED
      BY <1>3, <2>1, OnlyEnd
  <1> QED
    BY <1>2, <1>3 DEF Consume, AfterConsume

LEMMA OAuthLinkInv ==
  ASSUME TInv, NEW s \in Slots, OAuthLink(s)
  PROVE  TInv'
  <1> DEFINE e == task[s].e
             i == task[s].i
             row == [users[e] EXCEPT !.oauth = WithIdentity(users[e].oauth, i)]
  <1>1. /\ UNCHANGED <<sessions, resets, fails, unrevoked, redeemed, tenantVars>>
        /\ task[s].op \in {"oauth", "join"} /\ task[s].pc = "link"
        /\ Working(s) /\ i \in Idents
        /\ e \in Emails /\ users[e] \in User /\ users[e] # None
        /\ users[e].oauth # {}
    BY DEF OAuthLink, TInv, TenantsTypeOK, AccountsTypeOK, Working,
           HasAccount, Carries
  <1>2. row \in User /\ row # None
    <2>1. WithIdentity(users[e].oauth, i) \subseteq Idents
      BY <1>1 DEF User, WithIdentity
    <2>2. row \in User
      BY <1>1, <2>1 DEF User
    <2> QED
      BY <2>2, NoneIsNoRow
  <1>3. row.born = users[e].born /\ row.oauth # {}
    <2>1. row.oauth = WithIdentity(users[e].oauth, i)
      BY <1>1 DEF User
    <2> QED
      BY <1>1, <2>1 DEF User, WithIdentity
  <1>4. UNCHANGED users \/ users' = [users EXCEPT ![e] = row]
    BY <1>1 DEF OAuthLink
  <1> HIDE DEF row
  <1>5. /\ users' \in [Emails -> User \cup {None}]
        /\ users'[e] \in {users[e], row}
        /\ \A f \in Emails \ {e} : users'[f] = users[f]
    <2>1. e \in Emails /\ row \in User /\ users \in [Emails -> User \cup {None}]
      BY <1>1, <1>2 DEF TInv, TenantsTypeOK, AccountsTypeOK
    <2> HIDE DEF e
    <2> QED
      BY <1>4, <2>1
  <1>6. Grows
    BY <1>1, <1>2, <1>3, <1>5 DEF Grows, tenantVars
  <1>7. ASSUME NEW f \in Emails, users'[f] # None
        PROVE  /\ users'[f].oauth # {} => users'[f].born = "oauth"
    <2>1. CASE f = e
      BY <1>1, <1>3, <1>5, <2>1 DEF TInv, Rows
    <2>2. CASE f # e
      BY <1>5, <1>7, <2>2 DEF TInv, Rows
    <2> QED
      BY <2>1, <2>2
  <1>8. Rows'
    BY <1>1, <1>6, <1>7, RowsKept
  <1>9. /\ task' \in [Slots -> Task] /\ begun' \in 0 .. MaxRequests
        /\ \A r \in Slots : Working(r)'
    <2>1. CASE End(s)
      BY <1>6, <2>1, EndsWorking
    <2>2. ASSUME NEW pc \in {"session", "consume"}, Goto(s, pc)
          PROVE  /\ task' \in [Slots -> Task] /\ begun' \in 0 .. MaxRequests
                 /\ \A r \in Slots : Working(r)'
      <3>1. /\ task'[s].pc = pc
            /\ task'[s].op = task[s].op /\ task'[s].e = task[s].e
            /\ task'[s].i = task[s].i /\ task'[s].t = task[s].t
            /\ task'[s].o = task[s].o /\ task'[s].r = task[s].r
            /\ begun' \in 0 .. MaxRequests
        BY <2>2, GotoTask
      <3>2. HasAccount(s)'
        BY <1>1, <1>6, <3>1 DEF HasAccount, Grows
      <3>3. HasInvite(s)' /\ HasReset(s)'
        BY <1>1, <3>1 DEF Working, HasInvite, HasReset, tenantVars
      <3>4. Carries(s)'
        BY <1>1, <3>1 DEF Working, Carries
      <3> DEFINE new == [task[s] EXCEPT !.pc = pc]
      <3>5. new \in Task /\ task' = [task EXCEPT ![s] = new]
        BY <2>2, GotoTask
      <3> HIDE DEF new
      <3> QED
        BY <1>6, <3>1, <3>2, <3>3, <3>4, <3>5, OneWorks DEF Working
    <2> QED
      BY <1>1, <2>1, <2>2 DEF OAuthLink, AfterAccount
  <1> QED
    BY <1>1, <1>5, <1>8, <1>9
    DEF TInv, TenantsTypeOK, AccountsTypeOK, tenantVars

\* A handler moves on with an organization.
LEMMA MovesWithOrg ==
  ASSUME TInv, NEW s \in Slots, NEW o \in OrgIds \cup {None},
         NEW pc \in {"add", "provision", "consume"},
         task' = [task EXCEPT ![s].pc = pc, ![s].o = o]
  PROVE  /\ task' = [task EXCEPT ![s] = task'[s]] /\ task'[s] \in Task
         /\ task'[s].pc = pc /\ task'[s].o = o /\ task'[s].op = task[s].op
         /\ task'[s].e = task[s].e /\ task'[s].i = task[s].i
         /\ task'[s].t = task[s].t /\ task'[s].r = task[s].r
  <1> DEFINE half  == [task[s] EXCEPT !.pc = pc]
             new   == [half EXCEPT !.o = o]
             tasks == [task EXCEPT ![s] = half]
  <1>1. task \in [Slots -> Task] /\ task[s] \in Task
    BY DEF TInv, TenantsTypeOK, AccountsTypeOK
  <1>2. /\ half \in Task /\ half.pc = pc /\ half.op = task[s].op
        /\ half.e = task[s].e /\ half.i = task[s].i /\ half.t = task[s].t
        /\ half.r = task[s].r
    BY <1>1 DEF Task
  <1>3. tasks \in [Slots -> Task] /\ tasks[s] = half
    BY <1>1, <1>2
  <1>4. task' = [tasks EXCEPT ![s] = [tasks[s] EXCEPT !.o = o]]
    OBVIOUS
  <1> HIDE DEF half
  <1>5. /\ new \in Task /\ new.pc = half.pc /\ new.o = o /\ new.op = half.op
        /\ new.e = half.e /\ new.i = half.i /\ new.t = half.t
        /\ new.r = half.r
    BY <1>2 DEF Task
  <1> HIDE DEF new, tasks
  <1>6. task' = [tasks EXCEPT ![s] = new]
    BY <1>3, <1>4 DEF new
  <1>7. task' = [task EXCEPT ![s] = new] /\ task'[s] = new
    BY <1>1, <1>3, <1>6 DEF tasks
  <1> QED
    BY <1>2, <1>5, <1>7

\* A handler keeps its invitation as long as the rows are what they were.
LEMMA KeepsInvite ==
  ASSUME NEW s \in Slots, HasInvite(s), task'[s].pc # "read",
         task'[s].op = task[s].op, task'[s].t = task[s].t,
         task[s].op \in {"accept", "join"} => task'[s].o = task[s].o,
         task'[s].r = task[s].r, task'[s].e = task[s].e,
         UNCHANGED <<invites, vouched>>
  PROVE  HasInvite(s)'
  BY DEF HasInvite

\* A new account, with at most the identity of the callback that makes it.
LEMMA CreatedInv ==
  ASSUME TInv, NEW s \in Slots, Working(s), task[s].pc = "create",
         task[s].op \in {"signup", "oauth", "join", "accept"},
         task[s].e \in Emails, users[task[s].e] = None, task[s].r \in Roles,
         NEW row \in User,
         \/ row.oauth = {}
         \/ row.oauth = {task[s].i} /\ row.born = "oauth",
         users' = [users EXCEPT ![task[s].e] = row],
         NEW pc \in {"add", "provision", "consume"},
         NEW o \in OrgIds \cup {None},
         pc = "add" => task[s].op = "accept" \/ o = DefaultOrg,
         pc = "provision" => task[s].op \in {"signup", "oauth"},
         task[s].op = "signup" \/ o = task[s].o,
         task' = [task EXCEPT ![s].pc = pc, ![s].o = o],
         UNCHANGED <<begun, sessions, resets, fails, unrevoked, redeemed,
                     tenantVars>>
  PROVE  TInv'
  <1> DEFINE k == task[s]
             e == k.e
             new == task'[s]
  <1>1. row # None /\ k \in Task
    BY NoneIsNoRow DEF TInv, TenantsTypeOK, AccountsTypeOK
  <1>2. /\ users' \in [Emails -> User \cup {None}] /\ users'[e] = row
        /\ \A f \in Emails \ {e} : users'[f] = users[f]
    BY DEF TInv, TenantsTypeOK, AccountsTypeOK
  <1>3. Grows
    BY <1>1, <1>2 DEF Grows, tenantVars
  <1>4. ASSUME NEW f \in Emails, users'[f] # None
        PROVE  /\ users'[f].oauth # {} => users'[f].born = "oauth"
    <2>1. CASE f = e
      BY <1>2, <2>1
    <2>2. CASE f # e
      BY <1>2, <1>4, <2>2 DEF TInv, Rows
    <2> QED
      BY <2>1, <2>2
  <1>5. Rows'
    BY <1>3, <1>4, RowsKept
  <1>6. /\ task' = [task EXCEPT ![s] = new] /\ new \in Task
        /\ new.pc = pc /\ new.o = o /\ new.op = k.op
        /\ new.e = k.e /\ new.i = k.i /\ new.t = k.t /\ new.r = k.r
    BY MovesWithOrg
  <1>7. HasAccount(s)'
    BY <1>1, <1>2, <1>6 DEF HasAccount
  <1>8. k.op \in {"accept", "join"} => o = k.o /\ k.o \in OrgIds
    BY InviteRow DEF Working, HasInvite
  <1>9. HasInvite(s)' /\ HasReset(s)'
    <2>1. UNCHANGED <<invites, resets, vouched>>
      BY DEF tenantVars
    <2>2. HasReset(s)'
      BY <1>6, <2>1 DEF HasReset, Working
    <2>3. HasInvite(s) /\ k.pc # "read" /\ new.pc # "read"
      BY <1>6 DEF Working
    <2>4. HasInvite(s)'
      BY <1>6, <1>8, <2>1, <2>3, KeepsInvite
    <2> QED
      BY <2>2, <2>4
  <1>10. Carries(s)'
    BY <1>1, <1>6, <1>8, TenantsAssumption DEF Carries, Working
  <1>11. task' \in [Slots -> Task] /\ \A r \in Slots : Working(r)'
    BY <1>3, <1>6, <1>7, <1>9, <1>10, OneWorks DEF Working
  <1> QED
    BY <1>2, <1>5, <1>11 DEF TInv, TenantsTypeOK, AccountsTypeOK, tenantVars

LEMMA CreateUserInv ==
  ASSUME TInv, NEW s \in Slots, CreateUser(s)
  PROVE  TInv'
  <1> DEFINE k == task[s]
             e == k.e
             row == IF k.i = None THEN Account(k.p, k.r, "password")
                    ELSE [Account(None, k.r, "oauth") EXCEPT !.oauth = {k.i}]
             o == IF k.op = "signup" /\ mode = "single" THEN DefaultOrg ELSE k.o
             pc == AfterCreate(k.op)
  <1>1. /\ UNCHANGED <<sessions, resets, fails, unrevoked, redeemed, tenantVars>>
        /\ k.op \in {"signup", "oauth", "join", "accept"} /\ k.pc = "create"
        /\ Working(s) /\ k \in Task /\ e \in Emails
    BY DEF CreateUser, TInv, TenantsTypeOK, AccountsTypeOK, Working,
           HasAccount, Carries
  <1>2. CASE End(s) /\ UNCHANGED users
    <2>1. UNCHANGED Rest
      BY <1>1, <1>2 DEF Rest, tenantVars
    <2> QED
      BY <1>2, <2>1, OnlyEnd
  <1>3. CASE /\ users[e] = None /\ HolderOf(k.i) = {} /\ UNCHANGED begun
             /\ users' = [users EXCEPT ![e] = row]
             /\ task' = [task EXCEPT ![s].pc = pc, ![s].o = o]
    <2>1. k.r \in Roles
      <3>1. CASE k.op \in {"signup", "oauth"}
        BY <1>1, <3>1 DEF Working, Carries, Roles
      <3>2. CASE k.op \in {"join", "accept"}
        BY <1>1, <3>2, InviteRow DEF Working, HasInvite
      <3> QED
        BY <1>1, <3>1, <3>2
    <2>2. /\ pc \in {"add", "provision", "consume"}
          /\ pc = "add" => k.op = "accept" \/ o = DefaultOrg
          /\ pc = "provision" => k.op \in {"signup", "oauth"}
          /\ o \in OrgIds \cup {None}
          /\ k.op = "signup" \/ o = k.o
      BY <1>1, TenantsAssumption DEF AfterCreate, Task
    <2>3. task' = [task EXCEPT ![s].pc = pc, ![s].o = o]
      BY <1>3
    <2> HIDE DEF pc, o
    <2>4. CASE k.i = None
      <3>1. row = [pw |-> k.p, role |-> k.r, active |-> TRUE, oauth |-> {},
                   born |-> "password"]
        BY <2>4 DEF Account
      <3> HIDE DEF row
      <3>2. row \in User /\ row.oauth = {}
        BY <1>1, <2>1, <3>1 DEF User, Task
      <3> QED
        BY <1>1, <1>3, <2>1, <2>2, <2>3, <3>2, CreatedInv
    <2>5. CASE k.i # None
      <3>1. row = [pw |-> None, role |-> k.r, active |-> TRUE, oauth |-> {k.i},
                   born |-> "oauth"]
        BY <2>5 DEF Account
      <3>2. k.i \in Idents
        BY <1>1, <2>5 DEF Working, Carries
      <3> HIDE DEF row
      <3>3. /\ row \in User /\ row.oauth = {k.i} /\ row.born = "oauth"
        BY <2>1, <3>1, <3>2 DEF User
      <3> QED
        BY <1>1, <1>3, <2>1, <2>2, <2>3, <3>2, <3>3, CreatedInv
    <2> QED
      BY <2>4, <2>5
  <1> QED
    BY <1>2, <1>3 DEF CreateUser

LEMMA CreateOrganizationInv ==
  ASSUME TInv, NEW s \in Slots, CreateOrganization(s)
  PROVE  TInv'
  <1>1. PICK o \in OrgIds \ {DefaultOrg} :
          /\ orgs' = orgs \cup {o}
          /\ task' = [task EXCEPT ![s].pc = "add", ![s].o = o]
    BY DEF CreateOrganization
  <1>2. /\ UNCHANGED <<accountRows, begun, redeemed, mode, members, apps,
                       invites, founder, vouched>>
        /\ task[s].pc = "provision" /\ Working(s) /\ task[s] \in Task
        /\ task[s].e \in Emails /\ users[task[s].e] # None
    BY DEF CreateOrganization, TInv, TenantsTypeOK, AccountsTypeOK, Working,
           HasAccount
  <1>4. task[s].op \in {"signup", "oauth", "org"}
    BY <1>2 DEF Working, Carries
  <1> DEFINE new == task'[s]
  <1>3. /\ new \in Task /\ new.pc = "add" /\ new.o = o
        /\ new.op = task[s].op /\ new.e = task[s].e /\ new.i = task[s].i
        /\ new.t = task[s].t /\ new.r = task[s].r
        /\ task' = [task EXCEPT ![s] = new]
    BY <1>1, MovesWithOrg
  <1>5. HasAccount(s)' /\ HasInvite(s)' /\ HasReset(s)'
    BY <1>2, <1>3, <1>4 DEF HasAccount, HasInvite, HasReset, Working, accountRows
  <1>6. Carries(s)'
    BY <1>1, <1>2, <1>3, <1>4 DEF Carries, Working
  <1>7. task' \in [Slots -> Task] /\ \A r \in Slots : Working(r)'
    <2>1. Grows
      BY <1>2, OrgGrows
    <2> QED
      BY <1>3, <1>5, <1>6, <2>1, OneWorks DEF Working
  <1> QED
    BY <1>1, <1>2, <1>7, OrgTables DEF TInv, TenantsTypeOK, AccountsTypeOK

LEMMA AddMemberInv ==
  ASSUME TInv, NEW s \in Slots, AddMember(s)
  PROVE  TInv'
  <1> DEFINE k == task[s]
             o == k.o
             e == k.e
  <1>1. /\ UNCHANGED <<accountRows, mode, orgs, apps, invites, vouched>>
        /\ k.pc = "add" /\ Working(s) /\ k \in Task
        /\ k.op \in {"signup", "oauth", "join", "accept", "org"}
        /\ o \in OrgIds /\ e \in Emails /\ users[e] # None
    BY DEF AddMember, TInv, TenantsTypeOK, AccountsTypeOK, Working,
           HasAccount, Carries
  <1>2. k.r \in Roles
    <2>1. CASE k.op \in {"signup", "oauth", "org"}
      BY <1>1, <2>1 DEF Working, Carries, Roles
    <2>2. CASE k.op \in {"join", "accept"}
      BY <1>1, <2>2, InviteRow DEF Working, HasInvite
    <2> QED
      BY <1>1, <2>1, <2>2
  <1>3. /\ members' \in [OrgIds -> [Emails -> Roles \cup {None}]]
        /\ founder' \in [OrgIds -> SUBSET Emails]
    <2>1. CASE UNCHANGED <<members, founder>>
      BY <2>1 DEF TInv, TenantsTypeOK
    <2>2. CASE /\ members' = [members EXCEPT ![o][e] = k.r]
               /\ founder' = IF k.op \in {"signup", "oauth", "org"}
                             THEN [founder EXCEPT ![o] = @ \cup {e}] ELSE founder
      <3>1. members' = [members EXCEPT ![o] = [members[o] EXCEPT ![e] = k.r]]
        BY <1>1, <2>2 DEF TInv, TenantsTypeOK
      <3>2. members' \in [OrgIds -> [Emails -> Roles \cup {None}]]
        BY <1>1, <1>2, <3>1 DEF TInv, TenantsTypeOK
      <3>3. founder' \in [OrgIds -> SUBSET Emails]
        BY <1>1, <2>2 DEF TInv, TenantsTypeOK
      <3> QED
        BY <3>2, <3>3
    <2> QED
      BY <2>1, <2>2 DEF AddMember
  <1>6. redeemed' \in [Tokens -> Nat]
    <2>1. /\ redeemed \in [Tokens -> Nat]
          /\ \/ UNCHANGED redeemed
             \/ redeemed' = [redeemed EXCEPT ![k.t] = redeemed[k.t] + 1]
      BY DEF AddMember, TInv, TenantsTypeOK, AccountsTypeOK
    <2> QED
      BY <2>1
  <1>4. Grows
    BY <1>1, OrgGrows
  <1>5. /\ task' \in [Slots -> Task] /\ begun' \in 0 .. MaxRequests
        /\ \A r \in Slots : Working(r)'
    <2>1. CASE End(s)
      BY <1>4, <2>1, EndsWorking
    <2>2. ASSUME NEW pc \in {"consume", "session", "app"}, Goto(s, pc),
                 pc = "app" => k.op \in {"signup", "oauth", "org"}
          PROVE  /\ task' \in [Slots -> Task] /\ begun' \in 0 .. MaxRequests
                 /\ \A r \in Slots : Working(r)'
      <3>1. /\ task'[s].pc = pc
            /\ task'[s].op = k.op /\ task'[s].e = k.e
            /\ task'[s].i = k.i /\ task'[s].t = k.t
            /\ task'[s].o = k.o /\ task'[s].r = k.r
            /\ begun' \in 0 .. MaxRequests
        BY <2>2, GotoTask
      <3>2. HasAccount(s)' /\ HasReset(s)'
        BY <1>1, <3>1 DEF HasAccount, HasReset, accountRows
      <3>3. HasInvite(s)'
        BY <1>1, <3>1 DEF Working, HasInvite
      <3>4. Carries(s)'
        BY <1>1, <1>2, <2>2, <3>1 DEF Working, Carries
      <3> DEFINE new == [k EXCEPT !.pc = pc]
      <3>5. new \in Task /\ task' = [task EXCEPT ![s] = new]
        BY <2>2, GotoTask
      <3> HIDE DEF new
      <3> QED
        BY <1>4, <3>1, <3>2, <3>3, <3>4, <3>5, OneWorks DEF Working
    <2> QED
      BY <1>1, <2>1, <2>2 DEF AddMember, AfterAdd
  <1> QED
    BY <1>1, <1>3, <1>5, <1>6, OrgTables DEF TInv, TenantsTypeOK, AccountsTypeOK

LEMMA CreateDefaultAppInv ==
  ASSUME TInv, NEW s \in Slots, CreateDefaultApp(s)
  PROVE  TInv'
  <1>1. /\ UNCHANGED <<accountRows, redeemed, mode, orgs, members, invites,
                       founder, vouched>>
        /\ task[s].pc = "app" /\ Working(s)
        /\ task[s].o \in OrgIds /\ task[s].e \in Emails /\ users[task[s].e] # None
    BY DEF CreateDefaultApp, TInv, TenantsTypeOK, AccountsTypeOK, Working,
           HasAccount, Carries
  <1>2. apps' \in [OrgIds -> 0 .. MaxApps]
    BY <1>1, TenantsAssumption DEF CreateDefaultApp, TInv, TenantsTypeOK
  <1>3. Grows
    BY <1>1, OrgGrows
  <1>4. CASE End(s)
    <2>1. /\ task' \in [Slots -> Task] /\ begun' \in 0 .. MaxRequests
          /\ \A r \in Slots : Working(r)'
      BY <1>3, <1>4, EndsWorking
    <2> QED
      BY <1>1, <1>2, <2>1, OrgTables DEF TInv, TenantsTypeOK, AccountsTypeOK
  <1>5. CASE Goto(s, "session")
    <2>1. /\ task'[s].pc = "session"
          /\ task'[s].op = task[s].op /\ task'[s].e = task[s].e
          /\ task'[s].i = task[s].i /\ task'[s].t = task[s].t
          /\ task'[s].o = task[s].o /\ task'[s].r = task[s].r
          /\ begun' \in 0 .. MaxRequests
      BY <1>5, GotoTask
    <2>2. HasAccount(s)' /\ HasReset(s)'
      BY <1>1, <2>1 DEF HasAccount, HasReset, Working, accountRows
    <2>3. HasInvite(s)' /\ Carries(s)'
      BY <1>1, <2>1 DEF Working, HasInvite, Carries
    <2> DEFINE new == [task[s] EXCEPT !.pc = "session"]
    <2>4. new \in Task /\ task' = [task EXCEPT ![s] = new]
      BY <1>5, GotoTask
    <2> HIDE DEF new
    <2>5. task' \in [Slots -> Task] /\ \A r \in Slots : Working(r)'
      BY <1>3, <2>2, <2>3, <2>4, OneWorks DEF Working
    <2> QED
      BY <1>1, <1>2, <2>1, <2>5, OrgTables DEF TInv, TenantsTypeOK, AccountsTypeOK
  <1> QED
    BY <1>4, <1>5 DEF CreateDefaultApp

----------------------------------------------------------------------------
(* Requests of one statement *)

\* They leave the accounts and the handlers alone, and no invitation's terms.
LEMMA OneStatement ==
  ASSUME TInv, UNCHANGED <<accountRows, task, redeemed, mode, vouched>>,
         begun' \in 0 .. MaxRequests,
         orgs' \subseteq OrgIds,
         members' \in [OrgIds -> [Emails -> Roles \cup {None}]],
         apps' \in [OrgIds -> 0 .. MaxApps],
         founder' \in [OrgIds -> SUBSET Emails],
         invites' \in [InviteTokens -> Invite \cup {None}],
         \A t \in InviteTokens : invites[t] # None =>
           /\ invites'[t] # None
           /\ invites'[t].o = invites[t].o /\ invites'[t].r = invites[t].r
           /\ invites'[t].e = invites[t].e
  PROVE  TInv'
  <1>1. Grows
    BY DEF Grows, accountRows
  <1>2. \A r \in Slots : Working(r)'
    BY <1>1, StaysWorking DEF accountRows
  <1>3. Rows'
    BY DEF TInv, Rows, accountRows
  <1>4. AccountsTypeOK'
    BY DEF TInv, TenantsTypeOK, AccountsTypeOK, accountRows
  <1> QED
    BY <1>2, <1>3, <1>4 DEF TInv, TenantsTypeOK

LEMMA DeleteOrgInv ==
  ASSUME TInv, NEW o \in OrgIds, DeleteOrg(o)
  PROVE  TInv'
  <1>1. begun' \in 0 .. MaxRequests
    BY BegunTyped DEF DeleteOrg
  <1>2. ASSUME NEW t \in InviteTokens
        PROVE  /\ invites'[t] \in Invite \cup {None}
               /\ invites[t] # None =>
                    /\ invites'[t] # None
                    /\ invites'[t].o = invites[t].o
                    /\ invites'[t].r = invites[t].r
                    /\ invites'[t].e = invites[t].e
    <2>1. invites'[t] = IF invites[t] # None /\ invites[t].o = o
                        THEN [invites[t] EXCEPT !.st = "gone"] ELSE invites[t]
      BY DEF DeleteOrg
    <2>2. CASE invites[t] # None /\ invites[t].o = o
      <3>1. invites[t] \in Invite
        BY <2>2 DEF TInv, TenantsTypeOK
      <3>2. [invites[t] EXCEPT !.st = "gone"] \in Invite
        BY <3>1 DEF Invite, TokenState
      <3> QED
        BY <2>1, <2>2, <3>1, <3>2, NoneIsNoInvite DEF Invite
    <2>3. CASE ~(invites[t] # None /\ invites[t].o = o)
      BY <2>1, <2>3 DEF TInv, TenantsTypeOK
    <2> QED
      BY <2>2, <2>3
  <1>3. invites' \in [InviteTokens -> Invite \cup {None}]
    BY <1>2 DEF DeleteOrg
  <1>4. /\ NoMembers \in [Emails -> Roles \cup {None}]
        /\ members' \in [OrgIds -> [Emails -> Roles \cup {None}]]
    BY DEF NoMembers, DeleteOrg, TInv, TenantsTypeOK
  <1>5. /\ apps' \in [OrgIds -> 0 .. MaxApps]
        /\ orgs' \subseteq OrgIds /\ founder' \in [OrgIds -> SUBSET Emails]
        /\ UNCHANGED <<accountRows, task, redeemed, mode, vouched>>
    BY TenantsAssumption DEF DeleteOrg, TInv, TenantsTypeOK
  <1> QED
    BY <1>1, <1>2, <1>3, <1>4, <1>5, OneStatement

LEMMA AppsInv ==
  ASSUME TInv, NEW o \in OrgIds, CreateApp(o) \/ DeleteApp(o)
  PROVE  TInv'
  <1>1. begun' \in 0 .. MaxRequests
    BY BegunTyped DEF CreateApp, DeleteApp
  <1>2. apps' \in [OrgIds -> 0 .. MaxApps]
    BY TenantsAssumption DEF CreateApp, DeleteApp, TInv, TenantsTypeOK
  <1>3. UNCHANGED <<accountRows, task, redeemed, mode, orgs, members, invites,
                     founder, vouched>>
    BY DEF CreateApp, DeleteApp
  <1> QED
    BY <1>1, <1>2, <1>3, OneStatement DEF TInv, TenantsTypeOK

LEMMA TransferOrgOwnerInv ==
  ASSUME TInv, NEW o \in OrgIds, NEW e \in Emails, TransferOrgOwner(o, e)
  PROVE  TInv'
  <1> DEFINE after == [u \in Emails |->
               IF u = e THEN "owner"
               ELSE IF members[o][u] = "owner" THEN "admin" ELSE members[o][u]]
  <1>1. begun' \in 0 .. MaxRequests
    BY BegunTyped DEF TransferOrgOwner
  <1>2. after \in [Emails -> Roles \cup {None}]
    BY DEF TInv, TenantsTypeOK, Roles
  <1>3. members' = [members EXCEPT ![o] = after]
    BY DEF TransferOrgOwner
  <1> HIDE DEF after
  <1>4. members' \in [OrgIds -> [Emails -> Roles \cup {None}]]
    BY <1>2, <1>3 DEF TInv, TenantsTypeOK
  <1>5. UNCHANGED <<accountRows, task, redeemed, mode, orgs, apps, invites,
                     founder, vouched>>
    BY DEF TransferOrgOwner
  <1> QED
    BY <1>1, <1>4, <1>5, OneStatement DEF TInv, TenantsTypeOK

LEMMA InviteMemberInv ==
  ASSUME TInv, NEW t \in InviteTokens, NEW o \in OrgIds, NEW e \in Emails,
         NEW r \in Roles, InviteMember(t, o, e, r)
  PROVE  TInv'
  <1>1. begun' \in 0 .. MaxRequests
    BY BegunTyped DEF InviteMember
  <1>2. [e |-> e, o |-> o, r |-> r, st |-> "open"] \in Invite
    BY DEF InviteMember, Invitable, Roles, Invite, TokenState
  <1>3. /\ invites' \in [InviteTokens -> Invite \cup {None}]
        /\ \A t2 \in InviteTokens : invites[t2] # None => invites'[t2] = invites[t2]
    BY <1>2 DEF InviteMember, TInv, TenantsTypeOK
  <1>4. UNCHANGED <<accountRows, task, redeemed, mode, orgs, members, apps,
                     founder, vouched>>
    BY DEF InviteMember
  <1> QED
    BY <1>1, <1>3, <1>4, OneStatement DEF TInv, TenantsTypeOK

LEMMA InviteExpiresInv ==
  ASSUME TInv, NEW t \in InviteTokens, InviteExpires(t)
  PROVE  TInv'
  <1> DEFINE row == [invites[t] EXCEPT !.st = "expired"]
  <1>1. invites[t] \in Invite /\ invites' = [invites EXCEPT ![t] = row]
    BY DEF InviteExpires, TInv, TenantsTypeOK
  <1>2. /\ row \in Invite /\ row.o = invites[t].o /\ row.r = invites[t].r
        /\ row.e = invites[t].e
    BY <1>1 DEF Invite, TokenState
  <1> HIDE DEF row
  <1>3. /\ invites' \in [InviteTokens -> Invite \cup {None}]
        /\ invites'[t] = row
        /\ \A t2 \in InviteTokens \ {t} : invites'[t2] = invites[t2]
    BY <1>1, <1>2 DEF TInv, TenantsTypeOK
  <1>4. \A t2 \in InviteTokens : invites[t2] # None =>
           /\ invites'[t2] # None
           /\ invites'[t2].o = invites[t2].o /\ invites'[t2].r = invites[t2].r
           /\ invites'[t2].e = invites[t2].e
    BY <1>2, <1>3, NoneIsNoInvite
  <1>5. /\ UNCHANGED <<accountRows, task, redeemed, mode, orgs, members, apps,
                     founder, vouched>>
        /\ UNCHANGED begun
    BY DEF InviteExpires, accountVars, accountRows
  <1> QED
    BY <1>3, <1>4, <1>5, OneStatement DEF TInv, TenantsTypeOK, AccountsTypeOK

----------------------------------------------------------------------------
(* The invariant *)

LEMMA TInit == Init => TInv
  <1> SUFFICES ASSUME Init PROVE TInv
    OBVIOUS
  <1>1. PICK known \in SUBSET Emails, boss \in Emails, home \in OrgIds,
             p \in Passwords :
          /\ known # {} => boss \in known
          /\ home = DefaultOrg <=> mode = "single" \/ known = {}
          /\ users = [e \in Emails |->
               IF e \notin known THEN None
               ELSE Account(p, IF mode = "hosted" \/ e = boss
                               THEN "owner" ELSE "member", "password")]
          /\ orgs = {DefaultOrg, home}
          /\ members = [o \in OrgIds |-> [e \in Emails |->
               IF o = home /\ e = boss /\ e \in known THEN "owner" ELSE None]]
          /\ founder = [o \in OrgIds |->
               IF o = home /\ known # {} THEN {boss} ELSE {}]
          /\ \E in \in {{}} \cup {{x} : x \in SessionIds} :
               sessions = [x \in SessionIds |->
                 IF x \in in /\ known # {}
                 THEN [e |-> boss, pw |-> p, late |-> FALSE] ELSE None]
    BY DEF Init
  <1>2. ASSUME NEW e \in Emails
        PROVE  /\ users[e] \in User \cup {None}
               /\ users[e] = None <=> e \notin known
               /\ users[e] # None => users[e].oauth = {}
    <2>1. \A r \in Roles : /\ Account(p, r, "password") \in User
                           /\ Account(p, r, "password").oauth = {}
      BY DEF Account, User
    <2> QED
      BY <1>1, <2>1, NoneIsNoRow DEF Roles
  <1>3. users \in [Emails -> User \cup {None}]
    BY <1>1, <1>2
  <1>4. ASSUME NEW x \in SessionIds
        PROVE  /\ sessions[x] \in Session \cup {None}
               /\ sessions[x] # None => sessions[x].e = boss /\ known # {}
    <2>1. [e |-> boss, pw |-> p, late |-> FALSE] \in Session
      BY DEF Session
    <2> QED
      BY <1>1, <2>1
  <1>5. sessions \in [SessionIds -> Session \cup {None}]
    BY <1>1, <1>4
  <1>6. AccountsTypeOK
    <2>1. 0 \in Nat /\ 0 \in 0 .. MaxRequests
      BY AccountsAssumption
    <2>2. /\ fails \in [Emails -> Nat] /\ begun \in 0 .. MaxRequests
          /\ redeemed \in [Tokens -> Nat]
      BY <2>1 DEF Init
    <2>3. /\ resets \in [ResetTokens -> Reset \cup {None}]
          /\ task \in [Slots -> Task] /\ unrevoked \in [Emails -> BOOLEAN]
      BY IdleTask DEF Init
    <2> QED
      BY <1>3, <1>5, <2>2, <2>3 DEF AccountsTypeOK
  <1>7. TenantsTypeOK
    <2>1. members \in [OrgIds -> [Emails -> Roles \cup {None}]]
      BY <1>1 DEF Roles
    <2>2. apps \in [OrgIds -> 0 .. MaxApps]
      BY TenantsAssumption DEF Init
    <2>3. founder \in [OrgIds -> SUBSET Emails] /\ orgs \subseteq OrgIds
      BY <1>1, TenantsAssumption
    <2> QED
      BY <1>6, <2>1, <2>2, <2>3 DEF Init, TenantsTypeOK
  <1>8. Rows
    BY <1>1, <1>2, <1>4 DEF Rows, Init
  <1>9. \A s \in Slots : Working(s)
    BY DEF Init, Working, HasAccount, HasInvite, HasReset, Carries, Idle
  <1> QED
    BY <1>7, <1>8, <1>9 DEF TInv

LEMMA AccountStepInv ==
  ASSUME TInv, NEW s \in Slots, AccountStep(s), UNCHANGED tenantVars
  PROVE  TInv'
  <1>1. CASE \/ \E e \in Emails, p \in Passwords : LoginStart(s, e, p)
             \/ \E x \in SessionIds, p \in Passwords : PasswordStart(s, x, p)
             \/ \E t \in ResetTokens, p \in Passwords : ResetStart(s, t, p)
    BY <1>1, LoginStartInv, PasswordStartInv, ResetStartInv
  <1>2. CASE \/ \E e \in Emails, r \in Roles \cup {None},
                   a \in {"keep", "on", "off"} : PatchUser(s, e, r, a)
             \/ \E e \in Emails : DeleteUser(s, e)
             \/ \E e \in Emails : TransferStart(s, e)
    BY <1>2, PatchUserInv, DeleteUserInv, TransferStartInv
  <1>3. CASE Abort(s) \/ LoginRead(s) \/ LoginFail(s) \/ LoginSession(s)
    BY <1>3, AbortInv, LoginReadInv, LoginFailInv, NewSessionInv
  <1>4. CASE \/ PasswordUpdate(s) \/ ResetUpdate(s)
             \/ PasswordRevoke(s) \/ ResetRevoke(s) \/ ResetConsume(s)
    BY <1>4, SetPasswordInv, RevokeInv, ResetConsumeInv
  <1>5. CASE UpdateUser(s) \/ TransferOwner(s)
    BY <1>5, UpdateUserInv, TransferOwnerInv
  <1> QED
    BY <1>1, <1>2, <1>3, <1>4, <1>5 DEF AccountStep

LEMMA HandlersInv ==
  ASSUME TInv, NEW s \in Slots, Handlers(s)
  PROVE  TInv'
  <1>1. CASE \/ \E x \in SessionIds : CreateOrg(s, x)
             \/ \E o \in OrgIds, e \in Emails :
                  \/ \E r \in Roles : PatchMember(s, o, e, r)
                  \/ RemoveMember(s, o, e)
    BY <1>1, CreateOrgInv, PatchMemberInv, RemoveMemberInv
  <1>2. CASE \/ \E t \in InviteTokens, p \in Passwords : AcceptStart(s, t, p)
             \/ \E e \in Emails, p \in Passwords : SignupStart(s, e, p)
             \/ \E i \in Idents, e \in Emails :
                  \/ OAuthStart(s, i, e)
                  \/ \E t \in InviteTokens : OAuthJoinStart(s, i, e, t)
    BY <1>2, AcceptStartInv, SignupStartInv, OAuthStartInv, OAuthJoinStartInv
  <1>3. CASE MemberWrite(s) \/ AcceptRead(s) \/ Consume(s)
    BY <1>3, MemberWriteInv, AcceptReadInv, ConsumeInv
  <1>4. CASE OAuthFound(s) \/ OAuthByEmail(s) \/ OAuthLink(s)
    BY <1>4, OAuthFoundInv, OAuthByEmailInv, OAuthLinkInv
  <1>5. CASE CreateUser(s) \/ CreateOrganization(s) \/ AddMember(s)
    BY <1>5, CreateUserInv, CreateOrganizationInv, AddMemberInv
  <1>6. CASE CreateDefaultApp(s)
    BY <1>6, CreateDefaultAppInv
  <1>7. CASE FinishLogin(s)
    BY <1>7, NewSessionInv DEF FinishLogin
  <1> QED
    BY <1>1, <1>2, <1>3, <1>4, <1>5, <1>6, <1>7 DEF Handlers

LEMMA ManagementInv ==
  ASSUME TInv, Management
  PROVE  TInv'
  <1>1. CASE \E o \in OrgIds : DeleteOrg(o) \/ CreateApp(o) \/ DeleteApp(o)
    BY <1>1, DeleteOrgInv, AppsInv
  <1>2. CASE \E o \in OrgIds, e \in Emails : TransferOrgOwner(o, e)
    BY <1>2, TransferOrgOwnerInv
  <1>3. CASE \E t \in InviteTokens :
               \/ \E o \in OrgIds, e \in Emails, r \in Roles :
                    InviteMember(t, o, e, r)
               \/ InviteExpires(t)
    BY <1>3, InviteMemberInv, InviteExpiresInv
  <1> QED
    BY <1>1, <1>2, <1>3 DEF Management

LEMMA TStep == TInv /\ [Next]_vars => TInv'
  <1> SUFFICES ASSUME TInv, [Next]_vars PROVE TInv'
    OBVIOUS
  <1>1. CASE AccountsNext /\ UNCHANGED tenantVars
    BY <1>1, AccountStepInv, BackgroundInv DEF AccountsNext
  <1>2. CASE \E s \in Slots : Handlers(s)
    BY <1>2, HandlersInv
  <1>3. CASE Management
    BY <1>3, ManagementInv
  <1>4. CASE UNCHANGED vars
    <2>1. UNCHANGED Rest /\ UNCHANGED <<task, begun>>
      BY <1>4 DEF vars, Rest
    <2>2. \A r \in Slots : Working(r)'
      BY <2>1, RestGrows, StaysWorking
    <2> QED
      BY <2>1, <2>2, RestStays DEF TInv, TenantsTypeOK, AccountsTypeOK
  <1> QED
    BY <1>1, <1>2, <1>3, <1>4 DEF Next

LEMMA TInvariant == Spec => []TInv
  BY TInit, TStep, PTL DEF Spec

\* Every table and every handler keeps its type, whatever handlers run and
\* wherever they give up.
THEOREM TenantsTypeCorrect == Spec => []TenantsTypeOK
  <1>1. TInv => TenantsTypeOK
    BY DEF TInv
  <1> QED
    BY <1>1, TInvariant, PTL

\* An OAuth identity is only ever on an account that a provider vouched for
\* when it was made: the account that resolve_or_create_user found linkable
\* is still that account when link_oauth writes, whatever ran in between.
THEOREM LinksVerified == Spec => []VerifiedLink
  <1>1. TInv => VerifiedLink
    BY DEF TInv, Rows, VerifiedLink, Known
  <1> QED
    BY <1>1, TInvariant, PTL

----------------------------------------------------------------------------
(* The steps that touch a token *)

TokenRows == <<resets, invites, redeemed>>

LEMMA AccountTokens ==
  ASSUME NEW s \in Slots, AccountStep(s), UNCHANGED tenantVars
  PROVE  UNCHANGED TokenRows \/ ResetConsume(s) \/ ResetUpdate(s)
  <1>1. CASE \/ \E e \in Emails, p \in Passwords : LoginStart(s, e, p)
             \/ \E x \in SessionIds, p \in Passwords : PasswordStart(s, x, p)
             \/ \E t \in ResetTokens, p \in Passwords : ResetStart(s, t, p)
    BY <1>1 DEF LoginStart, PasswordStart, ResetStart, TokenRows, tenantVars
  <1>2. CASE \/ \E e \in Emails, r \in Roles \cup {None},
                   a \in {"keep", "on", "off"} : PatchUser(s, e, r, a)
             \/ \E e \in Emails : DeleteUser(s, e)
             \/ \E e \in Emails : TransferStart(s, e)
    BY <1>2 DEF PatchUser, DeleteUser, TransferStart, TokenRows, tenantVars
  <1>3. CASE Abort(s) \/ LoginRead(s) \/ LoginFail(s) \/ LoginSession(s)
    BY <1>3 DEF Abort, LoginRead, LoginFail, LoginSession, TokenRows, tenantVars
  <1>4. CASE PasswordUpdate(s) \/ PasswordRevoke(s) \/ ResetRevoke(s)
    BY <1>4 DEF PasswordUpdate, PasswordRevoke, ResetRevoke, TokenRows,
                tenantVars
  <1>5. CASE UpdateUser(s) \/ TransferOwner(s)
    BY <1>5 DEF UpdateUser, TransferOwner, TokenRows, tenantVars
  <1> QED
    BY <1>1, <1>2, <1>3, <1>4, <1>5 DEF AccountStep

LEMMA HandlerTokens ==
  ASSUME NEW s \in Slots, Handlers(s)
  PROVE  UNCHANGED TokenRows \/ Consume(s) \/ AddMember(s)
  <1>1. CASE \/ \E x \in SessionIds : CreateOrg(s, x)
             \/ \E o \in OrgIds, e \in Emails :
                  \/ \E r \in Roles : PatchMember(s, o, e, r)
                  \/ RemoveMember(s, o, e)
    BY <1>1 DEF CreateOrg, PatchMember, RemoveMember, TokenRows, tenantVars,
                accountRows
  <1>2. CASE \/ \E t \in InviteTokens, p \in Passwords : AcceptStart(s, t, p)
             \/ \E e \in Emails, p \in Passwords : SignupStart(s, e, p)
             \/ \E i \in Idents, e \in Emails :
                  \/ OAuthStart(s, i, e)
                  \/ \E t \in InviteTokens : OAuthJoinStart(s, i, e, t)
    BY <1>2 DEF AcceptStart, SignupStart, OAuthStart, OAuthJoinStart, TokenRows,
                tenantVars, accountRows
  <1>3. CASE MemberWrite(s) \/ AcceptRead(s)
    BY <1>3 DEF MemberWrite, AcceptRead, TokenRows, tenantVars, accountRows
  <1>4. CASE OAuthFound(s) \/ OAuthByEmail(s) \/ OAuthLink(s)
    BY <1>4 DEF OAuthFound, OAuthByEmail, OAuthLink, TokenRows, tenantVars,
                accountRows
  <1>5. CASE CreateUser(s) \/ CreateOrganization(s)
    BY <1>5 DEF CreateUser, CreateOrganization, TokenRows, tenantVars,
                accountRows
  <1>6. CASE CreateDefaultApp(s) \/ FinishLogin(s)
    BY <1>6 DEF CreateDefaultApp, FinishLogin, TokenRows, tenantVars, accountRows
  <1> QED
    BY <1>1, <1>2, <1>3, <1>4, <1>5, <1>6 DEF Handlers

LEMMA TokenSteps ==
  ASSUME [Next]_vars
  PROVE  \/ UNCHANGED TokenRows
         \/ UNCHANGED tenantVars
              /\ \E s \in Slots : ResetConsume(s) \/ ResetUpdate(s)
         \/ UNCHANGED tenantVars
              /\ \E e \in Emails, t \in ResetTokens : ResetRequest(e, t)
         \/ UNCHANGED tenantVars /\ \E t \in ResetTokens : ResetExpires(t)
         \/ \E s \in Slots : Consume(s) \/ AddMember(s)
         \/ \E o \in OrgIds : DeleteOrg(o)
         \/ \E t \in InviteTokens, o \in OrgIds, e \in Emails, r \in Roles :
              InviteMember(t, o, e, r)
         \/ \E t \in InviteTokens : InviteExpires(t)
  <1>1. CASE Background /\ UNCHANGED tenantVars
    BY <1>1 DEF Background, Logout, SessionExpired, RevokeSession, AttemptAges,
                TokenRows, tenantVars
  <1>2. CASE \E s \in Slots : AccountStep(s) /\ UNCHANGED tenantVars
    BY <1>2, AccountTokens
  <1>3. CASE \E s \in Slots : Handlers(s)
    BY <1>3, HandlerTokens
  <1>4. CASE Management
    BY <1>4 DEF Management, CreateApp, DeleteApp, TransferOrgOwner, TokenRows,
                accountRows
  <1>5. CASE UNCHANGED vars
    BY <1>5 DEF vars, TokenRows
  <1> QED
    BY <1>1, <1>2, <1>3, <1>4, <1>5 DEF Next, AccountsNext

----------------------------------------------------------------------------
(* How the handlers move *)

Others(s) == \A r \in Slots \ {s} : task'[r] = task[r]

LEMMA EndMoves ==
  ASSUME TInv, NEW s \in Slots, End(s)
  PROVE  Others(s) /\ task'[s] = Idle
  BY DEF TInv, TenantsTypeOK, AccountsTypeOK, End, Others

LEMMA GotoMoves ==
  ASSUME TInv, NEW s \in Slots,
         NEW pc \in {"read", "fail", "session", "update", "consume", "revoke",
                     "write", "create", "provision", "add", "app", "link"},
         Goto(s, pc)
  PROVE  /\ Others(s) /\ task'[s].pc = pc
         /\ task'[s].op = task[s].op /\ task'[s].t = task[s].t
         /\ task'[s].e = task[s].e /\ task'[s].o = task[s].o
  <1>1. Others(s)
    BY DEF TInv, TenantsTypeOK, AccountsTypeOK, Goto, Others
  <1> QED
    BY <1>1, GotoTask

\* The handlers of accounts: what they begin is a request of their own.
AccountOps == {"login", "password", "reset", "user", "transfer"}

LEMMA AccountMoves ==
  ASSUME TInv, NEW s \in Slots, AccountStep(s)
  PROVE  /\ Others(s)
         /\ \/ task'[s] = Idle
            \/ task'[s].op \in AccountOps
         /\ task'[s].op = "reset" =>
              \/ ResetUpdate(s) \/ ResetConsume(s)
              \/ \E t \in ResetTokens, p \in Passwords : ResetStart(s, t, p)
  <1>1. ASSUME NEW e \in Emails, NEW p \in Passwords, LoginStart(s, e, p)
        PROVE  Others(s) /\ task'[s].op \in AccountOps \ {"reset"}
    BY <1>1 DEF LoginStart, Begin, Others, TInv, TenantsTypeOK,
                AccountsTypeOK, Idle, AccountOps
  <1>2. ASSUME NEW x \in SessionIds, NEW p \in Passwords, PasswordStart(s, x, p)
        PROVE  Others(s) /\ task'[s].op \in AccountOps \ {"reset"}
    BY <1>2 DEF PasswordStart, Begin, Others, TInv, TenantsTypeOK,
                AccountsTypeOK, Idle, AccountOps
  <1>3. ASSUME NEW t \in ResetTokens, NEW p \in Passwords, ResetStart(s, t, p)
        PROVE  Others(s) /\ task'[s].op \in AccountOps
    BY <1>3 DEF ResetStart, Begin, Others, TInv, TenantsTypeOK,
                AccountsTypeOK, Idle, AccountOps
  <1>4. ASSUME NEW e \in Emails, NEW r \in Roles \cup {None},
               NEW a \in {"keep", "on", "off"}, PatchUser(s, e, r, a)
        PROVE  Others(s) /\ task'[s].op \in AccountOps \ {"reset"}
    BY <1>4 DEF PatchUser, Begin, Others, TInv, TenantsTypeOK,
                AccountsTypeOK, WriteUser, Idle, AccountOps
  <1>5. ASSUME NEW e \in Emails, DeleteUser(s, e)
        PROVE  Others(s) /\ task'[s].op \in AccountOps \ {"reset"}
    BY <1>5 DEF DeleteUser, Begin, Others, TInv, TenantsTypeOK,
                AccountsTypeOK, WriteUser, Idle, AccountOps
  <1>6. ASSUME NEW e \in Emails, TransferStart(s, e)
        PROVE  Others(s) /\ task'[s].op \in AccountOps \ {"reset"}
    BY <1>6 DEF TransferStart, Begin, Others, TInv, TenantsTypeOK,
                AccountsTypeOK, Idle, AccountOps
  <1>7. CASE Abort(s) \/ LoginFail(s) \/ LoginSession(s) \/ PasswordRevoke(s)
             \/ ResetRevoke(s) \/ UpdateUser(s) \/ TransferOwner(s)
    BY <1>7, EndMoves, IdleTask
    DEF Abort, LoginFail, LoginSession, PasswordRevoke, ResetRevoke, UpdateUser,
        TransferOwner
  <1>8. CASE LoginRead(s)
    BY <1>8, GotoMoves DEF LoginRead, At, AccountOps
  <1>9. CASE PasswordUpdate(s) \/ ResetUpdate(s)
    BY <1>9, GotoMoves DEF PasswordUpdate, ResetUpdate, At, AccountOps
  <1>10. CASE ResetConsume(s)
    BY <1>10, GotoMoves, EndMoves DEF ResetConsume, At, AccountOps
  <1> QED
    BY <1>1, <1>2, <1>3, <1>4, <1>5, <1>6, <1>7, <1>8, <1>9, <1>10
    DEF AccountStep, Idle

\* Where a handler of the others gets to: what it holds is what it has begun
\* with, but for the account OAuth finds and the organization it makes.
Begun(s) ==
  \/ task'[s].op \notin AccountOps /\ task'[s].pc \in {"read", "write"}
  \/ task'[s].op = "org" /\ task'[s].pc = "provision"
  \/ /\ \E e \in Emails, p \in Passwords : SignupStart(s, e, p)
     /\ task'[s].op = "signup" /\ task'[s].pc = "create"

Provisions(s) ==
  \/ /\ CreateUser(s) /\ task[s].pc = "create"
     /\ task'[s].pc \in {"add", "provision", "consume"}
     /\ task'[s].pc = "add" =>
          \/ task[s].op = "accept"
          \/ task[s].op = "signup" /\ mode = "single" /\ task'[s].o = DefaultOrg
  \/ /\ CreateOrganization(s) /\ task[s].pc = "provision"
     /\ task'[s].pc = "add"

Proceeds(s) ==
  \/ /\ AddMember(s) /\ task[s].pc = "add"
     /\ task'[s].pc \in {"consume", "session", "app"}
  \/ /\ Consume(s) /\ task[s].op \in {"accept", "join"}
     /\ InviteUnused(task[s].t)
     /\ invites' = [invites EXCEPT ![task[s].t].st = "used"]
     /\ task'[s].pc \in {"add", "session"}
     /\ task'[s].pc = "add" => task[s].op = "join"
  \/ /\ task[s].pc = "read"
     /\ \/ task[s].op = "accept" /\ task'[s].pc \in {"create", "add"}
        \/ task[s].op \in {"oauth", "join"} /\ task'[s].pc \in {"create", "link"}
  \/ task[s].op # "join" /\ task'[s].pc = "session"
  \/ task[s].pc \in {"read", "link"} /\ task'[s].pc = "consume"

Advances(s) ==
  \/ task'[s] = Idle
  \/ Begun(s)
  \/ /\ task[s].op \notin AccountOps
     /\ task'[s].op = task[s].op /\ task'[s].t = task[s].t
     /\ \/ Provisions(s)
        \/ Proceeds(s) /\ task'[s].o = task[s].o

LEMMA BegunMoves ==
  ASSUME TInv, NEW s \in Slots,
         \/ \E x \in SessionIds : CreateOrg(s, x)
         \/ \E o \in OrgIds, e \in Emails :
              \/ \E r \in Roles : PatchMember(s, o, e, r)
              \/ RemoveMember(s, o, e)
         \/ \E t \in InviteTokens, p \in Passwords : AcceptStart(s, t, p)
         \/ \E e \in Emails, p \in Passwords : SignupStart(s, e, p)
         \/ \E i \in Idents, e \in Emails :
              \/ OAuthStart(s, i, e)
              \/ \E t \in InviteTokens : OAuthJoinStart(s, i, e, t)
  PROVE  Others(s) /\ Begun(s)
  <1>1. ASSUME NEW x \in SessionIds, CreateOrg(s, x)
        PROVE  Others(s) /\ Begun(s)
    BY <1>1 DEF CreateOrg, Begin, Others, TInv, TenantsTypeOK,
                AccountsTypeOK, Idle, Begun
  <1>2. ASSUME NEW o \in OrgIds, NEW e \in Emails, NEW r \in Roles,
               PatchMember(s, o, e, r)
        PROVE  Others(s) /\ Begun(s)
    BY <1>2 DEF PatchMember, Begin, Others, TInv, TenantsTypeOK,
                AccountsTypeOK, ChangeMember, Idle, Begun, AccountOps
  <1>3. ASSUME NEW o \in OrgIds, NEW e \in Emails, RemoveMember(s, o, e)
        PROVE  Others(s) /\ Begun(s)
    BY <1>3 DEF RemoveMember, Begin, Others, TInv, TenantsTypeOK,
                AccountsTypeOK, ChangeMember, Idle, Begun, AccountOps
  <1>4. ASSUME NEW t \in InviteTokens, NEW p \in Passwords, AcceptStart(s, t, p)
        PROVE  Others(s) /\ Begun(s)
    BY <1>4 DEF AcceptStart, Begin, Others, TInv, TenantsTypeOK,
                AccountsTypeOK, Answer, Idle, Begun, AccountOps
  <1>5. ASSUME NEW e \in Emails, NEW p \in Passwords, SignupStart(s, e, p)
        PROVE  Others(s) /\ Begun(s)
    <2>1. Others(s) /\ task'[s].op = "signup" /\ task'[s].pc = "create"
      BY <1>5 DEF SignupStart, Idle, Begin, Others, TInv, TenantsTypeOK,
                AccountsTypeOK
    <2> QED
      BY <1>5, <2>1 DEF Begun
  <1>6. ASSUME NEW i \in Idents, NEW e \in Emails, OAuthStart(s, i, e)
        PROVE  Others(s) /\ Begun(s)
    BY <1>6 DEF OAuthStart, Begin, Others, TInv, TenantsTypeOK,
                AccountsTypeOK, Idle, Begun, AccountOps
  <1>7. ASSUME NEW i \in Idents, NEW e \in Emails, NEW t \in InviteTokens,
               OAuthJoinStart(s, i, e, t)
        PROVE  Others(s) /\ Begun(s)
    BY <1>7 DEF OAuthJoinStart, Begin, Others, TInv, TenantsTypeOK,
                AccountsTypeOK, Answer, Idle, Begun, AccountOps
  <1> QED
    BY <1>1, <1>2, <1>3, <1>4, <1>5, <1>6, <1>7

LEMMA ProvisionsMoves ==
  ASSUME TInv, NEW s \in Slots, CreateUser(s) \/ CreateOrganization(s)
  PROVE  Others(s) /\ Advances(s)
  <1>0. Working(s)
    BY DEF TInv
  <1>1. CASE CreateUser(s) /\ End(s)
    BY <1>1, EndMoves DEF Advances
  <1>2. CASE CreateUser(s) /\ ~End(s)
    <2> DEFINE pc == AfterCreate(task[s].op)
               o == IF task[s].op = "signup" /\ mode = "single"
                    THEN DefaultOrg ELSE task[s].o
    <2>1. /\ task' = [task EXCEPT ![s].pc = pc, ![s].o = o]
          /\ task[s].pc = "create" /\ task[s] \in Task
          /\ task[s].op \in {"signup", "oauth", "join", "accept"}
      BY <1>0, <1>2
      DEF CreateUser, Working, Carries, TInv, TenantsTypeOK, AccountsTypeOK
    <2>2. /\ pc \in {"add", "provision", "consume"}
          /\ pc = "add" =>
               \/ task[s].op = "accept"
               \/ task[s].op = "signup" /\ mode = "single" /\ o = DefaultOrg
          /\ o \in OrgIds \cup {None}
      BY <2>1, TenantsAssumption DEF AfterCreate, Task
    <2> HIDE DEF pc, o
    <2>3. /\ task'[s].pc = pc /\ task'[s].o = o /\ task'[s].op = task[s].op
          /\ task'[s].t = task[s].t
      BY <2>1, <2>2, MovesWithOrg
    <2>4. Others(s)
      BY <2>1 DEF Others, TInv, TenantsTypeOK, AccountsTypeOK
    <2>5. Provisions(s)
      BY <1>2, <2>1, <2>2, <2>3 DEF Provisions
    <2>6. task[s].op \notin AccountOps
      BY <2>1 DEF AccountOps
    <2> QED
      BY <2>3, <2>4, <2>5, <2>6 DEF Advances
  <1>3. CASE CreateOrganization(s)
    <2>1. PICK o \in OrgIds : task' = [task EXCEPT ![s].pc = "add", ![s].o = o]
      BY <1>3 DEF CreateOrganization
    <2>2. /\ task[s].pc = "provision" /\ task[s].op \in {"signup", "oauth", "org"}
      BY <1>0, <1>3 DEF CreateOrganization, Working, Carries
    <2>3. /\ task'[s].pc = "add" /\ task'[s].op = task[s].op
          /\ task'[s].t = task[s].t
      BY <2>1, MovesWithOrg
    <2>4. Others(s)
      BY <2>1 DEF Others, TInv, TenantsTypeOK, AccountsTypeOK
    <2>5. Provisions(s)
      BY <1>3, <2>2, <2>3 DEF Provisions
    <2>6. task[s].op \notin AccountOps
      BY <2>2 DEF AccountOps
    <2> QED
      BY <2>3, <2>4, <2>5, <2>6 DEF Advances
  <1> QED
    BY <1>1, <1>2, <1>3

LEMMA ProceedsMoves ==
  ASSUME TInv, NEW s \in Slots,
         \/ AcceptRead(s) \/ Consume(s) \/ AddMember(s)
         \/ OAuthFound(s) \/ OAuthByEmail(s) \/ OAuthLink(s)
         \/ CreateDefaultApp(s)
  PROVE  Others(s) /\ Advances(s)
  <1> DEFINE k == task[s]
  <1>0. Working(s) /\ k \in Task
    BY DEF TInv, TenantsTypeOK, AccountsTypeOK
  <1>1. CASE End(s)
    BY <1>1, EndMoves DEF Advances
  <1>2. ASSUME NEW pc \in {"create", "link", "consume", "add", "session", "app"},
               Goto(s, pc), k.op \notin AccountOps,
               \/ AddMember(s) /\ k.pc = "add" /\ pc \in {"consume", "session", "app"}
               \/ /\ Consume(s) /\ k.op \in {"accept", "join"}
                  /\ InviteUnused(k.t)
                  /\ invites' = [invites EXCEPT ![k.t].st = "used"]
                  /\ pc \in {"add", "session"}
                  /\ pc = "add" => k.op = "join"
               \/ /\ k.pc = "read"
                  /\ \/ k.op = "accept" /\ pc \in {"create", "add"}
                     \/ k.op \in {"oauth", "join"} /\ pc \in {"create", "link"}
               \/ k.op # "join" /\ pc = "session"
               \/ k.pc \in {"read", "link"} /\ pc = "consume"
        PROVE  Others(s) /\ Advances(s)
    BY <1>2, GotoMoves DEF Advances, Proceeds
  <1>3. CASE AcceptRead(s)
    BY <1>1, <1>2, <1>3 DEF AcceptRead, At, AccountOps
  <1>4. CASE Consume(s)
    <2>1. k.op \in {"accept", "join"}
      BY <1>4 DEF Consume
    <2>2. /\ AfterConsume(k.op) \in {"add", "session"}
          /\ AfterConsume(k.op) = "add" => k.op = "join"
      BY <2>1 DEF AfterConsume
    <2>3. \/ End(s)
          \/ /\ Goto(s, AfterConsume(k.op)) /\ InviteUnused(k.t)
             /\ invites' = [invites EXCEPT ![k.t].st = "used"]
      BY <1>4 DEF Consume
    <2>4. k.op \notin AccountOps
      BY <2>1 DEF AccountOps
    <2> DEFINE pc == AfterConsume(k.op)
    <2> HIDE DEF pc
    <2>5. CASE /\ Goto(s, pc) /\ InviteUnused(k.t)
               /\ invites' = [invites EXCEPT ![k.t].st = "used"]
      <3>1. pc \in {"create", "link", "consume", "add", "session", "app"}
        BY <2>2 DEF pc
      <3>2. pc \in {"add", "session"} /\ (pc = "add" => k.op = "join")
        BY <2>2 DEF pc
      <3> QED
        BY <1>2, <1>4, <2>1, <2>4, <2>5, <3>1, <3>2
    <2> QED
      BY <1>1, <2>3, <2>5 DEF pc
  <1>5. CASE AddMember(s)
    <2>1. /\ k.pc = "add" /\ AfterAdd(k.op) \in {"consume", "session", "app"}
          /\ k.op \notin AccountOps
      BY <1>0, <1>5 DEF AddMember, Working, Carries, AfterAdd, AccountOps
    <2>2. End(s) \/ Goto(s, AfterAdd(k.op))
      BY <1>5 DEF AddMember
    <2> QED
      BY <1>1, <1>2, <1>5, <2>1, <2>2
  <1>6. CASE OAuthByEmail(s)
    <2>1. k.op \in {"oauth", "join"} /\ k.pc = "read"
      BY <1>6 DEF OAuthByEmail
    <2>2. \/ End(s) \/ Goto(s, "create")
          \/ task' = [task EXCEPT ![s].pc = "link", ![s].live = users[k.e].active]
      BY <1>6 DEF OAuthByEmail
    <2>3. CASE task' = [task EXCEPT ![s].pc = "link", ![s].live = users[k.e].active]
      <3>1. /\ task'[s].pc = "link" /\ task'[s].op = k.op /\ task'[s].t = k.t
            /\ task'[s].o = k.o /\ Others(s)
        BY <1>0, <2>3 DEF TInv, TenantsTypeOK, AccountsTypeOK, Task, Others
      <3> QED
        BY <2>1, <3>1 DEF Advances, Proceeds, AccountOps
    <2> QED
      BY <1>1, <1>2, <2>1, <2>2, <2>3 DEF AccountOps
  <1>7. CASE OAuthFound(s)
    <2>1. k.op \in {"oauth", "join"} /\ k.pc = "read"
      BY <1>7 DEF OAuthFound
    <2>2. PICK e \in Emails :
            \/ End(s)
            \/ task' = [task EXCEPT ![s].e = e, ![s].pc = AfterAccount(k.op)]
      BY <1>7 DEF OAuthFound, HolderOf, Known
    <2>3. /\ AfterAccount(k.op) \in {"session", "consume"}
          /\ AfterAccount(k.op) = "session" => k.op # "join"
      BY <2>1 DEF AfterAccount
    <2>4. ASSUME NEW pc \in {"session", "consume"}, pc = "session" => k.op # "join",
                 task' = [task EXCEPT ![s].e = e, ![s].pc = pc]
          PROVE  Others(s) /\ Advances(s)
      <3>1. /\ task'[s].pc = pc /\ task'[s].op = k.op /\ task'[s].t = k.t
            /\ task'[s].o = k.o /\ Others(s)
        BY <1>0, <2>4 DEF TInv, TenantsTypeOK, AccountsTypeOK, Task, Others
      <3> QED
        BY <2>1, <2>4, <3>1 DEF Advances, Proceeds, AccountOps
    <2> QED
      BY <1>1, <2>2, <2>3, <2>4
  <1>8. CASE OAuthLink(s)
    <2>1. k.op \in {"oauth", "join"} /\ k.pc = "link"
      BY <1>8 DEF OAuthLink
    <2>2. /\ AfterAccount(k.op) \in {"session", "consume"}
          /\ AfterAccount(k.op) = "session" => k.op # "join"
      BY <2>1 DEF AfterAccount
    <2>3. End(s) \/ Goto(s, AfterAccount(k.op))
      BY <1>8 DEF OAuthLink
    <2> QED
      BY <1>1, <1>2, <2>1, <2>2, <2>3 DEF AccountOps
  <1>9. CASE CreateDefaultApp(s)
    <2>1. k.op \in {"signup", "oauth", "org"}
      BY <1>0, <1>9 DEF CreateDefaultApp, Working, Carries
    <2>2. End(s) \/ Goto(s, "session")
      BY <1>9 DEF CreateDefaultApp
    <2> QED
      BY <1>1, <1>2, <2>1, <2>2 DEF AccountOps
  <1> QED
    BY <1>3, <1>4, <1>5, <1>6, <1>7, <1>8, <1>9

LEMMA HandlerMoves ==
  ASSUME TInv, NEW s \in Slots, Handlers(s)
  PROVE  Others(s) /\ Advances(s)
  <1>1. CASE MemberWrite(s) \/ FinishLogin(s)
    BY <1>1, EndMoves DEF MemberWrite, FinishLogin, Advances
  <1> QED
    BY <1>1, BegunMoves, ProvisionsMoves, ProceedsMoves DEF Handlers, Advances

LEMMA BackgroundMoves ==
  ASSUME [Next]_vars
  PROVE  \/ UNCHANGED task
         \/ UNCHANGED tenantVars /\ \E s \in Slots : AccountStep(s)
         \/ \E s \in Slots : Handlers(s)
  <1>1. CASE Background
    BY <1>1 DEF Background, Logout, SessionExpired, RevokeSession, AttemptAges,
                ResetRequest, ResetExpires
  <1>2. CASE Management
    BY <1>2 DEF Management, DeleteOrg, CreateApp, DeleteApp, TransferOrgOwner,
                InviteMember, InviteExpires, accountVars
  <1>3. CASE UNCHANGED vars
    BY <1>3 DEF vars
  <1> QED
    BY <1>1, <1>2, <1>3 DEF Next, AccountsNext

----------------------------------------------------------------------------
(* Redeemed once: who holds a token, and what becomes of it *)

\* A step of the abstract specification, or none.
Promised == Redemption!Next \/ UNCHANGED Redemption!vars

LEMMA HolderIs ==
  ASSUME NEW x, NEW r \in Slots, NEW t \in Tokens
  PROVE  /\ <<r, t>> \in Holders(x)
              <=> Standing(task[r]) = x /\ task[r].t = t
         /\ <<r, t>> \in Holders(x)'
              <=> Standing(task'[r]) = x /\ task'[r].t = t
  BY DEF Holders, Standing

LEMMA SameHolders ==
  ASSUME NEW A \in SUBSET (Slots \X Tokens), NEW B \in SUBSET (Slots \X Tokens),
         \A r \in Slots, t \in Tokens : <<r, t>> \in A <=> <<r, t>> \in B
  PROVE  A = B
  OBVIOUS

LEMMA HoldersTyped ==
  ASSUME NEW x
  PROVE  /\ Holders(x) \in SUBSET (Slots \X Tokens)
         /\ Holders(x)' \in SUBSET (Slots \X Tokens)
  BY DEF Holders

LEMMA HoldersStay ==
  ASSUME NEW s \in Slots, Others(s), NEW x,
         \A t \in Tokens : Standing(task'[s]) = x /\ task'[s].t = t
                             <=> Standing(task[s]) = x /\ task[s].t = t
  PROVE  Holders(x)' = Holders(x)
  <1>1. ASSUME NEW r \in Slots, NEW t \in Tokens
        PROVE  <<r, t>> \in Holders(x)' <=> <<r, t>> \in Holders(x)
    <2>1. CASE r = s
      BY <2>1, HolderIs
    <2>2. CASE r # s
      BY <2>2, HolderIs DEF Others
    <2> QED
      BY <2>1, <2>2
  <1> QED
    BY <1>1, SameHolders, HoldersTyped

LEMMA HoldersEnter ==
  ASSUME NEW s \in Slots, Others(s), NEW x, NEW t \in Tokens,
         Standing(task[s]) # x, Standing(task'[s]) = x, task'[s].t = t
  PROVE  Holders(x)' = Holders(x) \cup {<<s, t>>}
  <1>1. ASSUME NEW r \in Slots, NEW u \in Tokens
        PROVE  <<r, u>> \in Holders(x)'
                 <=> <<r, u>> \in Holders(x) \cup {<<s, t>>}
    <2>1. CASE r = s
      BY <2>1, HolderIs
    <2>2. CASE r # s
      BY <2>2, HolderIs DEF Others
    <2> QED
      BY <2>1, <2>2
  <1>2. Holders(x) \cup {<<s, t>>} \in SUBSET (Slots \X Tokens)
    BY HoldersTyped
  <1> QED
    BY <1>1, <1>2, SameHolders, HoldersTyped

LEMMA HoldersLeave ==
  ASSUME NEW s \in Slots, Others(s), NEW x, NEW t \in Tokens, task[s].t = t,
         Standing(task'[s]) # x
  PROVE  Holders(x)' = Holders(x) \ {<<s, t>>}
  <1>1. ASSUME NEW r \in Slots, NEW u \in Tokens
        PROVE  <<r, u>> \in Holders(x)'
                 <=> <<r, u>> \in Holders(x) \ {<<s, t>>}
    <2>1. CASE r = s
      BY <2>1, HolderIs
    <2>2. CASE r # s
      BY <2>2, HolderIs DEF Others
    <2> QED
      BY <2>1, <2>2
  <1>2. Holders(x) \ {<<s, t>>} \in SUBSET (Slots \X Tokens)
    BY HoldersTyped
  <1> QED
    BY <1>1, <1>2, SameHolders, HoldersTyped

\* Who holds a token has one.
LEMMA HoldersToken ==
  ASSUME TInv, NEW s \in Slots, Standing(task[s]) # "none"
  PROVE  /\ task[s].t \in Tokens
         /\ Standing(task[s]) \in {"eager", "patient", "claimed"}
         /\ task[s].op = "reset" => task[s].t \in ResetTokens
         /\ task[s].op # "reset" => task[s].t \in InviteTokens
  BY DEF TInv, Working, HasInvite, HasReset, Standing, Tokens

LEMMA PhaseIs ==
  /\ \A t \in ResetTokens :
       t \in Tokens /\ Phases[t] = Phase(resets[t])
         /\ (Phases')[t] = Phase(resets'[t])
  /\ \A t \in InviteTokens :
       t \in Tokens /\ Phases[t] = Phase(invites[t])
         /\ (Phases')[t] = Phase(invites'[t])
  BY AccountsAssumption DEF Phases, Phase, Tokens

LEMMA PhasesSet ==
  ASSUME NEW t \in Tokens, NEW ph, (Phases')[t] = ph,
         \A u \in Tokens \ {t} : (Phases')[u] = Phases[u]
  PROVE  /\ Phases' = [Phases EXCEPT ![t] = ph]
         /\ Phases' = [u \in Tokens |-> IF u \in {t} THEN ph ELSE Phases[u]]
  <1> DEFINE old == Phases
             new == Phases'
  <1>1. /\ old = [u \in Tokens |-> old[u]] /\ new = [u \in Tokens |-> new[u]]
    BY DEF Phases
  <1> HIDE DEF old, new
  <1>2. new[t] = ph /\ \A u \in Tokens \ {t} : new[u] = old[u]
    BY DEF old, new
  <1>3. /\ new = [old EXCEPT ![t] = ph]
        /\ new = [u \in Tokens |-> IF u \in {t} THEN ph ELSE old[u]]
    BY <1>1, <1>2
  <1> QED
    BY <1>3 DEF old, new

LEMMA PhasesKept ==
  ASSUME UNCHANGED <<resets, invites>>
  PROVE  Phases' = Phases
  BY DEF Phases, Phase

\* The steps that write no token: a handler keeps what it holds, or leaves.
LEMMA QuietStays ==
  ASSUME NEW s \in Slots, Others(s), UNCHANGED TokenRows,
         Standing(task'[s]) = Standing(task[s]), task'[s].t = task[s].t
  PROVE  Promised
  <1>1. Phases' = Phases /\ UNCHANGED redeemed
    BY PhasesKept DEF TokenRows
  <1>2. \A x \in {"eager", "patient", "claimed"} : Holders(x)' = Holders(x)
    BY HoldersStay
  <1> QED
    BY <1>1, <1>2 DEF Promised, Redemption!vars

LEMMA QuietLeaves ==
  ASSUME TInv, NEW s \in Slots, Others(s), UNCHANGED TokenRows,
         Standing(task'[s]) = "none"
  PROVE  Promised
  <1>1. Phases' = Phases /\ UNCHANGED redeemed
    BY PhasesKept DEF TokenRows
  <1>2. CASE Standing(task[s]) = "none"
    <2>1. \A x \in {"eager", "patient", "claimed"} : Holders(x)' = Holders(x)
      BY <1>2, HoldersStay
    <2> QED
      BY <1>1, <2>1 DEF Promised, Redemption!vars
  <1>3. CASE Standing(task[s]) # "none"
    <2> DEFINE t == task[s].t
    <2>1. t \in Tokens
      BY <1>3, HoldersToken
    <2>2. \A x \in {"eager", "patient", "claimed"} :
            Holders(x)' = Holders(x) \ {<<s, t>>}
      BY <2>1, HoldersLeave
    <2>3. Redemption!Leave(s, t)
      BY <1>1, <2>2 DEF Redemption!Leave
    <2> QED
      BY <2>1, <2>3 DEF Promised, Redemption!Next
  <1> QED
    BY <1>2, <1>3

\* A handler is let in with a token that is open.
LEMMA QuietEnters ==
  ASSUME NEW s \in Slots, Others(s), UNCHANGED TokenRows, NEW t \in Tokens,
         Phases[t] = "open", task'[s].t = t, Standing(task[s]) = "none",
         Standing(task'[s]) \in {"eager", "patient"}
  PROVE  Promised
  <1>1. Phases' = Phases /\ UNCHANGED redeemed
    BY PhasesKept DEF TokenRows
  <1>2. ASSUME NEW x \in {"eager", "patient", "claimed"}, Standing(task'[s]) # x
        PROVE  Holders(x)' = Holders(x)
    BY <1>2, HoldersStay
  <1>3. ASSUME NEW x \in {"eager", "patient"}, Standing(task'[s]) = x
        PROVE  Holders(x)' = Holders(x) \cup {<<s, t>>}
    BY <1>3, HoldersEnter
  <1>4. Redemption!LetIn(s, t)
    BY <1>1, <1>2, <1>3 DEF Redemption!LetIn
  <1> QED
    BY <1>4 DEF Promised, Redemption!Next

\* A handler gets what its token is for.
LEMMA RedeemsPromised ==
  ASSUME TInv, NEW s \in Slots, Others(s), UNCHANGED <<resets, invites>>,
         Standing(task[s]) \in {"eager", "claimed"},
         Standing(task'[s]) = "none",
         redeemed' = [redeemed EXCEPT ![task[s].t] = redeemed[task[s].t] + 1]
  PROVE  Promised
  <1> DEFINE t == task[s].t
  <1>1. t \in Tokens
    BY HoldersToken
  <1>2. Phases' = Phases
    BY PhasesKept
  <1>3. <<s, t>> \in Holders("eager") \cup Holders("claimed")
    BY <1>1, HolderIs
  <1>4. \A x \in {"eager", "claimed"} : Holders(x)' = Holders(x) \ {<<s, t>>}
    BY <1>1, HoldersLeave
  <1>5. Holders("patient")' = Holders("patient")
    BY HoldersStay
  <1>6. Redemption!Redeem(s, t)
    BY <1>2, <1>3, <1>4, <1>5 DEF Redemption!Redeem
  <1> QED
    BY <1>1, <1>6 DEF Promised, Redemption!Next

\* A token is used up by one that needs no claim to it, or holds none now.
LEMMA UsesUp ==
  ASSUME NEW t \in Tokens, Phases[t] # "none", (Phases')[t] = "used",
         \A u \in Tokens \ {t} : (Phases')[u] = Phases[u], UNCHANGED redeemed,
         \A x \in {"eager", "patient", "claimed"} : Holders(x)' = Holders(x)
  PROVE  Promised
  <1>1. Phases' = [u \in Tokens |-> IF u \in {t} THEN "used" ELSE Phases[u]]
    BY PhasesSet
  <1>2. Redemption!UseUp({t})
    BY <1>1 DEF Redemption!UseUp
  <1>3. {t} \in SUBSET Tokens
    OBVIOUS
  <1> QED
    BY <1>2, <1>3 DEF Promised, Redemption!Next

\* What becomes of the row of one token.
LEMMA ResetRow ==
  ASSUME TInv, NEW t \in ResetTokens, NEW row \in Reset,
         resets' = [resets EXCEPT ![t] = row], UNCHANGED invites
  PROVE  /\ t \in Tokens /\ Phases[t] = Phase(resets[t])
         /\ (Phases')[t] = Phase(row)
         /\ \A u \in Tokens \ {t} : (Phases')[u] = Phases[u]
  <1>1. resets'[t] = row /\ \A u \in ResetTokens \ {t} : resets'[u] = resets[u]
    BY DEF TInv, TenantsTypeOK, AccountsTypeOK
  <1>2. \A u \in ResetTokens \ {t} : (Phases')[u] = Phases[u]
    BY <1>1, PhaseIs DEF Phase
  <1>3. \A u \in InviteTokens : (Phases')[u] = Phases[u]
    BY PhaseIs DEF Phase
  <1>4. (Phases')[t] = Phase(row)
    BY <1>1, PhaseIs DEF Phase
  <1> QED
    BY <1>2, <1>3, <1>4, PhaseIs DEF Tokens

LEMMA InvitePhase ==
  ASSUME TInv, NEW t \in InviteTokens, NEW row \in Invite,
         invites' = [invites EXCEPT ![t] = row], UNCHANGED resets
  PROVE  /\ t \in Tokens /\ Phases[t] = Phase(invites[t])
         /\ (Phases')[t] = Phase(row)
         /\ \A u \in Tokens \ {t} : (Phases')[u] = Phases[u]
  <1>1. invites'[t] = row /\ \A u \in InviteTokens \ {t} : invites'[u] = invites[u]
    BY DEF TInv, TenantsTypeOK
  <1>2. \A u \in InviteTokens \ {t} : (Phases')[u] = Phases[u]
    BY <1>1, PhaseIs DEF Phase
  <1>3. \A u \in ResetTokens : (Phases')[u] = Phases[u]
    BY PhaseIs DEF Phase
  <1>4. (Phases')[t] = Phase(row)
    BY <1>1, PhaseIs DEF Phase
  <1> QED
    BY <1>2, <1>3, <1>4, PhaseIs DEF Tokens

\* Password resets: the password is written before the token is marked used.
LEMMA AccountPromised ==
  ASSUME TInv, NEW s \in Slots, AccountStep(s), UNCHANGED TokenRows
  PROVE  Promised
  <1>1. /\ Others(s)
        /\ \/ task'[s] = Idle \/ task'[s].op \in AccountOps
        /\ task'[s].op = "reset" =>
             \/ ResetUpdate(s) \/ ResetConsume(s)
             \/ \E t \in ResetTokens, p \in Passwords : ResetStart(s, t, p)
    BY AccountMoves
  <1>2. CASE Standing(task'[s]) = "none"
    BY <1>1, <1>2, QuietLeaves
  <1>3. CASE Standing(task'[s]) # "none"
    <2>1. task'[s].op = "reset" /\ task'[s].pc = "update"
      BY <1>1, <1>3 DEF Standing, AccountOps, Idle
    <2>2. PICK t \in ResetTokens, p \in Passwords : ResetStart(s, t, p)
      <3>1. ~ResetUpdate(s)
        BY <2>1, GotoMoves DEF ResetUpdate
      <3>2. ~ResetConsume(s)
        BY <2>1, GotoMoves, EndMoves, IdleTask DEF ResetConsume
      <3> QED
        BY <1>1, <2>1, <3>1, <3>2
    <2>3. task'[s].t = t /\ task[s].pc = "idle" /\ resets[t] # None
            /\ resets[t].st = "open"
      BY <2>2 DEF ResetStart, Begin, Idle, TInv, TenantsTypeOK, AccountsTypeOK
    <2>4. t \in Tokens /\ Phases[t] = "open"
      BY <2>3, PhaseIs DEF Phase
    <2>5. Standing(task[s]) = "none" /\ Standing(task'[s]) = "eager"
      BY <2>1, <2>3 DEF Standing
    <2> QED
      BY <1>1, <2>3, <2>4, <2>5, QuietEnters
  <1> QED
    BY <1>2, <1>3

LEMMA ResetUpdatePromised ==
  ASSUME TInv, NEW s \in Slots, ResetUpdate(s), UNCHANGED tenantVars
  PROVE  Promised
  <1>1. Others(s) /\ task'[s].pc = "consume" /\ task'[s].op = task[s].op
    BY GotoMoves DEF ResetUpdate
  <1>2. task[s].op = "reset" /\ task[s].pc = "update"
    BY DEF ResetUpdate, At
  <1>3. Standing(task[s]) = "eager" /\ Standing(task'[s]) = "none"
    BY <1>1, <1>2 DEF Standing
  <1>4. /\ UNCHANGED <<resets, invites>>
        /\ redeemed' = [redeemed EXCEPT ![task[s].t] = redeemed[task[s].t] + 1]
    BY DEF ResetUpdate, tenantVars
  <1> QED
    BY <1>1, <1>3, <1>4, RedeemsPromised

LEMMA ResetConsumePromised ==
  ASSUME TInv, NEW s \in Slots, ResetConsume(s), UNCHANGED tenantVars
  PROVE  Promised
  <1> DEFINE t == task[s].t
             row == [resets[t] EXCEPT !.st = "used"]
  <1>1. /\ task[s].op = "reset" /\ task[s].pc = "consume" /\ t \in ResetTokens
        /\ resets[t] # None /\ resets[t] \in Reset /\ UNCHANGED invites
    BY DEF ResetConsume, At, TInv, TenantsTypeOK, AccountsTypeOK, Working,
           HasReset, tenantVars
  <1>2. /\ Others(s)
        /\ \/ task'[s] = Idle
           \/ task'[s].op = "reset" /\ task'[s].pc = "revoke"
    <2>1. CASE End(s)
      BY <2>1, EndMoves
    <2>2. CASE Goto(s, "revoke")
      BY <1>1, <2>2, GotoMoves
    <2> QED
      BY <2>1, <2>2 DEF ResetConsume
  <1>3. Standing(task[s]) = "none" /\ Standing(task'[s]) = "none"
    BY <1>1, <1>2 DEF Standing, Idle
  <1>4. CASE UNCHANGED resets
    <2>1. UNCHANGED TokenRows
      BY <1>1, <1>4 DEF ResetConsume, TokenRows
    <2> QED
      BY <1>2, <1>3, <2>1, QuietLeaves
  <1>5. CASE resets' = [resets EXCEPT ![t] = row]
    <2>1. row \in Reset /\ row.st = "used"
      BY <1>1 DEF Reset, TokenState
    <2> HIDE DEF row
    <2>2. /\ t \in Tokens /\ Phases[t] = Phase(resets[t])
          /\ (Phases')[t] = Phase(row)
          /\ \A u \in Tokens \ {t} : (Phases')[u] = Phases[u]
      BY <1>1, <1>5, <2>1, ResetRow
    <2>3. Phases[t] # "none" /\ (Phases')[t] = "used"
      BY <1>1, <2>1, <2>2, NoneIsNoRow DEF Phase
    <2>4. \A x \in {"eager", "patient", "claimed"} : Holders(x)' = Holders(x)
      BY <1>2, <1>3, HoldersStay
    <2>5. UNCHANGED redeemed
      BY DEF ResetConsume
    <2> QED
      BY <2>2, <2>3, <2>4, <2>5, UsesUp
  <1> QED
    BY <1>4, <1>5 DEF ResetConsume

\* Invitations: the requests that take one up, and those that have nothing to
\* do with any.
LEMMA StartsPromised ==
  ASSUME TInv, NEW s \in Slots, UNCHANGED TokenRows,
         \/ \E x \in SessionIds : CreateOrg(s, x)
         \/ \E o \in OrgIds, e \in Emails :
              \/ \E r \in Roles : PatchMember(s, o, e, r)
              \/ RemoveMember(s, o, e)
         \/ \E t \in InviteTokens, p \in Passwords : AcceptStart(s, t, p)
         \/ \E e \in Emails, p \in Passwords : SignupStart(s, e, p)
         \/ \E i \in Idents, e \in Emails :
              \/ OAuthStart(s, i, e)
              \/ \E t \in InviteTokens : OAuthJoinStart(s, i, e, t)
  PROVE  Promised
  <1> Others(s)
    BY BegunMoves
  <1>0. task \in [Slots -> Task]
    BY DEF TInv, TenantsTypeOK, AccountsTypeOK
  <1>1. ASSUME task'[s].op \in {"org", "member", "signup", "oauth"}
        PROVE  Promised
    <2>1. Standing(task'[s]) = "none"
      BY <1>1 DEF Standing
    <2> QED
      BY <2>1, QuietLeaves
  <1>2. ASSUME NEW x \in SessionIds, CreateOrg(s, x)
        PROVE  Promised
    BY <1>0, <1>1, <1>2 DEF CreateOrg, Begin, Idle
  <1>3. ASSUME NEW o \in OrgIds, NEW e \in Emails, NEW r \in Roles,
               PatchMember(s, o, e, r)
        PROVE  Promised
    BY <1>0, <1>1, <1>3 DEF PatchMember, Begin, ChangeMember, Idle
  <1>4. ASSUME NEW o \in OrgIds, NEW e \in Emails, RemoveMember(s, o, e)
        PROVE  Promised
    BY <1>0, <1>1, <1>4 DEF RemoveMember, Begin, ChangeMember, Idle
  <1>5. ASSUME NEW e \in Emails, NEW p \in Passwords, SignupStart(s, e, p)
        PROVE  Promised
    BY <1>0, <1>1, <1>5 DEF SignupStart, Begin, Idle
  <1>6. ASSUME NEW i \in Idents, NEW e \in Emails, OAuthStart(s, i, e)
        PROVE  Promised
    BY <1>0, <1>1, <1>6 DEF OAuthStart, Begin, Idle
  <1>7. ASSUME NEW t \in InviteTokens, Valid(t), task[s].pc = "idle",
               task'[s].op \in {"accept", "join"}, task'[s].pc = "read",
               task'[s].t = t
        PROVE  Promised
    <2>1. t \in Tokens /\ Phases[t] = "open"
      BY <1>7, PhaseIs DEF Phase, Valid
    <2>2. /\ Standing(task[s]) = "none"
          /\ Standing(task'[s]) \in {"eager", "patient"}
      BY <1>7 DEF Standing
    <2> QED
      BY <1>7, <2>1, <2>2, QuietEnters
  <1>8. ASSUME NEW t \in InviteTokens, NEW p \in Passwords, AcceptStart(s, t, p)
        PROVE  Promised
    <2>1. /\ task'[s].op = "accept" /\ task'[s].pc = "read" /\ task'[s].t = t
          /\ task[s].pc = "idle" /\ Valid(t)
      BY <1>0, <1>8 DEF AcceptStart, Begin, Answer, Idle
    <2> QED
      BY <1>7, <2>1
  <1>9. ASSUME NEW i \in Idents, NEW e \in Emails, NEW t \in InviteTokens,
               OAuthJoinStart(s, i, e, t)
        PROVE  Promised
    <2>1. /\ task'[s].op = "join" /\ task'[s].pc = "read" /\ task'[s].t = t
          /\ task[s].pc = "idle" /\ Valid(t)
      BY <1>0, <1>9 DEF OAuthJoinStart, Begin, Answer, Idle, Addressed
    <2> QED
      BY <1>7, <2>1
  <1> QED
    BY <1>2, <1>3, <1>4, <1>5, <1>6, <1>8, <1>9

LEMMA ProvisionsPromised ==
  ASSUME TInv, NEW s \in Slots, UNCHANGED TokenRows,
         CreateUser(s) \/ CreateOrganization(s)
  PROVE  Promised
  <1> DEFINE k == task[s]
  <1>1. Others(s) /\ Working(s) /\ k \in Task
    BY ProvisionsMoves DEF TInv, TenantsTypeOK, AccountsTypeOK
  <1>2. CASE End(s)
    <2>1. Standing(task'[s]) = "none"
      BY <1>2, EndMoves DEF Standing, Idle
    <2> QED
      BY <1>1, <2>1, QuietLeaves
  <1>3. CASE CreateOrganization(s)
    <2>1. PICK o \in OrgIds : task' = [task EXCEPT ![s].pc = "add", ![s].o = o]
      BY <1>3 DEF CreateOrganization
    <2>2. k.op \in {"signup", "oauth", "org"}
      BY <1>1, <1>3 DEF CreateOrganization, Working, Carries
    <2>3. task'[s].op = k.op
      BY <2>1, MovesWithOrg
    <2>4. Standing(task'[s]) = "none"
      BY <2>2, <2>3 DEF Standing
    <2> QED
      BY <1>1, <2>4, QuietLeaves
  <1>4. CASE CreateUser(s) /\ ~End(s)
    <2> DEFINE pc == AfterCreate(k.op)
               o == IF k.op = "signup" /\ mode = "single" THEN DefaultOrg ELSE k.o
    <2>1. task' = [task EXCEPT ![s].pc = pc, ![s].o = o] /\ k.pc = "create"
      BY <1>4 DEF CreateUser
    <2>2. k.op \in {"signup", "oauth", "join", "accept"}
      BY <1>1, <2>1 DEF Working, Carries
    <2>3. /\ pc \in {"add", "provision", "consume"} /\ o \in OrgIds \cup {None}
          /\ k.op = "accept" => pc = "add"
          /\ k.op = "join" => pc = "consume"
      BY <1>1, <2>2, TenantsAssumption DEF AfterCreate, Task
    <2> HIDE DEF pc, o
    <2>4. task'[s].pc = pc /\ task'[s].op = k.op /\ task'[s].t = k.t
      BY <2>1, <2>3, MovesWithOrg
    <2>5. Standing(task'[s]) = Standing(k)
      BY <2>1, <2>2, <2>3, <2>4 DEF Standing
    <2> QED
      BY <1>1, <2>4, <2>5, QuietStays
  <1> QED
    BY <1>2, <1>3, <1>4

\* Between its statements a handler keeps what it holds.
LEMMA ProceedsPromised ==
  ASSUME TInv, NEW s \in Slots, UNCHANGED TokenRows,
         \/ AcceptRead(s) \/ OAuthFound(s) \/ OAuthByEmail(s) \/ OAuthLink(s)
         \/ CreateDefaultApp(s) \/ MemberWrite(s) \/ FinishLogin(s)
  PROVE  Promised
  <1> DEFINE k == task[s]
  <1>1. Others(s) /\ Working(s) /\ k \in Task
    <2>1. Others(s)
      BY EndMoves, ProceedsMoves DEF MemberWrite, FinishLogin
    <2> QED
      BY <2>1 DEF TInv, TenantsTypeOK, AccountsTypeOK
  <1>2. CASE End(s)
    <2>1. Standing(task'[s]) = "none"
      BY <1>2, EndMoves DEF Standing, Idle
    <2> QED
      BY <1>1, <2>1, QuietLeaves
  <1>3. ASSUME task'[s].op = k.op, task'[s].t = k.t,
               Standing(task'[s]) = Standing(k)
        PROVE  Promised
    BY <1>1, <1>3, QuietStays
  <1>4. CASE AcceptRead(s)
    <2>1. k.op = "accept" /\ k.pc = "read"
      BY <1>4 DEF AcceptRead, At
    <2>2. ASSUME NEW pc \in {"create", "add"}, Goto(s, pc)
          PROVE  Promised
      <3>1. task'[s].pc = pc /\ task'[s].op = k.op /\ task'[s].t = k.t
        BY <2>2, GotoMoves
      <3>2. Standing(task'[s]) = Standing(k)
        BY <2>1, <3>1 DEF Standing
      <3> QED
        BY <1>3, <3>1, <3>2
    <2> QED
      BY <1>2, <1>4, <2>2 DEF AcceptRead
  <1>5. ASSUME k.op \in {"oauth", "join"}, k.pc \in {"read", "link"},
               task'[s].op = k.op, task'[s].t = k.t,
               \/ task'[s].pc \in {"link", "create"}
               \/ task'[s].pc = AfterAccount(k.op)
        PROVE  Promised
    <2>1. Standing(task'[s]) = Standing(k)
      BY <1>5 DEF Standing, AfterAccount
    <2> QED
      BY <1>3, <1>5, <2>1
  <1>6. CASE OAuthFound(s)
    <2>1. k.op \in {"oauth", "join"} /\ k.pc = "read"
      BY <1>6 DEF OAuthFound
    <2>2. PICK e \in Emails :
            \/ End(s)
            \/ task' = [task EXCEPT ![s].e = e, ![s].pc = AfterAccount(k.op)]
      BY <1>6 DEF OAuthFound, HolderOf, Known
    <2>3. AfterAccount(k.op) \in {"session", "consume"}
      BY <2>1 DEF AfterAccount
    <2>4. CASE task' = [task EXCEPT ![s].e = e, ![s].pc = AfterAccount(k.op)]
      <3>1. /\ task'[s].op = k.op /\ task'[s].t = k.t
            /\ task'[s].pc = AfterAccount(k.op)
        BY <2>3, <2>4, MovesWithAccount
      <3> QED
        BY <1>5, <2>1, <3>1
    <2> QED
      BY <1>2, <2>2, <2>4
  <1>7. CASE OAuthByEmail(s)
    <2>1. k.op \in {"oauth", "join"} /\ k.pc = "read"
      BY <1>7 DEF OAuthByEmail
    <2>2. \/ End(s) \/ Goto(s, "create")
          \/ task' = [task EXCEPT ![s].pc = "link", ![s].live = users[k.e].active]
      BY <1>7 DEF OAuthByEmail
    <2>3. CASE task' = [task EXCEPT ![s].pc = "link", ![s].live = users[k.e].active]
      <3>1. task'[s].pc = "link" /\ task'[s].op = k.op /\ task'[s].t = k.t
        BY <1>1, <2>3 DEF TInv, TenantsTypeOK, AccountsTypeOK, Task
      <3> QED
        BY <1>5, <2>1, <3>1
    <2>4. CASE Goto(s, "create")
      <3>1. task'[s].pc = "create" /\ task'[s].op = k.op /\ task'[s].t = k.t
        BY <2>4, GotoMoves
      <3> QED
        BY <1>5, <2>1, <3>1
    <2> QED
      BY <1>2, <2>2, <2>3, <2>4
  <1>8. CASE OAuthLink(s)
    <2>1. k.op \in {"oauth", "join"} /\ k.pc = "link"
      BY <1>8 DEF OAuthLink
    <2>2. AfterAccount(k.op) \in {"session", "consume"}
      BY <2>1 DEF AfterAccount
    <2>3. End(s) \/ Goto(s, AfterAccount(k.op))
      BY <1>8 DEF OAuthLink
    <2>4. CASE Goto(s, AfterAccount(k.op))
      <3>1. /\ task'[s].pc = AfterAccount(k.op) /\ task'[s].op = k.op
            /\ task'[s].t = k.t
        BY <2>2, <2>4, GotoMoves
      <3> QED
        BY <1>5, <2>1, <3>1
    <2> QED
      BY <1>2, <2>3, <2>4
  <1>9. CASE CreateDefaultApp(s) \/ MemberWrite(s) \/ FinishLogin(s)
    <2>1. CASE MemberWrite(s) \/ FinishLogin(s)
      BY <1>2, <2>1 DEF MemberWrite, FinishLogin
    <2>2. CASE CreateDefaultApp(s) /\ Goto(s, "session")
      <3>1. k.op \in {"signup", "oauth", "org"}
        BY <1>1, <2>2 DEF CreateDefaultApp, Working, Carries
      <3>2. task'[s].op = k.op /\ task'[s].t = k.t
        BY <2>2, GotoMoves
      <3>3. Standing(task'[s]) = Standing(k)
        BY <3>1, <3>2 DEF Standing
      <3> QED
        BY <1>3, <3>2, <3>3
    <2> QED
      BY <1>2, <1>9, <2>1, <2>2 DEF CreateDefaultApp
  <1> QED
    BY <1>4, <1>6, <1>7, <1>8, <1>9

\* With a password the member is there when the invitation is marked used; an
\* OAuth login claims it first.
LEMMA ConsumePromised ==
  ASSUME TInv, NEW s \in Slots, Consume(s)
  PROVE  Promised
  <1> DEFINE k == task[s]
             t == task[s].t
             row == [invites[t] EXCEPT !.st = "used"]
  <1>1. /\ k.op \in {"accept", "join"} /\ k.pc = "consume" /\ t \in InviteTokens
        /\ invites[t] # None /\ invites[t] \in Invite
        /\ UNCHANGED <<resets, redeemed>>
    BY DEF Consume, TInv, TenantsTypeOK, Working, HasInvite, accountRows
  <1>2. Others(s)
    BY ProceedsMoves
  <1>3. CASE End(s) /\ UNCHANGED invites
    <2>1. Standing(task'[s]) = "none" /\ UNCHANGED TokenRows
      BY <1>1, <1>3, EndMoves DEF Standing, Idle, TokenRows
    <2> QED
      BY <1>2, <2>1, QuietLeaves
  <1>4. CASE /\ invites[t].st \notin {"used", "gone"}
             /\ invites' = [invites EXCEPT ![t] = row]
             /\ Goto(s, AfterConsume(k.op))
    <2>1. row \in Invite /\ row.st = "used"
      BY <1>1 DEF Invite, TokenState
    <2> HIDE DEF row
    <2>2. /\ t \in Tokens /\ Phases[t] = Phase(invites[t])
          /\ (Phases')[t] = Phase(row)
          /\ \A u \in Tokens \ {t} : (Phases')[u] = Phases[u]
      BY <1>1, <1>4, <2>1, InvitePhase
    <2>3. Phases[t] # "none" /\ (Phases')[t] = "used"
      BY <1>1, <2>1, <2>2, NoneIsNoInvite DEF Phase
    <2>4. AfterConsume(k.op) = IF k.op = "join" THEN "add" ELSE "session"
      BY DEF AfterConsume
    <2>5. /\ task'[s].pc = AfterConsume(k.op) /\ task'[s].op = k.op
          /\ task'[s].t = t
      BY <1>4, <2>4, GotoMoves
    <2>6. CASE k.op = "accept"
      <3>1. Standing(k) = "none" /\ Standing(task'[s]) = "none"
        BY <1>1, <2>4, <2>5, <2>6 DEF Standing
      <3>2. \A x \in {"eager", "patient", "claimed"} : Holders(x)' = Holders(x)
        BY <1>2, <3>1, HoldersStay
      <3> QED
        BY <1>1, <2>2, <2>3, <3>2, UsesUp
    <2>7. CASE k.op = "join"
      <3>1. Standing(k) = "patient" /\ Standing(task'[s]) = "claimed"
        BY <1>1, <2>4, <2>5, <2>7 DEF Standing
      <3>2. <<s, t>> \in Holders("patient")
        BY <2>2, <3>1, HolderIs
      <3>3. Holders("patient")' = Holders("patient") \ {<<s, t>>}
        BY <1>2, <2>2, <3>1, HoldersLeave
      <3>4. Holders("claimed")' = Holders("claimed") \cup {<<s, t>>}
        BY <1>2, <2>2, <2>5, <3>1, HoldersEnter
      <3>5. Holders("eager")' = Holders("eager")
        BY <1>2, <3>1, HoldersStay
      <3>6. Phases' = [Phases EXCEPT ![t] = "used"]
        BY <2>2, <2>3, PhasesSet
      <3>7. Phases[t] \in {"open", "shut"}
        BY <1>1, <1>4, <2>2 DEF Phase, Invite, TokenState
      <3>8. Redemption!Claim(s, t)
        BY <1>1, <3>2, <3>3, <3>4, <3>5, <3>6, <3>7 DEF Redemption!Claim
      <3> QED
        BY <2>2, <3>8 DEF Promised, Redemption!Next
    <2> QED
      BY <1>1, <2>6, <2>7
  <1> QED
    BY <1>3, <1>4 DEF Consume, InviteUnused

LEMMA AddMemberPromised ==
  ASSUME TInv, NEW s \in Slots, AddMember(s)
  PROVE  Promised
  <1> DEFINE k == task[s]
  <1>1. /\ Others(s) /\ k.pc = "add" /\ UNCHANGED <<resets, invites>>
        /\ k.op \in {"signup", "oauth", "join", "accept", "org"}
    BY ProceedsMoves DEF AddMember, TInv, Working, Carries, accountRows
  <1>2. Standing(task'[s]) = "none"
    <2>1. CASE End(s)
      BY <2>1, EndMoves DEF Standing, Idle
    <2>2. CASE Goto(s, AfterAdd(k.op))
      <3>1. /\ AfterAdd(k.op) \in {"consume", "session", "app"}
            /\ k.op = "join" => AfterAdd(k.op) = "session"
        BY <1>1 DEF AfterAdd
      <3>2. task'[s].pc = AfterAdd(k.op) /\ task'[s].op = k.op
        BY <2>2, <3>1, GotoMoves
      <3> QED
        BY <1>1, <3>1, <3>2 DEF Standing
    <2> QED
      BY <2>1, <2>2 DEF AddMember
  <1>3. CASE UNCHANGED redeemed
    <2>1. UNCHANGED TokenRows
      BY <1>1, <1>3 DEF TokenRows
    <2> QED
      BY <1>1, <1>2, <2>1, QuietLeaves
  <1>4. CASE /\ k.op \in {"accept", "join"}
             /\ redeemed' = [redeemed EXCEPT ![k.t] = redeemed[k.t] + 1]
    <2>1. Standing(k) \in {"eager", "claimed"}
      BY <1>1, <1>4 DEF Standing
    <2> QED
      BY <1>1, <1>2, <1>4, <2>1, RedeemsPromised
  <1> QED
    BY <1>3, <1>4 DEF AddMember

\* Tokens are issued, lapse, and go with their organization, whoever holds
\* them.
LEMMA IssuePromised ==
  ASSUME TInv, UNCHANGED <<task, redeemed>>, NEW t \in Tokens,
         Phases[t] = "none", (Phases')[t] = "open",
         \A u \in Tokens \ {t} : (Phases')[u] = Phases[u]
  PROVE  Promised
  <1>1. \A x \in {"eager", "patient", "claimed"} : Holders(x)' = Holders(x)
    BY DEF Holders, Standing
  <1>2. Phases' = [Phases EXCEPT ![t] = "open"]
    BY PhasesSet
  <1>3. Redemption!Issue(t)
    BY <1>1, <1>2 DEF Redemption!Issue
  <1> QED
    BY <1>3 DEF Promised, Redemption!Next

LEMMA LapsePromised ==
  ASSUME TInv, UNCHANGED <<task, redeemed>>, NEW t \in Tokens,
         Phases[t] = "open", (Phases')[t] = "shut",
         \A u \in Tokens \ {t} : (Phases')[u] = Phases[u]
  PROVE  Promised
  <1>1. \A x \in {"eager", "patient", "claimed"} : Holders(x)' = Holders(x)
    BY DEF Holders, Standing
  <1>2. Phases' = [Phases EXCEPT ![t] = "shut"]
    BY PhasesSet
  <1>3. Redemption!Lapse(t)
    BY <1>1, <1>2 DEF Redemption!Lapse
  <1> QED
    BY <1>3 DEF Promised, Redemption!Next

LEMMA ResetTimes ==
  ASSUME TInv, UNCHANGED tenantVars, NEW t \in ResetTokens,
         ResetExpires(t) \/ \E e \in Emails : ResetRequest(e, t)
  PROVE  Promised
  <1>1. CASE ResetExpires(t)
    <2> DEFINE row == [resets[t] EXCEPT !.st = "expired"]
    <2>1. /\ resets[t] \in Reset /\ resets[t] # None /\ resets[t].st = "open"
          /\ resets' = [resets EXCEPT ![t] = row]
          /\ UNCHANGED <<invites, task, redeemed>>
      BY <1>1 DEF ResetExpires, TInv, TenantsTypeOK, AccountsTypeOK, tenantVars
    <2>2. row \in Reset /\ row.st = "expired"
      BY <2>1 DEF Reset, TokenState
    <2> HIDE DEF row
    <2>3. /\ t \in Tokens /\ Phases[t] = Phase(resets[t])
          /\ (Phases')[t] = Phase(row)
          /\ \A u \in Tokens \ {t} : (Phases')[u] = Phases[u]
      BY <2>1, <2>2, ResetRow
    <2>4. Phases[t] = "open" /\ (Phases')[t] = "shut"
      BY <2>1, <2>2, <2>3, NoneIsNoRow DEF Phase
    <2> QED
      BY <2>1, <2>3, <2>4, LapsePromised
  <1>2. CASE \E e \in Emails : ResetRequest(e, t)
    <2>1. PICK e \in Emails : ResetRequest(e, t)
      BY <1>2
    <2> DEFINE row == [e |-> e, st |-> "open"]
    <2>2. /\ resets[t] = None /\ resets' = [resets EXCEPT ![t] = row]
          /\ UNCHANGED <<invites, task, redeemed>>
      BY <2>1 DEF ResetRequest, tenantVars
    <2>3. row \in Reset /\ row.st = "open"
      BY DEF Reset, TokenState
    <2> HIDE DEF row
    <2>4. /\ t \in Tokens /\ Phases[t] = Phase(resets[t])
          /\ (Phases')[t] = Phase(row)
          /\ \A u \in Tokens \ {t} : (Phases')[u] = Phases[u]
      BY <2>2, <2>3, ResetRow
    <2>5. Phases[t] = "none" /\ (Phases')[t] = "open"
      BY <2>2, <2>3, <2>4, NoneIsNoRow DEF Phase
    <2> QED
      BY <2>2, <2>4, <2>5, IssuePromised
  <1> QED
    BY <1>1, <1>2

LEMMA InviteTimes ==
  ASSUME TInv, NEW t \in InviteTokens,
         \/ InviteExpires(t)
         \/ \E o \in OrgIds, e \in Emails, r \in Roles : InviteMember(t, o, e, r)
  PROVE  Promised
  <1>1. CASE InviteExpires(t)
    <2> DEFINE row == [invites[t] EXCEPT !.st = "expired"]
    <2>1. /\ invites[t] \in Invite /\ invites[t] # None /\ invites[t].st = "open"
          /\ invites' = [invites EXCEPT ![t] = row]
          /\ UNCHANGED <<resets, task, redeemed>>
      BY <1>1 DEF InviteExpires, TInv, TenantsTypeOK, accountVars
    <2>2. row \in Invite /\ row.st = "expired"
      BY <2>1 DEF Invite, TokenState
    <2> HIDE DEF row
    <2>3. /\ t \in Tokens /\ Phases[t] = Phase(invites[t])
          /\ (Phases')[t] = Phase(row)
          /\ \A u \in Tokens \ {t} : (Phases')[u] = Phases[u]
      BY <2>1, <2>2, InvitePhase
    <2>4. Phases[t] = "open" /\ (Phases')[t] = "shut"
      BY <2>1, <2>2, <2>3, NoneIsNoInvite DEF Phase
    <2> QED
      BY <2>1, <2>3, <2>4, LapsePromised
  <1>2. CASE \E o \in OrgIds, e \in Emails, r \in Roles : InviteMember(t, o, e, r)
    <2>1. PICK o \in OrgIds, e \in Emails, r \in Roles : InviteMember(t, o, e, r)
      BY <1>2
    <2> DEFINE row == [e |-> e, o |-> o, r |-> r, st |-> "open"]
    <2>2. /\ invites[t] = None /\ invites' = [invites EXCEPT ![t] = row]
          /\ UNCHANGED <<resets, task, redeemed>>
      BY <2>1 DEF InviteMember, accountRows
    <2>3. row \in Invite /\ row.st = "open"
      BY <2>1 DEF InviteMember, Invitable, Roles, Invite, TokenState
    <2> HIDE DEF row
    <2>4. /\ t \in Tokens /\ Phases[t] = Phase(invites[t])
          /\ (Phases')[t] = Phase(row)
          /\ \A u \in Tokens \ {t} : (Phases')[u] = Phases[u]
      BY <2>2, <2>3, InvitePhase
    <2>5. Phases[t] = "none" /\ (Phases')[t] = "open"
      BY <2>2, <2>3, <2>4, NoneIsNoInvite DEF Phase
    <2> QED
      BY <2>2, <2>4, <2>5, IssuePromised
  <1> QED
    BY <1>1, <1>2

LEMMA DeletePromised ==
  ASSUME TInv, NEW o \in OrgIds, DeleteOrg(o)
  PROVE  Promised
  <1> DEFINE T == {t \in InviteTokens : invites[t] # None /\ invites[t].o = o}
             old == Phases
             new == Phases'
  <1>1. UNCHANGED <<resets, task, redeemed>>
    BY DEF DeleteOrg, accountRows
  <1>2. \A x \in {"eager", "patient", "claimed"} : Holders(x)' = Holders(x)
    BY <1>1 DEF Holders, Standing
  <1>3. \A t \in T : new[t] = "used" /\ old[t] # "none"
    <2> SUFFICES ASSUME NEW t \in T PROVE new[t] = "used" /\ old[t] # "none"
      OBVIOUS
    <2> DEFINE row == [invites[t] EXCEPT !.st = "gone"]
    <2>1. invites[t] \in Invite /\ invites[t] # None /\ invites'[t] = row
      BY DEF DeleteOrg, TInv, TenantsTypeOK
    <2>2. row \in Invite /\ row.st = "gone"
      BY <2>1 DEF Invite, TokenState
    <2> HIDE DEF row
    <2>3. t \in InviteTokens
      OBVIOUS
    <2> HIDE DEF T
    <2>4. new[t] = Phase(row) /\ old[t] = Phase(invites[t])
      BY <2>1, <2>3, PhaseIs DEF Phase
    <2> QED
      BY <2>1, <2>2, <2>4, NoneIsNoInvite DEF Phase
  <1>4. \A t \in Tokens \ T : new[t] = old[t]
    <2> SUFFICES ASSUME NEW t \in Tokens \ T PROVE new[t] = old[t]
      OBVIOUS
    <2>1. CASE t \in ResetTokens
      BY <1>1, <2>1, PhaseIs DEF Phase
    <2>2. CASE t \in InviteTokens
      <3>1. invites'[t] = invites[t]
        BY <2>2 DEF DeleteOrg
      <3> QED
        BY <2>2, <3>1, PhaseIs DEF Phase
    <2> QED
      BY <2>1, <2>2 DEF Tokens
  <1>5. T \in SUBSET Tokens
    BY DEF Tokens
  <1>6. new = [t \in Tokens |-> new[t]]
    BY DEF Phases
  <1>7. new = [t \in Tokens |-> IF t \in T THEN "used" ELSE old[t]]
    <2> HIDE DEF new, old, T
    <2> QED
      BY <1>3, <1>4, <1>5, <1>6
  <1> HIDE DEF T
  <1>8. Redemption!UseUp(T)
    BY <1>1, <1>2, <1>3, <1>7 DEF Redemption!UseUp
  <1> QED
    BY <1>5, <1>8 DEF Promised, Redemption!Next

LEMMA PromisedStep ==
  ASSUME TInv, [Next]_vars
  PROVE  Promised
  <1>1. CASE UNCHANGED TokenRows
    <2>1. CASE UNCHANGED task
      <3>1. /\ Phases' = Phases /\ UNCHANGED redeemed
        BY <1>1, PhasesKept DEF TokenRows
      <3>2. \A x \in {"eager", "patient", "claimed"} : Holders(x)' = Holders(x)
        BY <2>1 DEF Holders, Standing
      <3> QED
        BY <3>1, <3>2 DEF Promised, Redemption!vars
    <2>2. ASSUME NEW s \in Slots, AccountStep(s)
          PROVE  Promised
      BY <1>1, <2>2, AccountPromised
    <2>3. ASSUME NEW s \in Slots, Handlers(s)
          PROVE  Promised
      BY <1>1, <2>3, StartsPromised, ProvisionsPromised, ProceedsPromised,
         ConsumePromised, AddMemberPromised DEF Handlers
    <2> QED
      BY <2>1, <2>2, <2>3, BackgroundMoves
  <1> QED
    BY <1>1, TokenSteps, ResetConsumePromised, ResetUpdatePromised, ResetTimes,
       ConsumePromised, AddMemberPromised, DeletePromised, InviteTimes

\* Password resets and invitations implement the one-time token: the code lets
\* nobody in with one that lapsed or was used, and gives each that was let in
\* what the token is for at most once.  Before the conditional update of
\* used_at a reset has written its password and an invitation accepted with a
\* password its member, so several of those may get it; an OAuth login comes
\* to add_org_member only as the one whose update found used_at empty.
THEOREM TokensRedeemedOnce == Spec => RedeemedOnce
  <1>1. Init => Redemption!Init
    <2> SUFFICES ASSUME Init PROVE Redemption!Init
      OBVIOUS
    <2>1. /\ resets = [t \in ResetTokens |-> None]
          /\ invites = [t \in InviteTokens |-> None]
          /\ task = [s \in Slots |-> Idle]
          /\ redeemed = [t \in Tokens |-> 0]
      BY DEF Init
    <2>2. Phases = [t \in Tokens |-> "none"]
      <3>1. \A t \in Tokens :
              (IF t \in ResetTokens THEN resets[t] ELSE invites[t]) = None
        BY <2>1 DEF Tokens
      <3> QED
        BY <3>1 DEF Phases, Phase
    <2>3. \A x \in {"eager", "patient", "claimed"} : Holders(x) = {}
      <3>1. \A s \in Slots : Standing(task[s]) = "none"
        BY <2>1 DEF Standing, Idle
      <3> QED
        BY <3>1 DEF Holders
    <2> QED
      BY <2>1, <2>2, <2>3 DEF Redemption!Init
  <1>2. TInv /\ [Next]_vars => [Redemption!Next]_Redemption!vars
    BY PromisedStep DEF Promised
  <1> QED
    BY <1>1, <1>2, TInvariant, PTL DEF Spec, RedeemedOnce, Redemption!Spec

----------------------------------------------------------------------------
(* An OAuth login joins as the one request that consumed the invitation *)

Joined(s) == task[s].op = "join" /\ task[s].pc \in {"add", "session"}

JoinedOnce ==
  \A s \in Slots : Joined(s) =>
    /\ invites[task[s].t].st \in {"used", "gone"}
    /\ \A s2 \in Slots \ {s} : Joined(s2) => task[s2].t # task[s].t

\* An invitation is never deleted, keeps its terms, and stays used.
LEMMA InvitesStay ==
  ASSUME TInv, [Next]_vars, NEW t \in InviteTokens, invites[t] # None
  PROVE  /\ invites'[t] # None
         /\ invites'[t].o = invites[t].o /\ invites'[t].e = invites[t].e
         /\ invites[t].st \in {"used", "gone"} =>
              invites'[t].st \in {"used", "gone"}
  <1> DEFINE Kept ==
        /\ invites'[t] # None
        /\ invites'[t].o = invites[t].o /\ invites'[t].e = invites[t].e
        /\ invites[t].st \in {"used", "gone"} =>
             invites'[t].st \in {"used", "gone"}
  <1>1. invites[t] \in Invite
    BY DEF TInv, TenantsTypeOK
  <1>2. ASSUME NEW st \in TokenState \ {"none"},
               invites'[t] = [invites[t] EXCEPT !.st = st],
               invites[t].st = "open" \/ st \in {"used", "gone"}
        PROVE  Kept
    <2>1. [invites[t] EXCEPT !.st = st] \in Invite
      BY <1>1 DEF Invite
    <2> QED
      BY <1>1, <1>2, <2>1, NoneIsNoInvite DEF Invite
  <1>3. \/ invites'[t] = invites[t]
        \/ invites'[t] = [invites[t] EXCEPT !.st = "used"]
        \/ invites'[t] = [invites[t] EXCEPT !.st = "gone"]
        \/ /\ invites'[t] = [invites[t] EXCEPT !.st = "expired"]
           /\ invites[t].st = "open"
    <2>1. invites \in [InviteTokens -> Invite \cup {None}]
      BY DEF TInv, TenantsTypeOK
    <2>2. CASE UNCHANGED invites
      BY <2>2
    <2>3. CASE \E s \in Slots : Consume(s) \/ AddMember(s)
      BY <2>1, <2>3 DEF Consume, AddMember
    <2>4. CASE \E o \in OrgIds : DeleteOrg(o)
      BY <2>1, <2>4 DEF DeleteOrg
    <2>5. CASE \E u \in InviteTokens, o \in OrgIds, e \in Emails, r \in Roles :
                 InviteMember(u, o, e, r)
      BY <2>1, <2>5 DEF InviteMember
    <2>6. CASE \E u \in InviteTokens : InviteExpires(u)
      BY <2>1, <2>6 DEF InviteExpires
    <2> QED
      BY <2>2, <2>3, <2>4, <2>5, <2>6, TokenSteps DEF TokenRows, tenantVars
  <1> QED
    BY <1>1, <1>2, <1>3 DEF TokenState

LEMMA JoinToken ==
  ASSUME TInv, NEW s \in Slots, task[s].op = "join"
  PROVE  task[s].t \in InviteTokens /\ invites[task[s].t] # None
  BY DEF TInv, Working, HasInvite

\* How a handler gets there.
LEMMA BecomesJoined ==
  ASSUME TInv, NEW s \in Slots, Handlers(s), Joined(s)'
  PROVE  /\ task[s].op = "join" /\ task'[s].t = task[s].t
         /\ \/ Joined(s)
            \/ /\ InviteUnused(task[s].t)
               /\ invites'[task[s].t].st \in {"used", "gone"}
  <1>1. Advances(s) /\ task'[s].op = "join" /\ task'[s].pc \in {"add", "session"}
    BY HandlerMoves DEF Joined
  <1>2. /\ task[s].op = "join" /\ task'[s].t = task[s].t
        /\ Provisions(s) \/ Proceeds(s)
    BY <1>1 DEF Advances, Begun, Idle
  <1>3. task[s].t \in InviteTokens /\ invites[task[s].t] # None
    BY <1>2, JoinToken
  <1>4. CASE Provisions(s)
    <2>1. Working(s)
      BY DEF TInv
    <2> QED
      BY <1>1, <1>2, <1>4, <2>1 DEF Provisions, Working, Carries
  <1>5. CASE /\ InviteUnused(task[s].t)
             /\ invites' = [invites EXCEPT ![task[s].t].st = "used"]
    <2> DEFINE t == task[s].t
    <2>1. invites \in [InviteTokens -> Invite \cup {None}] /\ invites[t] \in Invite
      BY <1>3 DEF TInv, TenantsTypeOK
    <2>2. invites'[t] = [invites[t] EXCEPT !.st = "used"]
      BY <1>3, <1>5, <2>1
    <2>3. invites'[t].st = "used"
      BY <2>1, <2>2 DEF Invite
    <2> QED
      BY <1>2, <1>5, <2>3
  <1>6. CASE AddMember(s) /\ task[s].pc = "add"
    BY <1>2, <1>6 DEF Joined
  <1> QED
    BY <1>1, <1>2, <1>4, <1>5, <1>6 DEF Proceeds

LEMMA JoinedStep ==
  ASSUME TInv, JoinedOnce, [Next]_vars
  PROVE  JoinedOnce'
  <1> DEFINE Used(t) == invites[t].st \in {"used", "gone"}
             Uses(t) == invites'[t].st \in {"used", "gone"}
  <1>0. ASSUME NEW r \in Slots, Joined(r)
        PROVE  Used(task[r].t) /\ Uses(task[r].t)
    <2>1. task[r].t \in InviteTokens /\ invites[task[r].t] # None
      BY <1>0, JoinToken DEF Joined
    <2>2. Used(task[r].t)
      BY <1>0 DEF JoinedOnce
    <2> QED
      BY <2>1, <2>2, InvitesStay
  <1> HIDE DEF Used, Uses
  <1>1. ASSUME NEW s \in Slots, Handlers(s)
        PROVE  JoinedOnce'
    <2>1. Others(s)
      BY <1>1, HandlerMoves
    <2>2. ASSUME NEW r \in Slots \ {s}, Joined(r)'
          PROVE  /\ Joined(r) /\ task'[r].t = task[r].t
                 /\ Used(task[r].t) /\ Uses(task[r].t)
      BY <1>0, <2>1, <2>2 DEF Others, Joined
    <2>3. ASSUME Joined(s)'
          PROVE  /\ task'[s].t = task[s].t /\ Uses(task[s].t)
                 /\ \A r \in Slots \ {s} : Joined(r)' => task[r].t # task[s].t
      <3>1. /\ task'[s].t = task[s].t
            /\ Joined(s) \/ (~Used(task[s].t) /\ Uses(task[s].t))
        BY <1>1, <2>3, BecomesJoined DEF InviteUnused, Used, Uses
      <3>2. CASE Joined(s)
        BY <1>0, <2>2, <3>1, <3>2 DEF JoinedOnce
      <3>3. CASE ~Used(task[s].t) /\ Uses(task[s].t)
        BY <2>2, <3>1, <3>3
      <3> QED
        BY <3>1, <3>2, <3>3
    <2>4. ASSUME NEW r \in Slots, Joined(r)'
          PROVE  Uses(task'[r].t)
      BY <2>2, <2>3, <2>4
    <2>5. ASSUME NEW r \in Slots, NEW r2 \in Slots \ {r}, Joined(r)', Joined(r2)'
          PROVE  task'[r2].t # task'[r].t
      <3>1. CASE r = s
        BY <2>2, <2>3, <2>5, <3>1
      <3>2. CASE r2 = s
        BY <2>2, <2>3, <2>5, <3>2
      <3>3. CASE r # s /\ r2 # s
        <4>1. /\ Joined(r) /\ Joined(r2)
              /\ task'[r].t = task[r].t /\ task'[r2].t = task[r2].t
          BY <2>2, <2>5, <3>3
        <4> QED
          BY <2>5, <4>1 DEF JoinedOnce
      <3> QED
        BY <3>1, <3>2, <3>3
    <2> QED
      BY <2>4, <2>5 DEF JoinedOnce, Uses
  <1>2. ASSUME \A r \in Slots : Joined(r)' => Joined(r) /\ task'[r].t = task[r].t
        PROVE  JoinedOnce'
    <2>1. ASSUME NEW r \in Slots, Joined(r)'
          PROVE  /\ Joined(r) /\ task'[r].t = task[r].t
                 /\ Uses(task'[r].t)
      BY <1>0, <1>2, <2>1
    <2>2. ASSUME NEW r \in Slots, NEW r2 \in Slots \ {r}, Joined(r)', Joined(r2)'
          PROVE  task'[r2].t # task'[r].t
      BY <2>1, <2>2 DEF JoinedOnce
    <2> QED
      BY <2>1, <2>2 DEF JoinedOnce, Uses
  <1>3. CASE UNCHANGED task
    BY <1>2, <1>3 DEF Joined
  <1>4. ASSUME NEW s \in Slots, AccountStep(s)
        PROVE  JoinedOnce'
    <2>1. ~Joined(s)' /\ Others(s)
      BY <1>4, AccountMoves DEF Joined, AccountOps, Idle
    <2> QED
      BY <1>2, <2>1 DEF Others, Joined
  <1> QED
    BY <1>1, <1>3, <1>4, BackgroundMoves

LEMMA JoinedInit == Init => JoinedOnce
  BY DEF Init, JoinedOnce, Joined, Idle

\* An OAuth callback that adds a member has consumed its invitation, and no
\* other callback has: apply_invitation_oauth marks the invitation used before
\* it writes the membership.
THEOREM JoinsConsume == Spec => []ConsumedBeforeJoin
  <1>1. TInv /\ JoinedOnce /\ [Next]_vars => JoinedOnce'
    BY JoinedStep
  <1>2. TInv /\ JoinedOnce => ConsumedBeforeJoin
    <2> SUFFICES ASSUME TInv, JoinedOnce, NEW s \in Slots, Joined(s)
                 PROVE  /\ invites[task[s].t].st \in {"used", "gone"}
                        /\ \A s2 \in Slots \ {s} :
                             task[s2].t = task[s].t =>
                               task[s2].pc \notin {"add", "session"}
                                 \/ task[s2].op = "accept"
      BY DEF ConsumedBeforeJoin, Joined
    <2>1. task[s].t \in InviteTokens
      BY JoinToken DEF Joined
    <2>2. ASSUME NEW s2 \in Slots \ {s}, task[s2].t = task[s].t,
                 task[s2].pc \in {"add", "session"}
          PROVE  task[s2].op = "accept"
      <3>1. task[s2].op # "join"
        BY <2>2 DEF JoinedOnce, Joined
      <3>2. task[s2].op \in {"reset", "accept", "join"}
        BY <2>1, <2>2, AccountsAssumption DEF TInv, Working, Carries
      <3>3. task[s2].op # "reset"
        BY <2>1, <2>2, AccountsAssumption DEF TInv, Working, HasReset
      <3> QED
        BY <3>1, <3>2, <3>3
    <2> QED
      BY <2>2 DEF JoinedOnce
  <1> QED
    BY <1>1, <1>2, TInvariant, JoinedInit, PTL DEF Spec

----------------------------------------------------------------------------
(* Members are founders or invited *)

OrgRows == <<mode, orgs, members, founder>>

LEMMA OrgSteps ==
  ASSUME [Next]_vars
  PROVE  \/ UNCHANGED OrgRows
         \/ \E s \in Slots : MemberWrite(s) \/ AddMember(s) \/ CreateOrganization(s)
         \/ \E o \in OrgIds : DeleteOrg(o)
         \/ \E o \in OrgIds, e \in Emails : TransferOrgOwner(o, e)
  <1>1. CASE AccountsNext /\ UNCHANGED tenantVars
    BY <1>1 DEF tenantVars, OrgRows
  <1>2. CASE UNCHANGED vars
    BY <1>2 DEF vars, OrgRows
  <1>3. CASE Management
    BY <1>3 DEF Management, CreateApp, DeleteApp, InviteMember, InviteExpires, OrgRows
  <1>4. ASSUME NEW s \in Slots, Handlers(s)
        PROVE  UNCHANGED OrgRows \/ MemberWrite(s) \/ AddMember(s)
                 \/ CreateOrganization(s)
    <2>1. CASE \/ \E x \in SessionIds : CreateOrg(s, x)
               \/ \E o \in OrgIds, e \in Emails :
                    \/ \E r \in Roles : PatchMember(s, o, e, r)
                    \/ RemoveMember(s, o, e)
      BY <2>1 DEF CreateOrg, PatchMember, RemoveMember, OrgRows, tenantVars
    <2>2. CASE \/ \E t \in InviteTokens, p \in Passwords : AcceptStart(s, t, p)
               \/ \E e \in Emails, p \in Passwords : SignupStart(s, e, p)
               \/ \E i \in Idents, e \in Emails :
                    \/ OAuthStart(s, i, e)
                    \/ \E t \in InviteTokens : OAuthJoinStart(s, i, e, t)
      BY <2>2 DEF AcceptStart, SignupStart, OAuthStart, OAuthJoinStart, OrgRows,
                  tenantVars
    <2>3. CASE \/ AcceptRead(s) \/ Consume(s) \/ OAuthFound(s) \/ OAuthByEmail(s)
               \/ OAuthLink(s) \/ CreateUser(s)
      BY <2>3 DEF AcceptRead, Consume, OAuthFound, OAuthByEmail, OAuthLink,
                  CreateUser, OrgRows, tenantVars
    <2>4. CASE CreateDefaultApp(s) \/ FinishLogin(s)
      BY <2>4 DEF CreateDefaultApp, FinishLogin, OrgRows, tenantVars
    <2> QED
      BY <1>4, <2>1, <2>2, <2>3, <2>4 DEF Handlers
  <1> QED
    BY <1>1, <1>2, <1>3, <1>4 DEF Next

\* What a membership is added with.
LEMMA AddedMember ==
  ASSUME TInv, NEW s \in Slots, AddMember(s)
  PROVE  LET k == task[s] IN
         /\ k.o \in OrgIds /\ k.e \in Emails /\ users[k.e] # None /\ k.pc = "add"
         /\ k.op \in {"signup", "oauth", "join", "accept", "org"}
         /\ k.op \in {"signup", "oauth", "org"} => k.r = "owner"
         /\ k.op \in {"join", "accept"} =>
              /\ k.t \in InviteTokens /\ invites[k.t] # None
              /\ invites[k.t].o = k.o
              /\ invites[k.t].e = k.e \/ <<k.t, k.e>> \in vouched
              /\ k.r \in {"admin", "member"}
         /\ \/ UNCHANGED <<members, founder>>
            \/ /\ members[k.o][k.e] = None /\ k.o \in orgs
               /\ members' = [members EXCEPT ![k.o][k.e] = k.r]
               /\ founder' = IF k.op \in {"signup", "oauth", "org"}
                             THEN [founder EXCEPT ![k.o] = founder[k.o] \cup {k.e}]
                             ELSE founder
         /\ UNCHANGED <<users, invites, vouched, mode, orgs>>
  <1> DEFINE k == task[s]
  <1>1. Working(s) /\ k.pc = "add"
    BY DEF TInv, AddMember
  <1>2. /\ k.o \in OrgIds /\ k.e \in Emails /\ users[k.e] # None
        /\ k.op \in {"signup", "oauth", "join", "accept", "org"}
        /\ k.op \in {"signup", "oauth", "org"} => k.r = "owner"
    BY <1>1 DEF Working, HasAccount, Carries
  <1>3. k.op \in {"join", "accept"} =>
          /\ k.t \in InviteTokens /\ invites[k.t] # None
          /\ invites[k.t].o = k.o
          /\ invites[k.t].e = k.e \/ <<k.t, k.e>> \in vouched
          /\ k.r \in {"admin", "member"}
    BY <1>1, InviteRow DEF Working, HasInvite
  <1>4. /\ \/ UNCHANGED <<members, founder>>
           \/ /\ members[k.o][k.e] = None /\ k.o \in orgs
              /\ members' = [members EXCEPT ![k.o][k.e] = k.r]
              /\ founder' = IF k.op \in {"signup", "oauth", "org"}
                            THEN [founder EXCEPT ![k.o] = founder[k.o] \cup {k.e}]
                            ELSE founder
        /\ UNCHANGED <<users, invites, vouched, mode, orgs>>
    BY DEF AddMember, accountRows
  <1> QED
    BY <1>1, <1>2, <1>3, <1>4

\* A membership written by AddMember is the only one that changes.
LEMMA OneMember ==
  ASSUME TInv, NEW o \in OrgIds, NEW e \in Emails, NEW r \in Roles \cup {None},
         members' = [members EXCEPT ![o][e] = r]
  PROVE  /\ members'[o][e] = r
         /\ \A p \in OrgIds, f \in Emails :
              ~(p = o /\ f = e) => members'[p][f] = members[p][f]
  <1>1. /\ members \in [OrgIds -> [Emails -> Roles \cup {None}]]
        /\ members' = [members EXCEPT ![o] = [members[o] EXCEPT ![e] = r]]
    BY DEF TInv, TenantsTypeOK
  <1> QED
    BY <1>1

\* What MembersInvited says of someone who did not found the organization.
Invited(o, e) ==
  \E t \in InviteTokens :
    /\ invites[t] # None /\ invites[t].o = o
    /\ invites[t].e = e \/ <<t, e>> \in vouched

LEMMA VouchedStays ==
  ASSUME TInv, [Next]_vars
  PROVE  vouched \subseteq vouched'
  <1>1. CASE \E s \in Slots : OAuthFound(s)
    BY <1>1 DEF OAuthFound
  <1>2. CASE UNCHANGED vouched
    BY <1>2
  <1>3. ASSUME NEW s \in Slots, Handlers(s), ~OAuthFound(s)
        PROVE  UNCHANGED vouched
    <2>1. CASE \/ \E x \in SessionIds : CreateOrg(s, x)
               \/ \E o \in OrgIds, e \in Emails :
                    \/ \E r \in Roles : PatchMember(s, o, e, r)
                    \/ RemoveMember(s, o, e)
      BY <2>1 DEF CreateOrg, PatchMember, RemoveMember, tenantVars
    <2>2. CASE \/ \E t \in InviteTokens, p \in Passwords : AcceptStart(s, t, p)
               \/ \E e \in Emails, p \in Passwords : SignupStart(s, e, p)
               \/ \E i \in Idents, e \in Emails :
                    \/ OAuthStart(s, i, e)
                    \/ \E t \in InviteTokens : OAuthJoinStart(s, i, e, t)
      BY <2>2 DEF AcceptStart, SignupStart, OAuthStart, OAuthJoinStart, tenantVars
    <2>3. CASE \/ MemberWrite(s) \/ AcceptRead(s) \/ Consume(s)
               \/ OAuthByEmail(s) \/ OAuthLink(s) \/ CreateUser(s)
      BY <2>3 DEF MemberWrite, AcceptRead, Consume, OAuthByEmail, OAuthLink,
                  CreateUser, tenantVars
    <2>4. CASE \/ CreateOrganization(s) \/ AddMember(s) \/ CreateDefaultApp(s)
               \/ FinishLogin(s)
      BY <2>4 DEF CreateOrganization, AddMember, CreateDefaultApp, FinishLogin,
                  tenantVars
    <2> QED
      BY <1>3, <2>1, <2>2, <2>3, <2>4 DEF Handlers
  <1>4. CASE Management
    BY <1>4 DEF Management, DeleteOrg, CreateApp, DeleteApp, TransferOrgOwner,
                InviteMember, InviteExpires
  <1>5. CASE UNCHANGED tenantVars \/ UNCHANGED vars
    BY <1>5 DEF tenantVars, vars
  <1> QED
    BY <1>1, <1>2, <1>3, <1>4, <1>5 DEF Next

LEMMA MembersInvitedStep ==
  ASSUME TInv, MembersInvited, [Next]_vars
  PROVE  MembersInvited'
  <1>1. SUFFICES ASSUME NEW o \in OrgIds, NEW e \in Emails, members'[o][e] # None
                 PROVE  e \in founder'[o] \/ Invited(o, e)'
    BY DEF MembersInvited, Invited
  <1>2. ASSUME members[o][e] # None, founder[o] \subseteq founder'[o]
        PROVE  e \in founder'[o] \/ Invited(o, e)'
    BY <1>2, InvitesStay, VouchedStays DEF MembersInvited, Invited
  <1>3. CASE UNCHANGED OrgRows
    BY <1>1, <1>2, <1>3 DEF OrgRows
  <1>4. ASSUME NEW s \in Slots, CreateOrganization(s)
        PROVE  members[o][e] # None /\ founder[o] \subseteq founder'[o]
    BY <1>1, <1>4 DEF CreateOrganization
  <1>5. ASSUME NEW s \in Slots, MemberWrite(s)
        PROVE  members[o][e] # None /\ founder[o] \subseteq founder'[o]
    <2> DEFINE k == task[s]
               r == IF members[k.o][k.e] = None THEN None ELSE k.r
    <2>1. /\ k.o \in OrgIds /\ k.e \in Emails /\ k \in Task
          /\ members' = [members EXCEPT ![k.o][k.e] = r] /\ UNCHANGED founder
      BY <1>5 DEF MemberWrite, At, TInv, TenantsTypeOK, AccountsTypeOK, Working,
                  Carries, HasAccount
    <2>2. r \in Roles \cup {None} /\ (r # None => members[k.o][k.e] # None)
      BY <2>1 DEF Task
    <2> HIDE DEF r
    <2> QED
      BY <1>1, <2>1, <2>2, OneMember
  <1>6. ASSUME NEW p \in OrgIds, DeleteOrg(p)
        PROVE  members[o][e] # None /\ founder[o] \subseteq founder'[o]
    BY <1>1, <1>6 DEF DeleteOrg, NoMembers, TInv, TenantsTypeOK
  <1>7. ASSUME NEW p \in OrgIds, NEW f \in Emails, TransferOrgOwner(p, f)
        PROVE  members[o][e] # None /\ founder[o] \subseteq founder'[o]
    <2>1. CASE p = o
      BY <1>1, <1>7, <2>1, AccountsAssumption DEF TransferOrgOwner, TInv, TenantsTypeOK
    <2>2. CASE p # o
      BY <1>1, <1>7, <2>2 DEF TransferOrgOwner, TInv, TenantsTypeOK
    <2> QED
      BY <2>1, <2>2
  <1>8. ASSUME NEW s \in Slots, AddMember(s)
        PROVE  e \in founder'[o] \/ Invited(o, e)'
    <2> DEFINE k == task[s]
    <2>1. CASE UNCHANGED <<members, founder>>
      BY <1>1, <1>2, <2>1
    <2>2. CASE /\ members' = [members EXCEPT ![k.o][k.e] = k.r]
               /\ founder' = IF k.op \in {"signup", "oauth", "org"}
                             THEN [founder EXCEPT ![k.o] = founder[k.o] \cup {k.e}]
                             ELSE founder
      <3>1. /\ k.o \in OrgIds /\ k.e \in Emails /\ k.r \in Roles
            /\ \/ k.op \in {"signup", "oauth", "org"}
               \/ o = k.o /\ e = k.e => Invited(o, e)'
        <4>1. /\ k.o \in OrgIds /\ k.e \in Emails
              /\ k.op \in {"signup", "oauth", "join", "accept", "org"}
              /\ k.op \in {"signup", "oauth", "org"} => k.r = "owner"
              /\ k.op \in {"join", "accept"} =>
                   /\ k.t \in InviteTokens /\ invites'[k.t] # None
                   /\ invites'[k.t].o = k.o
                   /\ invites'[k.t].e = k.e \/ <<k.t, k.e>> \in vouched'
                   /\ k.r \in {"admin", "member"}
          BY <1>8, AddedMember
        <4>2. ASSUME k.op \in {"join", "accept"}, o = k.o, e = k.e
              PROVE  Invited(o, e)'
          BY <4>1, <4>2 DEF Invited
        <4> QED
          BY <4>1, <4>2 DEF Roles
      <3>2. /\ founder[o] \subseteq founder'[o]
            /\ k.op \in {"signup", "oauth", "org"} => k.e \in founder'[k.o]
        BY <2>2, <3>1 DEF TInv, TenantsTypeOK
      <3>3. CASE o = k.o /\ e = k.e
        BY <3>1, <3>2, <3>3
      <3>4. CASE ~(o = k.o /\ e = k.e)
        <4>1. members[o][e] # None
          BY <1>1, <2>2, <3>1, <3>4, OneMember
        <4> QED
          BY <1>2, <3>2, <4>1
      <3> QED
        BY <3>3, <3>4
    <2> QED
      BY <1>8, <2>1, <2>2, AddedMember
  <1> QED
    BY <1>2, <1>3, <1>4, <1>5, <1>6, <1>7, <1>8, OrgSteps

LEMMA MembersInvitedInit == Init => MembersInvited
  BY DEF Init, MembersInvited

\* Nobody is a member of an organization that neither was created for them nor
\* invited them: the account that joins has the address the invitation was
\* mailed to, or an OAuth identity whose provider gave that address for it when
\* the invitation was taken up, whatever address the account was made with.
THEOREM MembersAreInvited == Spec => []MembersInvited
  <1>1. TInv /\ MembersInvited /\ [Next]_vars => MembersInvited'
    BY MembersInvitedStep
  <1> QED
    BY <1>1, TInvariant, MembersInvitedInit, PTL DEF Spec

----------------------------------------------------------------------------
(* The lockout *)

\* Logins that are past the lockout check and may yet record a failure.
Guessing(e) ==
  {s \in Slots : task[s].op = "login" /\ task[s].pc \in {"read", "fail"}
                   /\ task[s].e = e}

GuessesCounted ==
  \A e \in Emails :
    fails[e] + Cardinality(Guessing(e)) <= MaxFails - 1 + Cardinality(Slots)

LEMMA GuessingFinite ==
  ASSUME TInv, NEW e \in Emails
  PROVE  /\ IsFiniteSet(Guessing(e)) /\ Cardinality(Guessing(e)) \in Nat
         /\ Cardinality(Guessing(e)) <= Cardinality(Slots)
         /\ fails[e] \in Nat /\ Cardinality(Slots) \in Nat /\ MaxFails \in Nat \ {0}
  <1>1. Guessing(e) \subseteq Slots /\ IsFiniteSet(Slots)
    BY AccountsAssumption DEF Guessing
  <1> QED
    BY <1>1, AccountsAssumption, FS_Subset, FS_CardinalityType
    DEF TInv, TenantsTypeOK, AccountsTypeOK

\* A step that records no failure and lets nobody past the check.
LEMMA NoGuess ==
  ASSUME TInv, GuessesCounted, NEW e \in Emails, fails'[e] \in Nat,
         fails'[e] <= fails[e], Guessing(e)' \subseteq Guessing(e)
  PROVE  fails'[e] + Cardinality(Guessing(e)') <= MaxFails - 1 + Cardinality(Slots)
  <1>1. /\ Cardinality(Guessing(e)') <= Cardinality(Guessing(e))
        /\ Cardinality(Guessing(e)') \in Nat
    BY GuessingFinite, FS_Subset, FS_CardinalityType
  <1>2. fails[e] + Cardinality(Guessing(e)) <= MaxFails - 1 + Cardinality(Slots)
    BY DEF GuessesCounted
  <1> QED
    BY <1>1, <1>2, GuessingFinite

\* Every handler but these records nothing and begins no login.
LEMMA GuessSteps ==
  ASSUME TInv, [Next]_vars
  PROVE  \/ /\ UNCHANGED fails
            /\ \A r \in Slots : task'[r] = task[r]
                 \/ task'[r].op # "login" \/ task'[r].pc \notin {"read", "fail"}
         \/ \E s \in Slots, e \in Emails, p \in Passwords : LoginStart(s, e, p)
         \/ \E s \in Slots : LoginRead(s) \/ LoginFail(s)
         \/ \E e \in Emails : AttemptAges(e)
  <1> DEFINE Quiet ==
               /\ UNCHANGED fails
               /\ \A r \in Slots : task'[r] = task[r]
                    \/ task'[r].op # "login" \/ task'[r].pc \notin {"read", "fail"}
  <1>1. CASE UNCHANGED vars
    BY <1>1 DEF vars
  <1>2. CASE Background
    BY <1>2 DEF Background, Logout, RevokeSession, SessionExpired, ResetRequest,
                ResetExpires
  <1>3. CASE Management
    BY <1>3 DEF Management, DeleteOrg, CreateApp, DeleteApp, TransferOrgOwner,
                InviteMember, InviteExpires, accountRows, accountVars
  <1>4. ASSUME NEW s \in Slots, Handlers(s)
        PROVE  Quiet
    <2>1. UNCHANGED fails
      <3>1. CASE \/ \E x \in SessionIds : CreateOrg(s, x)
                 \/ \E o \in OrgIds, e \in Emails :
                      \/ \E r \in Roles : PatchMember(s, o, e, r)
                      \/ RemoveMember(s, o, e)
        BY <3>1 DEF CreateOrg, PatchMember, RemoveMember, accountRows
      <3>2. CASE \/ \E t \in InviteTokens, p \in Passwords : AcceptStart(s, t, p)
                 \/ \E e \in Emails, p \in Passwords : SignupStart(s, e, p)
                 \/ \E i \in Idents, e \in Emails :
                      \/ OAuthStart(s, i, e)
                      \/ \E t \in InviteTokens : OAuthJoinStart(s, i, e, t)
        BY <3>2 DEF AcceptStart, SignupStart, OAuthStart, OAuthJoinStart, accountRows
      <3>3. CASE \/ AcceptRead(s) \/ Consume(s) \/ OAuthFound(s) \/ OAuthByEmail(s)
                 \/ OAuthLink(s) \/ CreateUser(s)
        BY <3>3 DEF AcceptRead, Consume, OAuthFound, OAuthByEmail, OAuthLink,
                    CreateUser, accountRows
      <3>4. CASE \/ MemberWrite(s) \/ CreateOrganization(s) \/ AddMember(s)
                 \/ CreateDefaultApp(s) \/ FinishLogin(s)
        BY <3>4 DEF MemberWrite, CreateOrganization, AddMember, CreateDefaultApp,
                    FinishLogin, accountRows
      <3> QED
        BY <1>4, <3>1, <3>2, <3>3, <3>4 DEF Handlers
    <2>2. Others(s) /\ task'[s].op # "login"
      BY <1>4, HandlerMoves DEF Advances, Begun, AccountOps, Idle
    <2> QED
      BY <2>1, <2>2 DEF Others
  <1>5. ASSUME NEW s \in Slots, AccountStep(s)
        PROVE  \/ Quiet
               \/ \E e \in Emails, p \in Passwords : LoginStart(s, e, p)
               \/ LoginRead(s) \/ LoginFail(s)
    <2>1. CASE \/ \E x \in SessionIds, p \in Passwords : PasswordStart(s, x, p)
               \/ \E t \in ResetTokens, p \in Passwords : ResetStart(s, t, p)
               \/ \E e \in Emails, r \in Roles \cup {None},
                     a \in {"keep", "on", "off"} : PatchUser(s, e, r, a)
               \/ \E e \in Emails : DeleteUser(s, e) \/ TransferStart(s, e)
      <3>1. \E new : Begin(s, new) /\ new.op # "login" /\ UNCHANGED fails
        BY <2>1 DEF PasswordStart, ResetStart, PatchUser, DeleteUser, WriteUser,
                    TransferStart, Idle
      <3> QED
        BY <3>1 DEF Begin, TInv, TenantsTypeOK, AccountsTypeOK
    <2>2. CASE \/ Abort(s) \/ LoginSession(s) \/ PasswordRevoke(s)
               \/ ResetRevoke(s) \/ UpdateUser(s) \/ TransferOwner(s)
      <3>1. End(s) /\ UNCHANGED fails
        BY <2>2 DEF Abort, LoginSession, PasswordRevoke, ResetRevoke, UpdateUser,
                    TransferOwner
      <3> QED
        BY <3>1, EndMoves DEF Others, Idle
    <2>3. CASE PasswordUpdate(s) \/ ResetUpdate(s) \/ ResetConsume(s)
      <3>1. /\ End(s) \/ Goto(s, "revoke") \/ Goto(s, "consume")
            /\ UNCHANGED fails
        BY <2>3 DEF PasswordUpdate, ResetUpdate, ResetConsume
      <3> QED
        BY <3>1, EndMoves, GotoMoves DEF Others, Idle
    <2> QED
      BY <1>5, <2>1, <2>2, <2>3 DEF AccountStep
  <1> QED
    BY <1>1, <1>2, <1>3, <1>4, <1>5 DEF Next, AccountsNext

LEMMA GuessesStep ==
  ASSUME TInv, GuessesCounted, [Next]_vars
  PROVE  GuessesCounted'
  <1> SUFFICES ASSUME NEW e \in Emails
               PROVE  fails'[e] + Cardinality(Guessing(e)')
                        <= MaxFails - 1 + Cardinality(Slots)
    BY DEF GuessesCounted
  <1>1. TInv'
    BY TStep
  <1>2. fails'[e] \in Nat
    BY <1>1 DEF TInv, TenantsTypeOK, AccountsTypeOK
  <1>3. CASE /\ UNCHANGED fails
             /\ \A r \in Slots : task'[r] = task[r]
                  \/ task'[r].op # "login" \/ task'[r].pc \notin {"read", "fail"}
    <2>1. Guessing(e)' \subseteq Guessing(e)
      BY <1>3 DEF Guessing
    <2> QED
      BY <1>2, <1>3, <2>1, GuessingFinite, NoGuess
  <1>4. CASE \E f \in Emails : AttemptAges(f)
    <2>1. Guessing(e)' \subseteq Guessing(e)
      BY <1>4 DEF AttemptAges, Guessing
    <2>2. fails'[e] <= fails[e]
      BY <1>4, GuessingFinite DEF AttemptAges, TInv, TenantsTypeOK, AccountsTypeOK
    <2> QED
      BY <1>2, <2>1, <2>2, NoGuess
  <1>5. ASSUME NEW s \in Slots, LoginRead(s)
        PROVE  UNCHANGED fails /\ Guessing(e)' \subseteq Guessing(e)
    <2>1. /\ Others(s) /\ task'[s].op = task[s].op /\ task'[s].e = task[s].e
          /\ task[s].op = "login" /\ task[s].pc = "read" /\ UNCHANGED fails
      BY <1>5, GotoMoves DEF LoginRead, At
    <2> QED
      BY <2>1 DEF Others, Guessing
  <1>6. ASSUME NEW s \in Slots, LoginFail(s)
        PROVE  fails'[e] + Cardinality(Guessing(e)')
                 <= MaxFails - 1 + Cardinality(Slots)
    <2>1. /\ Others(s) /\ task'[s] = Idle /\ task[s].op = "login"
          /\ task[s].pc = "fail"
          /\ fails' = [fails EXCEPT ![task[s].e] = fails[task[s].e] + 1]
      BY <1>6, EndMoves DEF LoginFail, At
    <2>2. CASE task[s].e = e
      <3>1. /\ Guessing(e)' = Guessing(e) \ {s} /\ s \in Guessing(e)
        BY <2>1, <2>2 DEF Others, Guessing, Idle
      <3>2. fails'[e] = fails[e] + 1
        BY <2>1, <2>2 DEF TInv, TenantsTypeOK, AccountsTypeOK
      <3>3. Cardinality(Guessing(e)') = Cardinality(Guessing(e)) - 1
        BY <3>1, GuessingFinite, FS_RemoveElement
      <3>4. fails[e] + Cardinality(Guessing(e)) <= MaxFails - 1 + Cardinality(Slots)
        BY DEF GuessesCounted
      <3> QED
        BY <3>2, <3>3, <3>4, GuessingFinite
    <2>3. CASE task[s].e # e
      <3>1. Guessing(e)' \subseteq Guessing(e)
        BY <2>1, <2>3 DEF Others, Guessing, Idle
      <3>2. fails'[e] <= fails[e]
        BY <2>1, <2>3, GuessingFinite DEF TInv, TenantsTypeOK, AccountsTypeOK
      <3> QED
        BY <1>2, <3>1, <3>2, NoGuess
    <2> QED
      BY <2>2, <2>3
  <1>7. ASSUME NEW s \in Slots, NEW f \in Emails, NEW p \in Passwords,
               LoginStart(s, f, p)
        PROVE  fails'[e] + Cardinality(Guessing(e)')
                 <= MaxFails - 1 + Cardinality(Slots)
    <2>1. /\ Others(s) /\ task'[s].e = f
          /\ fails[f] < MaxFails /\ UNCHANGED fails
      BY <1>7, GuessingFinite
      DEF LoginStart, LockedOut, Begin, Idle, Others, TInv, TenantsTypeOK,
          AccountsTypeOK
    <2>2. CASE e = f
      <3>1. /\ Cardinality(Guessing(e)') <= Cardinality(Slots)
            /\ Cardinality(Guessing(e)') \in Nat
        BY <1>1, AccountsAssumption, FS_Subset, FS_CardinalityType DEF Guessing
      <3> QED
        BY <2>1, <2>2, <3>1, GuessingFinite
    <2>3. CASE e # f
      <3>1. Guessing(e)' \subseteq Guessing(e)
        BY <2>1, <2>3 DEF Others, Guessing
      <3> QED
        BY <1>2, <2>1, <3>1, GuessingFinite, NoGuess
    <2> QED
      BY <2>2, <2>3
  <1> QED
    BY <1>2, <1>3, <1>4, <1>5, <1>6, <1>7, GuessSteps, NoGuess, GuessingFinite

\* However many logins run at the same time, the failed guesses of a window
\* are one short of MAX_FAILS and one for each handler: reading the attempts,
\* verifying and recording are three steps, but each login is past the first.
THEOREM GuessesBounded == Spec => []GuessBound
  <1>1. Init => GuessesCounted
    <2> SUFFICES ASSUME Init, NEW e \in Emails
                 PROVE  fails[e] + Cardinality(Guessing(e))
                          <= MaxFails - 1 + Cardinality(Slots)
      BY DEF GuessesCounted
    <2>1. Guessing(e) = {} /\ fails[e] = 0
      BY DEF Init, Guessing, Idle
    <2>2. Cardinality(Slots) \in Nat /\ MaxFails \in Nat \ {0}
      BY AccountsAssumption, FS_CardinalityType
    <2> QED
      BY <2>1, <2>2, FS_EmptySet
  <1>2. TInv /\ GuessesCounted /\ [Next]_vars => GuessesCounted'
    BY GuessesStep
  <1>3. TInv /\ GuessesCounted => GuessBound
    <2> SUFFICES ASSUME TInv, GuessesCounted, NEW e \in Emails
                 PROVE  fails[e] <= MaxFails - 1 + Cardinality(Slots)
      BY DEF GuessBound
    <2>1. fails[e] + Cardinality(Guessing(e)) <= MaxFails - 1 + Cardinality(Slots)
      BY DEF GuessesCounted
    <2> QED
      BY <2>1, GuessingFinite
  <1> QED
    BY <1>1, <1>2, <1>3, TInvariant, PTL DEF Spec

----------------------------------------------------------------------------
(* Sessions and passwords *)

UserRows == <<users, sessions, unrevoked>>

\* The steps that touch an account or a session.
LEMMA UserSteps ==
  ASSUME [Next]_vars
  PROVE  \/ UNCHANGED UserRows
         \/ /\ \E x \in SessionIds : sessions' = [sessions EXCEPT ![x] = None]
            /\ UNCHANGED <<users, unrevoked>>
         \/ \E s \in Slots :
              \/ LoginSession(s) \/ FinishLogin(s)
              \/ PasswordUpdate(s) \/ ResetUpdate(s)
              \/ PasswordRevoke(s) \/ ResetRevoke(s)
              \/ UpdateUser(s) \/ TransferOwner(s)
              \/ OAuthLink(s) \/ CreateUser(s)
  <1>1. CASE UNCHANGED vars
    BY <1>1 DEF vars, UserRows
  <1>2. CASE Background
    BY <1>2 DEF Background, Logout, RevokeSession, SessionExpired, AttemptAges,
                ResetRequest, ResetExpires, UserRows, SessionsOf
  <1>3. CASE Management
    BY <1>3 DEF Management, DeleteOrg, CreateApp, DeleteApp, TransferOrgOwner,
                InviteMember, InviteExpires, accountRows, accountVars, UserRows
  <1>4. ASSUME NEW s \in Slots, Handlers(s)
        PROVE  UNCHANGED UserRows \/ FinishLogin(s) \/ OAuthLink(s) \/ CreateUser(s)
    <2>1. CASE \/ \E x \in SessionIds : CreateOrg(s, x)
               \/ \E o \in OrgIds, e \in Emails :
                    \/ \E r \in Roles : PatchMember(s, o, e, r)
                    \/ RemoveMember(s, o, e)
      BY <2>1 DEF CreateOrg, PatchMember, RemoveMember, accountRows, UserRows
    <2>2. CASE \/ \E t \in InviteTokens, p \in Passwords : AcceptStart(s, t, p)
               \/ \E e \in Emails, p \in Passwords : SignupStart(s, e, p)
               \/ \E i \in Idents, e \in Emails :
                    \/ OAuthStart(s, i, e)
                    \/ \E t \in InviteTokens : OAuthJoinStart(s, i, e, t)
      BY <2>2 DEF AcceptStart, SignupStart, OAuthStart, OAuthJoinStart,
                  accountRows, UserRows
    <2>3. CASE AcceptRead(s) \/ Consume(s) \/ OAuthFound(s) \/ OAuthByEmail(s)
      BY <2>3 DEF AcceptRead, Consume, OAuthFound, OAuthByEmail, accountRows,
                  UserRows
    <2>4. CASE \/ MemberWrite(s) \/ CreateOrganization(s) \/ AddMember(s)
               \/ CreateDefaultApp(s)
      BY <2>4 DEF MemberWrite, CreateOrganization, AddMember, CreateDefaultApp,
                  accountRows, UserRows
    <2> QED
      BY <1>4, <2>1, <2>2, <2>3, <2>4 DEF Handlers
  <1>5. ASSUME NEW s \in Slots, AccountStep(s)
        PROVE  \/ UNCHANGED UserRows
               \/ LoginSession(s) \/ PasswordUpdate(s) \/ ResetUpdate(s)
               \/ PasswordRevoke(s) \/ ResetRevoke(s)
               \/ UpdateUser(s) \/ TransferOwner(s)
    <2>1. CASE \/ \E e \in Emails, p \in Passwords : LoginStart(s, e, p)
               \/ \E x \in SessionIds, p \in Passwords : PasswordStart(s, x, p)
               \/ \E t \in ResetTokens, p \in Passwords : ResetStart(s, t, p)
               \/ \E e \in Emails, r \in Roles \cup {None},
                     a \in {"keep", "on", "off"} : PatchUser(s, e, r, a)
               \/ \E e \in Emails : DeleteUser(s, e) \/ TransferStart(s, e)
      BY <2>1 DEF LoginStart, PasswordStart, ResetStart, PatchUser, DeleteUser,
                  TransferStart, UserRows
    <2>2. CASE Abort(s) \/ LoginRead(s) \/ LoginFail(s) \/ ResetConsume(s)
      BY <2>2 DEF Abort, LoginRead, LoginFail, ResetConsume, UserRows
    <2> QED
      BY <1>5, <2>1, <2>2 DEF AccountStep
  <1> QED
    BY <1>1, <1>2, <1>3, <1>4, <1>5 DEF Next, AccountsNext

\* A session that OldPasswordSessions has nothing against.
Sound(x) ==
  sessions[x] # None =>
    \/ sessions[x].pw \in {None, users[sessions[x].e].pw}
    \/ sessions[x].late
    \/ unrevoked[sessions[x].e]

\* No session gains anything from a step that leaves passwords alone.
LEMMA StaysSound ==
  ASSUME TInv, OldPasswordSessions, NEW x \in SessionIds,
         sessions'[x] \in {None, sessions[x]},
         \A e \in Emails : users[e] # None => users'[e].pw = users[e].pw,
         UNCHANGED unrevoked
  PROVE  Sound(x)'
  <1>1. sessions[x] # None => sessions[x].e \in Emails /\ users[sessions[x].e] # None
    BY DEF TInv, TenantsTypeOK, AccountsTypeOK, Rows, Session
  <1> QED
    BY <1>1 DEF OldPasswordSessions, Sound

LEMMA PasswordSound ==
  ASSUME TInv, OldPasswordSessions, NEW s \in Slots,
         PasswordUpdate(s) \/ ResetUpdate(s), NEW x \in SessionIds
  PROVE  Sound(x)'
  <1> DEFINE f == task[s].e
             p == task[s].p
  <1>1. SetPassword(f, p) /\ UNCHANGED sessions
    BY DEF PasswordUpdate, ResetUpdate
  <1>2. /\ users \in [Emails -> User \cup {None}]
        /\ unrevoked \in [Emails -> BOOLEAN]
        /\ sessions[x] # None => sessions[x].e \in Emails
    BY DEF TInv, TenantsTypeOK, AccountsTypeOK, Session
  <1>3. /\ \A e \in Emails : e # f => users'[e] = users[e] /\ unrevoked'[e] = unrevoked[e]
        /\ f \in Emails => unrevoked'[f] = TRUE
    BY <1>1, <1>2 DEF SetPassword
  <1>4. CASE sessions[x] # None /\ sessions[x].e = f
    BY <1>1, <1>2, <1>3, <1>4 DEF Sound
  <1>5. CASE sessions[x] # None /\ sessions[x].e # f
    BY <1>1, <1>2, <1>3, <1>5 DEF Sound, OldPasswordSessions
  <1>6. CASE sessions[x] = None
    BY <1>1, <1>6 DEF Sound
  <1> QED
    BY <1>4, <1>5, <1>6

LEMMA RevokeSound ==
  ASSUME TInv, OldPasswordSessions, NEW s \in Slots,
         PasswordRevoke(s) \/ ResetRevoke(s), NEW x \in SessionIds
  PROVE  Sound(x)'
  <1> DEFINE f == task[s].e
             p == task[s].p
  <1>1. PICK kept : RevokeSessions(f, kept, p) /\ UNCHANGED users
    BY DEF PasswordRevoke, ResetRevoke
  <1>2. /\ unrevoked \in [Emails -> BOOLEAN]
        /\ sessions[x] # None => sessions[x].e \in Emails
    BY DEF TInv, TenantsTypeOK, AccountsTypeOK, Session
  <1>3. CASE x \notin SessionsOf(f)
    <2>1. sessions'[x] = sessions[x] /\ (sessions[x] # None => sessions[x].e # f)
      BY <1>1, <1>3 DEF RevokeSessions, SessionsOf
    <2>2. unrevoked' = [unrevoked EXCEPT ![f] = FALSE]
      BY <1>1 DEF RevokeSessions
    <2>3. sessions[x] # None => unrevoked'[sessions[x].e] = unrevoked[sessions[x].e]
      BY <1>2, <2>1, <2>2
    <2> QED
      BY <1>1, <2>1, <2>3 DEF Sound, OldPasswordSessions
  <1>4. CASE x \in SessionsOf(f)
    <2> DEFINE row == [e |-> f, pw |-> p, late |-> p # users[f].pw]
    <2>1. CASE x = kept
      <3>1. sessions'[x] = row
        BY <1>1, <1>4, <2>1 DEF RevokeSessions
      <3>2. CASE p = users[f].pw
        <4>1. sessions'[x].pw = p /\ sessions'[x].e = f
          BY <3>1
        <4> QED
          BY <1>1, <3>2, <4>1 DEF Sound
      <3>3. CASE p # users[f].pw
        <4>1. row.late
          BY <3>3
        <4> QED
          BY <3>1, <4>1 DEF Sound
      <3> QED
        BY <3>2, <3>3
    <2>2. CASE x # kept
      <3>1. sessions'[x] = None
        BY <1>1, <1>4, <2>2 DEF RevokeSessions
      <3> QED
        BY <3>1 DEF Sound
    <2> QED
      BY <2>1, <2>2
  <1> QED
    BY <1>3, <1>4

LEMMA NewSessionSound ==
  ASSUME TInv, OldPasswordSessions, NEW s \in Slots,
         LoginSession(s) \/ FinishLogin(s), NEW x \in SessionIds
  PROVE  Sound(x)'
  <1> DEFINE f == task[s].e
             p == task[s].p
             row == [e |-> f, pw |-> p, late |-> p # None /\ p # users[f].pw]
  <1>1. PICK y \in SessionIds : sessions' = [sessions EXCEPT ![y] = row]
    BY DEF LoginSession, FinishLogin, NewSession
  <1>2. UNCHANGED <<users, unrevoked>> /\ sessions \in [SessionIds -> Session \cup {None}]
    BY DEF LoginSession, FinishLogin, TInv, TenantsTypeOK, AccountsTypeOK
  <1>3. CASE x = y
    BY <1>1, <1>2, <1>3 DEF Sound
  <1>4. CASE x # y
    <2>1. sessions'[x] = sessions[x]
      BY <1>1, <1>2, <1>4
    <2> QED
      BY <1>2, <2>1 DEF Sound, OldPasswordSessions
  <1> QED
    BY <1>3, <1>4

\* The administration of users, links and new accounts.
LEMMA OtherUserWrites ==
  ASSUME TInv, NEW s \in Slots,
         UpdateUser(s) \/ TransferOwner(s) \/ OAuthLink(s) \/ CreateUser(s)
  PROVE  /\ UNCHANGED <<sessions, unrevoked>>
         /\ \A e \in Emails : users[e] # None => users'[e].pw = users[e].pw
  <1>1. users \in [Emails -> User \cup {None}]
    BY DEF TInv, TenantsTypeOK, AccountsTypeOK
  <1>2. CASE UpdateUser(s)
    BY <1>1, <1>2 DEF UpdateUser, User
  <1>3. CASE TransferOwner(s)
    BY <1>1, <1>3 DEF TransferOwner, User
  <1>4. CASE OAuthLink(s)
    BY <1>1, <1>4 DEF OAuthLink, User
  <1>5. CASE CreateUser(s)
    BY <1>1, <1>5 DEF CreateUser
  <1> QED
    BY <1>2, <1>3, <1>4, <1>5

LEMMA SoundStep ==
  ASSUME TInv, OldPasswordSessions, [Next]_vars
  PROVE  OldPasswordSessions'
  <1> SUFFICES ASSUME NEW x \in SessionIds PROVE Sound(x)'
    BY DEF OldPasswordSessions, Sound
  <1>1. CASE UNCHANGED UserRows
    BY <1>1, StaysSound DEF UserRows
  <1>2. CASE /\ \E y \in SessionIds : sessions' = [sessions EXCEPT ![y] = None]
             /\ UNCHANGED <<users, unrevoked>>
    <2>1. sessions'[x] \in {None, sessions[x]}
      BY <1>2 DEF TInv, TenantsTypeOK, AccountsTypeOK
    <2> QED
      BY <1>2, <2>1, StaysSound
  <1>3. CASE \E s \in Slots :
               UpdateUser(s) \/ TransferOwner(s) \/ OAuthLink(s) \/ CreateUser(s)
    BY <1>3, OtherUserWrites, StaysSound
  <1> QED
    BY <1>1, <1>2, <1>3, UserSteps, PasswordSound, RevokeSound, NewSessionSound

\* A password change ends the sessions of the old one, but for those that a
\* slow login writes after it and those of a handler that has not come to
\* delete_user_sessions.
THEOREM OldSessionsEnd == Spec => []OldPasswordSessions
  <1>1. Init => OldPasswordSessions
    <2> SUFFICES ASSUME Init PROVE OldPasswordSessions
      OBVIOUS
    <2>1. PICK known \in SUBSET Emails, boss \in Emails, home \in OrgIds,
               p \in Passwords :
            /\ known # {} => boss \in known
            /\ home = DefaultOrg <=> mode = "single" \/ known = {}
            /\ users = [e \in Emails |->
                 IF e \notin known THEN None
                 ELSE Account(p, IF mode = "hosted" \/ e = boss
                                 THEN "owner" ELSE "member", "password")]
            /\ orgs = {DefaultOrg, home}
            /\ members = [o \in OrgIds |-> [e \in Emails |->
                 IF o = home /\ e = boss /\ e \in known THEN "owner" ELSE None]]
            /\ founder = [o \in OrgIds |->
                 IF o = home /\ known # {} THEN {boss} ELSE {}]
            /\ \E in \in {{}} \cup {{x} : x \in SessionIds} :
                 sessions = [x \in SessionIds |->
                   IF x \in in /\ known # {}
                   THEN [e |-> boss, pw |-> p, late |-> FALSE] ELSE None]
      BY DEF Init
    <2>2. ASSUME NEW y \in SessionIds, sessions[y] # None
          PROVE  sessions[y].pw = users[sessions[y].e].pw
      <3>1. sessions[y] = [e |-> boss, pw |-> p, late |-> FALSE] /\ boss \in known
        BY <2>1, <2>2
      <3>2. users[boss].pw = p
        BY <2>1, <3>1 DEF Account
      <3> QED
        BY <3>1, <3>2
    <2> QED
      BY <2>2 DEF OldPasswordSessions
  <1>2. TInv /\ OldPasswordSessions /\ [Next]_vars => OldPasswordSessions'
    BY SoundStep
  <1> QED
    BY <1>1, <1>2, TInvariant, PTL DEF Spec

----------------------------------------------------------------------------
(* The owner of the deployment *)

\* What becomes of an account's row in a step that writes the table.
LEMMA UserWrites ==
  ASSUME TInv, NEW e \in Emails, users[e] # None, [Next]_vars
  PROVE  /\ users'[e] # None
         /\ \/ users'[e].role = users[e].role /\ users'[e].active = users[e].active
            \/ \E s \in Slots : UpdateUser(s) \/ TransferOwner(s)
  <1>1. /\ users \in [Emails -> User \cup {None}] /\ users[e] \in User
        /\ users' \in [Emails -> User \cup {None}]
    BY TStep DEF TInv, TenantsTypeOK, AccountsTypeOK
  <1>2. ASSUME NEW row, row \in User, row.role = users[e].role,
               row.active = users[e].active, users'[e] = row
        PROVE  /\ users'[e] # None /\ users'[e].role = users[e].role
               /\ users'[e].active = users[e].active
    BY <1>2, NoneIsNoRow
  <1>3. CASE UNCHANGED users
    BY <1>3
  <1>4. ASSUME NEW s \in Slots, PasswordUpdate(s) \/ ResetUpdate(s)
        PROVE  /\ users'[e] # None /\ users'[e].role = users[e].role
               /\ users'[e].active = users[e].active
    <2> DEFINE row == [users[e] EXCEPT !.pw = task[s].p]
    <2>1. users' = [users EXCEPT ![task[s].e].pw = task[s].p]
      BY <1>4 DEF PasswordUpdate, ResetUpdate, SetPassword
    <2>2. task[s].p \in Passwords \cup {None}
      BY DEF TInv, TenantsTypeOK, AccountsTypeOK, Task
    <2>3. row \in User /\ row.role = users[e].role /\ row.active = users[e].active
      BY <1>1, <2>2 DEF User
    <2>4. users'[e] \in {row, users[e]}
      BY <1>1, <2>1
    <2> HIDE DEF row
    <2> QED
      BY <1>1, <1>2, <2>3, <2>4
  <1>5. ASSUME NEW s \in Slots, OAuthLink(s)
        PROVE  /\ users'[e] # None /\ users'[e].role = users[e].role
               /\ users'[e].active = users[e].active
    <2> DEFINE held == WithIdentity(users[e].oauth, task[s].i)
               row == [users[e] EXCEPT !.oauth = held]
    <2>1. \/ UNCHANGED users
          \/ users' = [users EXCEPT
               ![task[s].e].oauth =
                  WithIdentity(users[task[s].e].oauth, task[s].i)]
      BY <1>5 DEF OAuthLink
    <2>2. held \in SUBSET Idents
      BY <1>1, <1>5 DEF OAuthLink, TInv, Working, Carries, WithIdentity, User
    <2> HIDE DEF held
    <2>3. row \in User /\ row.role = users[e].role /\ row.active = users[e].active
      BY <1>1, <2>2 DEF User
    <2>4. users'[e] \in {row, users[e]}
      BY <1>1, <2>1 DEF held
    <2> HIDE DEF row
    <2> QED
      BY <1>1, <1>2, <2>3, <2>4
  <1>6. ASSUME NEW s \in Slots, CreateUser(s)
        PROVE  users'[e] = users[e]
    BY <1>1, <1>6 DEF CreateUser
  <1>7. ASSUME NEW s \in Slots, UpdateUser(s)
        PROVE  users'[e] # None
    <2> DEFINE new == task[s]
               role == IF new.r = None THEN users[e].role ELSE new.r
               active == new.a = "on" \/ (new.a = "keep" /\ users[e].active)
               row == [[users[e] EXCEPT !.role = role] EXCEPT !.active = active]
    <2>1. new \in Task /\ new.e \in Emails
      BY <1>7 DEF UpdateUser, At, TInv, TenantsTypeOK, AccountsTypeOK, Working,
                  HasAccount
    <2>2. role \in Roles /\ active \in BOOLEAN
      BY <1>1, <2>1 DEF Task, User
    <2>3. new.e # e => users'[e] = users[e]
      BY <1>1, <1>7, <2>1 DEF UpdateUser
    <2>4. new.e = e => users'[e] = row
      BY <1>1, <1>7, <2>1 DEF UpdateUser
    <2> HIDE DEF role, active
    <2>5. row \in User
      BY <1>1, <2>2 DEF User
    <2> QED
      BY <2>3, <2>4, <2>5, NoneIsNoRow
  <1>8. ASSUME NEW s \in Slots, TransferOwner(s)
        PROVE  users'[e] # None
    <2>1. \E r \in Roles : users'[e] = [users[e] EXCEPT !.role = r]
      BY <1>1, <1>8 DEF TransferOwner, Roles, User
    <2> QED
      BY <1>1, <2>1, NoneIsNoRow DEF User
  <1> QED
    BY <1>3, <1>4, <1>5, <1>6, <1>7, <1>8, UserSteps DEF UserRows,
       LoginSession, FinishLogin, PasswordRevoke, ResetRevoke

LEMMA UpdateKeepsOwner ==
  ASSUME TInv, NEW s \in Slots, UpdateUser(s), NEW w \in Owners,
         task[s].seen = users[task[s].e].role
  PROVE  w \in Owners'
  <1> DEFINE new == task[s]
             row == [[users[w] EXCEPT !.role = "owner"] EXCEPT !.active = TRUE]
  <1>1. /\ users \in [Emails -> User \cup {None}] /\ w \in Emails
        /\ users[w] \in User /\ users[w].role = "owner" /\ users[w].active
    BY DEF TInv, TenantsTypeOK, AccountsTypeOK, Owners, Known
  <1>2. CASE new.e # w
    <2>1. users'[w] = users[w]
      BY <1>1, <1>2 DEF UpdateUser
    <2> QED
      BY <1>1, <2>1, NoneIsNoRow DEF Owners, Known
  <1>3. CASE new.e = w
    <2>1. (new.r = None \/ new.r = "owner") /\ new.a \in {"keep", "on"}
      <3>1. new \in Task /\ new.op = "user" /\ Carries(s)
        BY DEF UpdateUser, At, TInv, TenantsTypeOK, AccountsTypeOK, Working
      <3> QED
        BY <1>1, <1>3, <3>1 DEF Carries, Task
    <2>2. users'[w] = row
      BY <1>1, <1>3, <2>1 DEF UpdateUser, User
    <2>3. row \in User /\ row.role = "owner" /\ row.active
      BY <1>1 DEF User, Roles
    <2> HIDE DEF row
    <2> QED
      BY <1>1, <2>2, <2>3, NoneIsNoRow DEF Owners, Known
  <1> QED
    BY <1>2, <1>3

LEMMA TransferMakesOwner ==
  ASSUME TInv, NEW s \in Slots, TransferOwner(s), users[task[s].e].active
  PROVE  Owners' # {}
  <1> DEFINE w == task[s].e
             row == [users[w] EXCEPT !.role = "owner"]
  <1>1. /\ users \in [Emails -> User \cup {None}] /\ w \in Emails
        /\ users[w] # None
    BY DEF TransferOwner, At, TInv, TenantsTypeOK, AccountsTypeOK, Working,
           HasAccount
  <1>2. users'[w] = row
    BY <1>1 DEF TransferOwner
  <1>3. row \in User /\ row.role = "owner" /\ row.active
    BY <1>1 DEF User, Roles
  <1> HIDE DEF row
  <1>4. w \in Owners'
    BY <1>1, <1>2, <1>3, NoneIsNoRow DEF Owners, Known
  <1> QED
    BY <1>4

\* The deployment loses its last active owner only to a write decided on a row
\* that has changed since, for any number of administrators and targets.
THEOREM DeploymentOwned == Spec => LastOwnerLostOnlyToRace
  <1> DEFINE Race ==
        Owners # {} /\ Owners' = {} =>
          \E s \in Slots :
            /\ task[s].pc = "write" /\ task'[s].pc = "idle"
            /\ \/ task[s].op = "user" /\ task[s].seen # users[task[s].e].role
               \/ task[s].op = "transfer" /\ ~users[task[s].e].active
  <1>1. TInv /\ [Next]_vars => [Race]_accountVars
    <2> SUFFICES ASSUME TInv, [Next]_vars, Owners # {}, Owners' = {}
                 PROVE  \E s \in Slots :
                          /\ task[s].pc = "write" /\ task'[s].pc = "idle"
                          /\ \/ task[s].op = "user"
                                /\ task[s].seen # users[task[s].e].role
                             \/ task[s].op = "transfer" /\ ~users[task[s].e].active
      OBVIOUS
    <2>1. PICK w : w \in Owners /\ w \in Emails /\ users[w] # None
      BY DEF Owners, Known
    <2>2. PICK s \in Slots : UpdateUser(s) \/ TransferOwner(s)
      BY <2>1, UserWrites DEF Owners, Known
    <2>3. task'[s].pc = "idle"
      BY <2>2, EndMoves DEF UpdateUser, TransferOwner, Idle
    <2>4. CASE UpdateUser(s)
      BY <2>1, <2>3, <2>4, UpdateKeepsOwner DEF UpdateUser, At
    <2>5. CASE TransferOwner(s)
      BY <2>3, <2>5, TransferMakesOwner DEF TransferOwner, At
    <2> QED
      BY <2>2, <2>4, <2>5
  <1> QED
    BY <1>1, TInvariant, PTL DEF Spec, LastOwnerLostOnlyToRace

----------------------------------------------------------------------------
(* The owner of an organization *)

LEMMA MemberWriteOwner ==
  ASSUME TInv, NEW s \in Slots, MemberWrite(s), NEW o \in OrgIds,
         OwnersOf(o) # {}, OwnersOf(o)' = {}
  PROVE  /\ At(s, "member", "write") /\ task'[s].pc = "idle"
         /\ task[s].o = o /\ task[s].seen # "owner"
         /\ members[o][task[s].e] = "owner"
  <1>1. /\ members \in [OrgIds -> [Emails -> Roles \cup {None}]]
        /\ At(s, "member", "write") /\ Carries(s)
    BY DEF TInv, TenantsTypeOK, Working, MemberWrite
  <1>2. task'[s].pc = "idle"
    BY EndMoves DEF MemberWrite, Idle
  <1>3. task[s].seen # "owner"
    BY <1>1 DEF Carries, At
  <1>4. PICK w \in Emails : members[o][w] = "owner" /\ members'[o][w] # "owner"
    BY DEF OwnersOf
  <1>5. task[s].o = o /\ task[s].e = w
    BY <1>1, <1>4 DEF MemberWrite
  <1> QED
    BY <1>1, <1>2, <1>3, <1>4, <1>5

\* An organization that stays loses its owner only to a member update or
\* removal decided before a transfer made its target the owner.
THEOREM OrganizationsOwned == Spec => OrgOwnerLostOnlyToRace
  <1> DEFINE Race ==
        \A o \in orgs \cap orgs' :
          OwnersOf(o) # {} /\ OwnersOf(o)' = {} =>
            \E s \in Slots :
              /\ At(s, "member", "write") /\ task'[s].pc = "idle"
              /\ task[s].o = o /\ task[s].seen # "owner"
              /\ members[o][task[s].e] = "owner"
  <1>1. TInv /\ [Next]_vars => [Race]_vars
    <2> SUFFICES ASSUME TInv, [Next]_vars, NEW o \in orgs \cap orgs',
                        OwnersOf(o) # {}, OwnersOf(o)' = {}
                 PROVE  \E s \in Slots :
                          /\ At(s, "member", "write") /\ task'[s].pc = "idle"
                          /\ task[s].o = o /\ task[s].seen # "owner"
                          /\ members[o][task[s].e] = "owner"
      OBVIOUS
    <2>1. /\ o \in OrgIds
          /\ members \in [OrgIds -> [Emails -> Roles \cup {None}]]
      BY DEF TInv, TenantsTypeOK
    <2>2. PICK w \in Emails : members[o][w] = "owner" /\ members'[o][w] # "owner"
      BY DEF OwnersOf
    <2>3. CASE \E s \in Slots : MemberWrite(s)
      BY <2>1, <2>3, MemberWriteOwner
    <2>4. CASE \E s \in Slots : AddMember(s)
      <3>1. PICK s \in Slots : AddMember(s)
        BY <2>4
      <3> DEFINE k == task[s]
      <3>2. /\ k.o \in OrgIds /\ k.e \in Emails /\ k.r \in Roles
            /\ \/ UNCHANGED members
               \/ /\ members[k.o][k.e] = None
                  /\ members' = [members EXCEPT ![k.o][k.e] = k.r]
        BY <3>1, AddedMember DEF Roles
      <3> QED
        BY <2>1, <2>2, <3>2, OneMember, AccountsAssumption
    <2>5. CASE UNCHANGED OrgRows \/ \E s \in Slots : CreateOrganization(s)
      BY <2>2, <2>5 DEF OrgRows, CreateOrganization
    <2>6. CASE \E p \in OrgIds : DeleteOrg(p)
      BY <2>1, <2>2, <2>6 DEF DeleteOrg
    <2>7. CASE \E p \in OrgIds, e \in Emails : TransferOrgOwner(p, e)
      <3>1. PICK p \in OrgIds, e \in Emails : TransferOrgOwner(p, e)
        BY <2>7
      <3>2. CASE p = o
        <4>1. members'[o][e] = "owner"
          BY <2>1, <3>1, <3>2 DEF TransferOrgOwner
        <4> QED
          BY <4>1 DEF OwnersOf
      <3>3. CASE p # o
        BY <2>1, <2>2, <3>1, <3>3 DEF TransferOrgOwner
      <3> QED
        BY <3>2, <3>3
    <2> QED
      BY <2>3, <2>4, <2>5, <2>6, <2>7, OrgSteps
  <1> QED
    BY <1>1, TInvariant, PTL DEF Spec, OrgOwnerLostOnlyToRace

----------------------------------------------------------------------------
(* At most one owner *)

\* A handler about to make its account the owner of an organization.
Founders == {"signup", "oauth", "org"}
Founding(s) == task[s].pc = "add" /\ task[s].op \in Founders

\* The organization it founds is its own, or the one of a single tenant.
Founded ==
  \A s \in Slots : Founding(s) =>
    IF task[s].o = DefaultOrg
    THEN mode = "single" /\ task[s].op = "signup"
    ELSE /\ task[s].o \in orgs /\ founder[task[s].o] = {}
         /\ \A r \in Slots \ {s} : Founding(r) => task[r].o # task[s].o

\* Only an organization that has been founded has members or invitations.
Peopled ==
  \A o \in OrgIds, e \in Emails :
    members[o][e] # None => Named(o) /\ users[e] # None

InvitesNamed ==
  \A t \in InviteTokens : invites[t] # None => Named(invites[t].o)

Shared(o) == mode = "single" /\ o = DefaultOrg

OneEach ==
  \A o \in OrgIds : ~Shared(o) => \A e, f \in OwnersOf(o) : e = f

\* Signups that saw no account and may yet add an owner to a single tenant.
Pending ==
  {s \in Slots : task[s].op = "signup"
                   /\ task[s].pc \in {"create", "provision", "add"}}

\* Each owner of a single tenant took the place of a signup; so did whoever
\* else is there.
Seats ==
  mode = "single" =>
    /\ IsFiniteSet(OwnersOf(DefaultOrg))
    /\ Cardinality(Pending) + Cardinality(OwnersOf(DefaultOrg)) <= Cardinality(Slots)
    /\ (\E e \in Emails : members[DefaultOrg][e] # None) =>
         Cardinality(Pending) + 1 <= Cardinality(Slots)

Owned == Founded /\ Peopled /\ InvitesNamed /\ OneEach /\ Seats

LEMMA FoundersGrow ==
  ASSUME TInv, [Next]_vars, NEW o \in OrgIds
  PROVE  founder[o] \subseteq founder'[o] /\ mode' = mode /\ (Named(o) => Named(o)')
  <1>1. founder \in [OrgIds -> SUBSET Emails]
    BY DEF TInv, TenantsTypeOK
  <1>2. CASE \E s \in Slots : AddMember(s)
    <2>1. PICK s \in Slots : AddMember(s)
      BY <1>2
    <2>2. /\ task[s].o \in OrgIds /\ UNCHANGED mode
          /\ \/ UNCHANGED founder
             \/ founder' = [founder EXCEPT ![task[s].o] = founder[task[s].o] \cup {task[s].e}]
      BY <2>1, AddedMember
    <2> QED
      BY <1>1, <2>2 DEF Named
  <1>3. CASE UNCHANGED <<mode, founder>>
    BY <1>3 DEF Named
  <1>4. CASE UNCHANGED OrgRows
    BY <1>3, <1>4 DEF OrgRows
  <1>5. CASE \E s \in Slots : MemberWrite(s) \/ CreateOrganization(s)
    BY <1>3, <1>5 DEF MemberWrite, CreateOrganization
  <1>6. CASE \/ \E p \in OrgIds : DeleteOrg(p)
             \/ \E p \in OrgIds, e \in Emails : TransferOrgOwner(p, e)
    BY <1>3, <1>6 DEF DeleteOrg, TransferOrgOwner
  <1> QED
    BY <1>2, <1>4, <1>5, <1>6, OrgSteps

LEMMA InvitesNamedStep ==
  ASSUME TInv, InvitesNamed, [Next]_vars
  PROVE  InvitesNamed'
  <1> SUFFICES ASSUME NEW t \in InviteTokens, invites'[t] # None
               PROVE  Named(invites[t].o)'
    BY DEF InvitesNamed
  <1>1. invites \in [InviteTokens -> Invite \cup {None}]
    BY DEF TInv, TenantsTypeOK
  <1>2. CASE invites[t] # None
    <2>1. invites[t].o \in OrgIds /\ invites'[t].o = invites[t].o
      BY <1>1, <1>2, InvitesStay DEF Invite
    <2> QED
      BY <1>2, <2>1, FoundersGrow DEF InvitesNamed, Named
  <1>3. CASE invites[t] = None
    <2>1. \E u \in InviteTokens, o \in OrgIds, e \in Emails, r \in Roles :
            InviteMember(u, o, e, r)
      <3>1. invites'[t] # invites[t]
        BY <1>3
      <3>2. CASE \E s \in Slots : Consume(s) \/ AddMember(s)
        <4>1. PICK s \in Slots : Consume(s)
          BY <3>1, <3>2 DEF AddMember
        <4>2. task[s].t \in InviteTokens /\ invites[task[s].t] # None
          BY <4>1 DEF Consume, TInv, Working, HasInvite
        <4> QED
          BY <1>1, <1>3, <3>1, <4>1, <4>2 DEF Consume
      <3>3. CASE \E o \in OrgIds : DeleteOrg(o)
        BY <1>3, <3>1, <3>3 DEF DeleteOrg
      <3>4. CASE \E u \in InviteTokens : InviteExpires(u)
        <4>1. PICK u \in InviteTokens : InviteExpires(u)
          BY <3>4
        <4> QED
          BY <1>1, <1>3, <3>1, <4>1 DEF InviteExpires
      <3> QED
        BY <3>1, <3>2, <3>3, <3>4, TokenSteps DEF TokenRows, tenantVars
    <2>2. PICK u \in InviteTokens, o \in OrgIds, e \in Emails, r \in Roles :
            InviteMember(u, o, e, r)
      BY <2>1
    <2>3. invites'[t].o = o /\ Named(o)
      BY <1>1, <1>3, <2>2 DEF InviteMember
    <2> QED
      BY <2>3, FoundersGrow DEF Named
  <1> QED
    BY <1>2, <1>3

\* What a step may do to the members of an organization.
LEMMA MembersMove ==
  ASSUME TInv, [Next]_vars, NEW o \in OrgIds
  PROVE  \/ \A e \in Emails :
              /\ members'[o][e] # None => members[o][e] # None
              /\ members'[o][e] = "owner" => members[o][e] = "owner"
         \/ \E e \in Emails : TransferOrgOwner(o, e)
         \/ \E s \in Slots : AddMember(s) /\ task[s].o = o
  <1> DEFINE Fewer == \A e \in Emails :
               /\ members'[o][e] # None => members[o][e] # None
               /\ members'[o][e] = "owner" => members[o][e] = "owner"
  <1>1. members \in [OrgIds -> [Emails -> Roles \cup {None}]]
    BY DEF TInv, TenantsTypeOK
  <1>2. CASE members'[o] = members[o]
    BY <1>2
  <1>3. CASE UNCHANGED OrgRows \/ \E s \in Slots : CreateOrganization(s)
    BY <1>2, <1>3 DEF OrgRows, CreateOrganization
  <1>4. ASSUME NEW s \in Slots, MemberWrite(s)
        PROVE  Fewer
    <2> DEFINE k == task[s]
               r == IF members[k.o][k.e] = None THEN None ELSE k.r
    <2>1. /\ k.o \in OrgIds /\ k.e \in Emails /\ k \in Task /\ k.r # "owner"
          /\ members' = [members EXCEPT ![k.o][k.e] = r]
      BY <1>4 DEF MemberWrite, At, TInv, TenantsTypeOK, AccountsTypeOK, Working,
                  Carries, HasAccount
    <2>2. /\ r \in Roles \cup {None} /\ (r # None => members[k.o][k.e] # None)
          /\ r # "owner"
      BY <2>1, AccountsAssumption DEF Task
    <2> HIDE DEF r
    <2> QED
      BY <2>1, <2>2, OneMember
  <1>5. ASSUME NEW p \in OrgIds, DeleteOrg(p)
        PROVE  Fewer
    BY <1>1, <1>2, <1>5, AccountsAssumption DEF DeleteOrg, NoMembers
  <1>6. ASSUME NEW p \in OrgIds, NEW f \in Emails, TransferOrgOwner(p, f), p # o
        PROVE  Fewer
    BY <1>1, <1>2, <1>6 DEF TransferOrgOwner
  <1>7. ASSUME NEW s \in Slots, AddMember(s), task[s].o # o
        PROVE  Fewer
    <2>1. /\ task[s].o \in OrgIds
          /\ \/ UNCHANGED members
             \/ members' = [members EXCEPT ![task[s].o][task[s].e] = task[s].r]
      BY <1>7, AddedMember
    <2>2. members'[o] = members[o]
      BY <1>1, <1>7, <2>1
    <2> QED
      BY <1>2, <2>2
  <1> QED
    BY <1>3, <1>4, <1>5, <1>6, <1>7, OrgSteps

\* AddMember, once more: who is there afterwards, and who as an owner.
LEMMA AddsOne ==
  ASSUME TInv, NEW s \in Slots, AddMember(s), NEW e \in Emails
  PROVE  LET k == task[s]
             o == task[s].o IN
         /\ members'[o][e] # None => members[o][e] # None \/ e = k.e
         /\ members'[o][e] = "owner" =>
              members[o][e] = "owner" \/ (e = k.e /\ Founding(s))
         /\ members'[o][e] # None /\ members[o][e] = None /\ Founding(s) =>
              founder'[o] # {}
  <1> DEFINE k == task[s]
  <1>1. /\ k.o \in OrgIds /\ k.e \in Emails /\ k.r \in Roles /\ k.pc = "add"
        /\ k.op \in {"join", "accept"} => k.r # "owner"
        /\ k.op \in {"signup", "oauth", "join", "accept", "org"}
        /\ founder \in [OrgIds -> SUBSET Emails]
    BY AddedMember, AccountsAssumption DEF Roles, TInv, TenantsTypeOK
  <1>2. CASE UNCHANGED <<members, founder>>
    BY <1>2
  <1>3. CASE /\ members' = [members EXCEPT ![k.o][k.e] = k.r]
             /\ founder' = IF k.op \in {"signup", "oauth", "org"}
                           THEN [founder EXCEPT ![k.o] = founder[k.o] \cup {k.e}]
                           ELSE founder
    <2>1. /\ members'[k.o][k.e] = k.r
          /\ e # k.e => members'[k.o][e] = members[k.o][e]
      <3>1. members \in [OrgIds -> [Emails -> Roles \cup {None}]]
        BY DEF TInv, TenantsTypeOK
      <3> QED
        BY <1>1, <1>3, <3>1
    <2>2. Founding(s) => founder'[k.o] # {}
      <3>1. Founding(s) => k.e \in founder'[k.o]
        BY <1>1, <1>3 DEF Founding, Founders
      <3> QED
        BY <3>1
    <2> QED
      BY <1>1, <2>1, <2>2 DEF Founding, Founders
  <1> QED
    BY <1>2, <1>3, AddedMember

LEMMA PeopledStep ==
  ASSUME TInv, Peopled, InvitesNamed, [Next]_vars
  PROVE  Peopled'
  <1> SUFFICES ASSUME NEW o \in OrgIds, NEW e \in Emails, members'[o][e] # None
               PROVE  Named(o)' /\ users'[e] # None
    BY DEF Peopled
  <1>1. CASE members[o][e] # None
    BY <1>1, FoundersGrow, UserWrites DEF Peopled
  <1>2. CASE members[o][e] = None
    <2>1. CASE \E f \in Emails : TransferOrgOwner(o, f)
      BY <1>2, <2>1, AccountsAssumption DEF TransferOrgOwner, TInv, TenantsTypeOK
    <2>2. CASE \E s \in Slots : AddMember(s) /\ task[s].o = o
      <3>1. PICK s \in Slots : AddMember(s) /\ task[s].o = o
        BY <2>2
      <3>2. e = task[s].e /\ users'[e] # None
        BY <1>2, <3>1, AddsOne, AddedMember
      <3>3. CASE Founding(s)
        BY <1>2, <3>1, <3>2, <3>3, AddsOne DEF Named
      <3>4. CASE ~Founding(s)
        <4>1. Named(o)
          BY <3>1, <3>4, AddedMember DEF Founding, Founders, InvitesNamed
        <4> QED
          BY <3>2, <4>1, FoundersGrow
      <3> QED
        BY <3>3, <3>4
    <2> QED
      BY <1>2, <2>1, <2>2, MembersMove
  <1> QED
    BY <1>1, <1>2

LEMMA OneEachStep ==
  ASSUME TInv, Founded, Peopled, OneEach, [Next]_vars
  PROVE  OneEach'
  <1> SUFFICES ASSUME NEW o \in OrgIds, ~Shared(o),
                      NEW e \in OwnersOf(o)', NEW f \in OwnersOf(o)'
               PROVE  e = f
    BY FoundersGrow DEF OneEach, Shared
  <1>1. /\ e \in Emails /\ members'[o][e] = "owner"
        /\ f \in Emails /\ members'[o][f] = "owner"
        /\ members \in [OrgIds -> [Emails -> Roles \cup {None}]]
    BY DEF OwnersOf, TInv, TenantsTypeOK
  <1>2. CASE members[o][e] = "owner" /\ members[o][f] = "owner"
    BY <1>1, <1>2 DEF OneEach, OwnersOf
  <1>3. ASSUME NEW w \in Emails, TransferOrgOwner(o, w)
        PROVE  e = f
    <2>1. \A u \in Emails : members'[o][u] = "owner" => u = w
      BY <1>1, <1>3 DEF TransferOrgOwner
    <2> QED
      BY <1>1, <2>1
  <1>4. ASSUME NEW s \in Slots, AddMember(s), task[s].o = o
        PROVE  e = f
    <2>1. CASE Founding(s)
      <3>1. o # DefaultOrg /\ founder[o] = {}
        BY <1>4, <2>1 DEF Founded, Shared
      <3>2. members[o][e] = None /\ members[o][f] = None
        BY <1>1, <3>1 DEF Peopled, Named
      <3> QED
        BY <1>1, <1>4, <3>2, AddsOne, AccountsAssumption
    <2>2. CASE ~Founding(s)
      BY <1>1, <1>2, <1>4, <2>2, AddsOne
    <2> QED
      BY <2>1, <2>2
  <1> QED
    BY <1>1, <1>2, <1>3, <1>4, MembersMove

\* An organization without a founder stays until somebody is added to it.
LEMMA UnfoundedStays ==
  ASSUME TInv, [Next]_vars, NEW o \in orgs, ~Named(o)
  PROVE  \/ o \in orgs' /\ founder'[o] = {}
         \/ \E s \in Slots : AddMember(s) /\ Founding(s) /\ task[s].o = o
  <1>1. o \in OrgIds /\ founder \in [OrgIds -> SUBSET Emails] /\ founder[o] = {}
    BY DEF TInv, TenantsTypeOK, Named
  <1>2. CASE UNCHANGED OrgRows
    BY <1>1, <1>2 DEF OrgRows
  <1>3. CASE \E s \in Slots : MemberWrite(s) \/ CreateOrganization(s)
    BY <1>1, <1>3 DEF MemberWrite, CreateOrganization
  <1>4. CASE \/ \E p \in OrgIds : DeleteOrg(p)
             \/ \E p \in OrgIds, e \in Emails : TransferOrgOwner(p, e)
    BY <1>1, <1>4 DEF DeleteOrg, TransferOrgOwner
  <1>5. ASSUME NEW s \in Slots, AddMember(s), ~(Founding(s) /\ task[s].o = o)
        PROVE  o \in orgs' /\ founder'[o] = {}
    BY <1>1, <1>5, AddedMember DEF Founding, Founders
  <1> QED
    BY <1>2, <1>3, <1>4, <1>5, OrgSteps

LEMMA AddMoves ==
  ASSUME TInv, NEW s \in Slots, AddMember(s)
  PROVE  Others(s) /\ task'[s].pc \notin {"create", "provision", "add"}
  <1>1. /\ task[s].op \in {"signup", "oauth", "join", "accept", "org"}
        /\ AfterAdd(task[s].op) \in {"consume", "session", "app"}
    BY AddedMember DEF AfterAdd
  <1>2. End(s) \/ Goto(s, AfterAdd(task[s].op))
    BY DEF AddMember
  <1> QED
    BY <1>1, <1>2, EndMoves, GotoMoves DEF Idle

\* How a handler comes to found an organization.
LEMMA BecomesFounding ==
  ASSUME TInv, NEW s \in Slots, Handlers(s), Founding(s)'
  PROVE  \/ /\ UNCHANGED <<orgs, founder>>
            /\ mode = "single" /\ task'[s].op = "signup"
            /\ task'[s].o = DefaultOrg
         \/ \E o \in OrgIds \ {DefaultOrg} :
              /\ o \notin orgs /\ ~Named(o)
              /\ orgs' = orgs \cup {o} /\ UNCHANGED founder
              /\ task'[s].o = o
  <1>1. Advances(s) /\ task'[s].pc = "add" /\ task'[s].op \in Founders
    BY HandlerMoves DEF Founding
  <1>2. /\ task'[s].op = task[s].op /\ Provisions(s)
    <2>1. ~Begun(s) /\ task'[s] # Idle
      BY <1>1 DEF Begun, Idle
    <2>2. task'[s].op = task[s].op /\ (Provisions(s) \/ Proceeds(s))
      BY <1>1, <2>1 DEF Advances
    <2>3. ~Proceeds(s)
      BY <1>1, <2>2 DEF Proceeds, Founders
    <2> QED
      BY <2>2, <2>3
  <1>3. CASE CreateUser(s)
    <2>1. /\ task[s].pc = "create"
      BY <1>3 DEF CreateUser
    <2>2. /\ task[s].op = "signup" /\ mode = "single" /\ task'[s].o = DefaultOrg
      BY <1>1, <1>2, <2>1 DEF Provisions, Founders, CreateOrganization
    <2>3. UNCHANGED <<orgs, founder>>
      BY <1>3 DEF CreateUser, tenantVars
    <2> QED
      BY <1>2, <2>2, <2>3
  <1>4. CASE CreateOrganization(s)
    <2>1. PICK o \in OrgIds \ {DefaultOrg} :
            /\ o \notin orgs /\ ~Named(o) /\ orgs' = orgs \cup {o}
            /\ task' = [task EXCEPT ![s].pc = "add", ![s].o = o]
            /\ UNCHANGED founder
      BY <1>4 DEF CreateOrganization
    <2>2. task'[s].o = o
      BY <2>1, MovesWithOrg
    <2> QED
      BY <2>1, <2>2
  <1> QED
    BY <1>2, <1>3, <1>4 DEF Provisions

LEMMA FoundedStep ==
  ASSUME TInv, Founded, Peopled, [Next]_vars
  PROVE  Founded'
  <1>1. mode' = mode
    BY FoundersGrow, TenantsAssumption
  \* A handler that founds before and after the step, and what it founds.
  <1>2. ASSUME NEW r \in Slots, Founding(r), Founding(r)', task'[r] = task[r],
               task[r].o # DefaultOrg
        PROVE  task[r].o \in orgs' /\ founder'[task[r].o] = {}
    <2>1. task[r].o \in orgs /\ ~Named(task[r].o)
      BY <1>2 DEF Founded, Named
    <2>2. ASSUME NEW s \in Slots, AddMember(s), Founding(s), task[s].o = task[r].o
          PROVE  FALSE
      <3>1. s # r
        BY <1>2, <2>2, AddMoves DEF Founding
      <3> QED
        BY <1>2, <2>2, <3>1 DEF Founded
    <2> QED
      BY <2>1, <2>2, UnfoundedStays
  <1>3. ASSUME \A r \in Slots : Founding(r)' => Founding(r) /\ task'[r] = task[r]
        PROVE  Founded'
    <2> SUFFICES ASSUME NEW s \in Slots, Founding(s)'
                 PROVE  IF task'[s].o = DefaultOrg
                        THEN mode' = "single" /\ task'[s].op = "signup"
                        ELSE /\ task'[s].o \in orgs' /\ founder'[task'[s].o] = {}
                             /\ \A r \in Slots \ {s} :
                                  Founding(r)' => task'[r].o # task'[s].o
      BY DEF Founded
    <2>1. Founding(s) /\ task'[s] = task[s]
      BY <1>3
    <2>2. CASE task[s].o = DefaultOrg
      BY <1>1, <2>1, <2>2 DEF Founded
    <2>3. CASE task[s].o # DefaultOrg
      BY <1>2, <1>3, <2>1, <2>3 DEF Founded
    <2> QED
      BY <2>1, <2>2, <2>3
  <1>4. CASE UNCHANGED task
    BY <1>3, <1>4 DEF Founding
  <1>5. ASSUME NEW s \in Slots, AccountStep(s)
        PROVE  Founded'
    <2>1. Others(s) /\ ~Founding(s)'
      BY <1>5, AccountMoves DEF AccountOps, Idle, Founding, Founders
    <2> QED
      BY <1>3, <2>1 DEF Others, Founding
  <1>6. ASSUME NEW s \in Slots, Handlers(s)
        PROVE  Founded'
    <2>1. Others(s)
      BY <1>6, HandlerMoves
    <2>2. CASE ~Founding(s)'
      BY <1>3, <2>1, <2>2 DEF Others, Founding
    <2>3. CASE Founding(s)'
      <3> DEFINE o == task'[s].o
      <3>1. \A r \in Slots \ {s} : Founding(r)' => Founding(r) /\ task'[r] = task[r]
        BY <2>1 DEF Others, Founding
      <3>2. /\ o = DefaultOrg => mode = "single" /\ task'[s].op = "signup"
            /\ o # DefaultOrg =>
                 /\ o \in orgs' /\ o \notin orgs /\ founder'[o] = {}
        BY <1>6, <2>3, BecomesFounding DEF Named
      <3>3. ASSUME NEW r \in Slots \ {s}, Founding(r)'
            PROVE  IF task'[r].o = DefaultOrg
                   THEN mode' = "single" /\ task'[r].op = "signup"
                   ELSE /\ task'[r].o \in orgs /\ task'[r].o \in orgs'
                        /\ founder'[task'[r].o] = {}
                        /\ \A q \in Slots \ {r, s} :
                             Founding(q)' => task'[q].o # task'[r].o
        BY <1>1, <1>2, <3>1, <3>3 DEF Founded
      <3> QED
        BY <1>1, <3>2, <3>3 DEF Founded
    <2> QED
      BY <2>2, <2>3
  <1> QED
    BY <1>4, <1>5, <1>6, BackgroundMoves

\* Signups only leave, unless one begins.
LEMMA PendingMoves ==
  ASSUME TInv, [Next]_vars
  PROVE  \/ Pending' \subseteq Pending
         \/ \E s \in Slots, e \in Emails, p \in Passwords : SignupStart(s, e, p)
  <1>1. CASE UNCHANGED task
    BY <1>1 DEF Pending
  <1>2. ASSUME NEW s \in Slots, AccountStep(s)
        PROVE  Pending' \subseteq Pending
    BY <1>2, AccountMoves DEF AccountOps, Idle, Pending, Others
  <1>3. ASSUME NEW s \in Slots, Handlers(s),
               ~\E e \in Emails, p \in Passwords : SignupStart(s, e, p)
        PROVE  Pending' \subseteq Pending
    <2>1. Others(s) /\ Advances(s)
      BY <1>3, HandlerMoves
    <2>2. s \in Pending' => s \in Pending
      <3>1. SUFFICES ASSUME task'[s].op = "signup",
                            task'[s].pc \in {"create", "provision", "add"}
                     PROVE  /\ task[s].op = "signup"
                            /\ task[s].pc \in {"create", "provision", "add"}
        BY DEF Pending
      <3>2. ~Begun(s) /\ task'[s] # Idle
        BY <1>3, <3>1 DEF Begun, Idle
      <3>3. task[s].op = "signup" /\ (Provisions(s) \/ Proceeds(s))
        BY <2>1, <3>1, <3>2 DEF Advances
      <3>4. CASE Provisions(s)
        BY <3>3, <3>4 DEF Provisions
      <3>5. CASE Proceeds(s)
        BY <3>1, <3>3, <3>5 DEF Proceeds
      <3> QED
        BY <3>3, <3>4, <3>5
    <2> QED
      BY <2>1, <2>2 DEF Others, Pending
  <1> QED
    BY <1>1, <1>2, <1>3, BackgroundMoves

LEMMA SeatsFinite ==
  ASSUME NEW S, S \subseteq Slots
  PROVE  /\ IsFiniteSet(S) /\ Cardinality(S) \in Nat /\ Cardinality(Slots) \in Nat
         /\ Cardinality(S) <= Cardinality(Slots)
         /\ \A s \in Slots \ S : Cardinality(S) + 1 <= Cardinality(Slots)
         /\ \A s \in S : Cardinality(S \ {s}) = Cardinality(S) - 1
  <1>1. /\ IsFiniteSet(Slots) /\ IsFiniteSet(S) /\ Cardinality(S) \in Nat
        /\ Cardinality(Slots) \in Nat /\ Cardinality(S) <= Cardinality(Slots)
    BY AccountsAssumption, FS_Subset, FS_CardinalityType
  <1>2. ASSUME NEW s \in Slots \ S
        PROVE  Cardinality(S) + 1 <= Cardinality(Slots)
    <2>1. S \subseteq Slots \ {s} /\ IsFiniteSet(Slots \ {s})
      BY <1>1, FS_RemoveElement
    <2>2. Cardinality(Slots \ {s}) = Cardinality(Slots) - 1
      BY <1>1, FS_RemoveElement
    <2>3. Cardinality(S) <= Cardinality(Slots \ {s})
      BY <2>1, FS_Subset
    <2> QED
      BY <1>1, <2>2, <2>3
  <1>3. ASSUME NEW s \in S
        PROVE  Cardinality(S \ {s}) = Cardinality(S) - 1
    BY <1>1, FS_RemoveElement
  <1> QED
    BY <1>1, <1>2, <1>3

LEMMA SeatsStep ==
  ASSUME TInv, Founded, Peopled, Seats, [Next]_vars
  PROVE  Seats'
  <1> DEFINE D == DefaultOrg
             Own == OwnersOf(D)
             Any == \E e \in Emails : members[D][e] # None
  <1>0. /\ D \in OrgIds /\ mode' = mode
        /\ members \in [OrgIds -> [Emails -> Roles \cup {None}]]
    BY FoundersGrow, TenantsAssumption DEF TInv, TenantsTypeOK
  <1> SUFFICES ASSUME mode = "single"
               PROVE  /\ IsFiniteSet(Own')
                      /\ Cardinality(Pending') + Cardinality(Own') <= Cardinality(Slots)
                      /\ Any' => Cardinality(Pending') + 1 <= Cardinality(Slots)
    BY <1>0 DEF Seats
  <1>1. /\ IsFiniteSet(Own) /\ Cardinality(Own) \in Nat
        /\ Cardinality(Pending) + Cardinality(Own) <= Cardinality(Slots)
        /\ Any => Cardinality(Pending) + 1 <= Cardinality(Slots)
    BY FS_CardinalityType DEF Seats
  <1>2. /\ Pending \subseteq Slots /\ Pending' \subseteq Slots
        /\ Cardinality(Pending) \in Nat /\ Cardinality(Pending') \in Nat
        /\ Cardinality(Slots) \in Nat
    <2>1. Pending \subseteq Slots /\ Pending' \subseteq Slots
      BY DEF Pending
    <2> QED
      BY <2>1, SeatsFinite
  <1>3. ASSUME NEW S, S \subseteq Own
        PROVE  IsFiniteSet(S) /\ Cardinality(S) \in Nat /\ Cardinality(S) <= Cardinality(Own)
    BY <1>1, <1>3, FS_Subset, FS_CardinalityType
  <1>4. ASSUME Pending' \subseteq Pending
        PROVE  Cardinality(Pending') <= Cardinality(Pending)
    BY <1>2, <1>4, SeatsFinite, FS_Subset
  <1>5. ASSUME NEW s \in Slots, NEW f \in Emails, NEW p \in Passwords,
               SignupStart(s, f, p)
        PROVE  Seats'
    <2>1. /\ UNCHANGED members /\ Known = {}
      BY <1>5 DEF SignupStart, tenantVars
    <2>2. \A e \in Emails : members'[D][e] = None
      BY <1>0, <2>1 DEF Peopled, Known
    <2>3. Own' = {} /\ ~Any'
      BY <2>2, AccountsAssumption DEF OwnersOf
    <2>4. Cardinality(Pending') <= Cardinality(Slots)
      BY <1>2, SeatsFinite
    <2> QED
      BY <1>2, <2>3, <2>4, FS_EmptySet DEF Seats
  <1>6. ASSUME NEW s \in Slots, AddMember(s), task[s].o = D,
               Pending' \subseteq Pending
        PROVE  Seats'
    <2> DEFINE w == task[s].e
    <2>1. s \notin Pending' /\ w \in Emails
      BY <1>6, AddMoves, AddedMember DEF Pending
    <2>2. Cardinality(Pending') + 1 <= Cardinality(Slots)
      BY <1>2, <2>1, SeatsFinite
    <2>3. CASE Founding(s)
      <3>1. s \in Pending
        BY <1>6, <2>3 DEF Founded, Founding, Pending
      <3>2. Cardinality(Pending') + 1 <= Cardinality(Pending)
        <4>1. /\ Pending' \subseteq Pending \ {s} /\ Pending \ {s} \subseteq Slots
          BY <1>2, <1>6, <2>1
        <4>2. Cardinality(Pending') <= Cardinality(Pending \ {s})
          BY <4>1, SeatsFinite, FS_Subset
        <4>3. Cardinality(Pending \ {s}) = Cardinality(Pending) - 1
          BY <1>2, <3>1, SeatsFinite
        <4> QED
          BY <1>2, <4>2, <4>3
      <3>3. Own' \subseteq Own \cup {w}
        BY <1>6, AddsOne DEF OwnersOf
      <3>4. /\ IsFiniteSet(Own') /\ Cardinality(Own') \in Nat
            /\ Cardinality(Own') <= Cardinality(Own) + 1
        <4>1. /\ IsFiniteSet(Own \cup {w})
              /\ Cardinality(Own \cup {w}) <= Cardinality(Own) + 1
          BY <1>1, FS_AddElement
        <4> QED
          BY <1>1, <3>3, <4>1, FS_Subset, FS_CardinalityType
      <3> QED
        BY <1>1, <1>2, <2>2, <3>2, <3>4 DEF Seats
    <2>4. CASE ~Founding(s)
      <3>1. Own' \subseteq Own
        BY <1>6, <2>4, AddsOne DEF OwnersOf
      <3> QED
        BY <1>1, <1>2, <1>3, <1>4, <1>6, <2>2, <3>1 DEF Seats
    <2> QED
      BY <2>3, <2>4
  <1>7. ASSUME NEW e \in Emails, TransferOrgOwner(D, e), Pending' \subseteq Pending
        PROVE  Seats'
    <2>1. Any
      BY <1>7 DEF TransferOrgOwner
    <2>2. Own' = {e}
      BY <1>0, <1>7 DEF TransferOrgOwner, OwnersOf
    <2>3. IsFiniteSet(Own') /\ Cardinality(Own') = 1
      BY <2>2, FS_Singleton
    <2>4. Cardinality(Pending') + 1 <= Cardinality(Slots)
      BY <1>1, <1>2, <1>4, <1>7, <2>1
    <2> QED
      BY <2>3, <2>4 DEF Seats
  <1>8. ASSUME \A e \in Emails :
                 /\ members'[D][e] # None => members[D][e] # None
                 /\ members'[D][e] = "owner" => members[D][e] = "owner",
               Pending' \subseteq Pending
        PROVE  Seats'
    <2>1. Own' \subseteq Own /\ (Any' => Any)
      BY <1>8 DEF OwnersOf
    <2> QED
      BY <1>1, <1>2, <1>3, <1>4, <1>8, <2>1 DEF Seats
  <1> QED
    BY <1>0, <1>5, <1>6, <1>7, <1>8, PendingMoves, MembersMove DEF Seats

LEMMA OwnedInit == Init => Owned
  <1> SUFFICES ASSUME Init PROVE Owned
    OBVIOUS
  <1>1. PICK known \in SUBSET Emails, boss \in Emails, home \in OrgIds,
             p \in Passwords :
          /\ known # {} => boss \in known
          /\ home = DefaultOrg <=> mode = "single" \/ known = {}
          /\ users = [e \in Emails |->
               IF e \notin known THEN None
               ELSE Account(p, IF mode = "hosted" \/ e = boss
                               THEN "owner" ELSE "member", "password")]
          /\ orgs = {DefaultOrg, home}
          /\ members = [o \in OrgIds |-> [e \in Emails |->
               IF o = home /\ e = boss /\ e \in known THEN "owner" ELSE None]]
          /\ founder = [o \in OrgIds |->
               IF o = home /\ known # {} THEN {boss} ELSE {}]
          /\ \E in \in {{}} \cup {{x} : x \in SessionIds} :
               sessions = [x \in SessionIds |->
                 IF x \in in /\ known # {}
                 THEN [e |-> boss, pw |-> p, late |-> FALSE] ELSE None]
    BY DEF Init
  <1>2. /\ \A s \in Slots : task[s] = Idle
        /\ \A t \in InviteTokens : invites[t] = None
    BY DEF Init
  <1>3. Founded /\ InvitesNamed
    BY <1>2 DEF Founded, Founding, Idle, InvitesNamed
  <1>4. \A o \in OrgIds, e \in Emails :
          members[o][e] # None => o = home /\ e = boss /\ e \in known
    BY <1>1
  <1>5. OneEach
    BY <1>4, AccountsAssumption DEF OneEach, OwnersOf
  <1>6. Peopled
    <2>1. ASSUME NEW e \in known PROVE users[e] # None
      <3>1. users[e] = Account(p, IF mode = "hosted" \/ e = boss
                                  THEN "owner" ELSE "member", "password")
        BY <1>1
      <3>2. users[e] \in User
        BY <3>1 DEF Account, User, Roles
      <3> QED
        BY <3>2, NoneIsNoRow
    <2>2. known # {} => founder[home] # {}
      BY <1>1
    <2> QED
      BY <1>4, <2>1, <2>2 DEF Peopled, Named
  <1>7. Seats
    <2>1. Pending = {}
      BY <1>2 DEF Pending, Idle
    <2>2. /\ OwnersOf(DefaultOrg) \subseteq {boss}
          /\ IsFiniteSet({boss}) /\ Cardinality({boss}) = 1
      BY <1>4, TenantsAssumption, AccountsAssumption, FS_Singleton DEF OwnersOf
    <2>3. /\ IsFiniteSet(OwnersOf(DefaultOrg))
          /\ Cardinality(OwnersOf(DefaultOrg)) \in Nat
          /\ Cardinality(OwnersOf(DefaultOrg)) <= 1
      BY <2>2, FS_Subset, FS_CardinalityType
    <2>4. Cardinality(Pending) = 0
      BY <2>1, FS_EmptySet
    <2>5. Cardinality(Slots) \in Nat /\ Cardinality(Slots) # 0
      BY AccountsAssumption, FS_CardinalityType, FS_EmptySet
    <2> QED
      BY <2>3, <2>4, <2>5 DEF Seats
  <1> QED
    BY <1>3, <1>5, <1>6, <1>7 DEF Owned

\* An organization never has two owners, but for the default one of a single
\* tenant, which has at most one for each signup that ran at the same time.
THEOREM OneOwner == Spec => []AtMostOneOwner
  <1>1. TInv /\ Owned /\ [Next]_vars => Owned'
    BY FoundedStep, PeopledStep, InvitesNamedStep, OneEachStep, SeatsStep DEF Owned
  <1>2. TInv /\ Owned => AtMostOneOwner
    <2> SUFFICES ASSUME TInv, Owned, NEW o \in OrgIds
                 PROVE  Cardinality(OwnersOf(o)) <=
                          IF mode = "single" /\ o = DefaultOrg
                          THEN Cardinality(Slots) ELSE 1
      BY DEF AtMostOneOwner
    <2>1. CASE Shared(o)
      <3>1. /\ IsFiniteSet(OwnersOf(o)) /\ Cardinality(OwnersOf(o)) \in Nat
            /\ Cardinality(Pending) + Cardinality(OwnersOf(o)) <= Cardinality(Slots)
        BY <2>1, FS_CardinalityType DEF Shared, Owned, Seats
      <3>2. Cardinality(Pending) \in Nat /\ Cardinality(Slots) \in Nat
        <4>1. Pending \subseteq Slots
          BY DEF Pending
        <4> QED
          BY <4>1, SeatsFinite
      <3> QED
        BY <2>1, <3>1, <3>2 DEF Shared
    <2>2. CASE ~Shared(o)
      <3>1. OwnersOf(o) = {} \/ \E e : OwnersOf(o) = {e}
        BY <2>2 DEF Owned, OneEach
      <3>2. Cardinality(OwnersOf(o)) \in {0, 1}
        BY <3>1, FS_EmptySet, FS_Singleton
      <3>3. Cardinality(OwnersOf(o)) <= 1 /\ ~(mode = "single" /\ o = DefaultOrg)
        BY <2>2, <3>2 DEF Shared
      <3> QED
        BY <3>3
    <2> QED
      BY <2>1, <2>2
  <1> QED
    BY <1>1, <1>2, OwnedInit, TInvariant, PTL DEF Spec
=============================================================================
