------------------------------- MODULE Access -------------------------------
(***************************************************************************)
(* One request of a caller on the rows of one tenant, Home, through every  *)
(* await of its handler: authentication, the row that tells the tenant,    *)
(* the permission check, the rows it reads, its statements in order, and   *)
(* the audit entry it spawns.  Between any two of them other requests      *)
(* change roles, rows and model lists or delete the organization, a        *)
(* statement may fail, and the client may leave, which drops the handler   *)
(* where it stands.                                                        *)
(*                                                                         *)
(* The databases are module Tables, the handlers module Endpoints.         *)
(***************************************************************************)
EXTENDS Endpoints, Tables, Integers, Functions

CONSTANTS Callers, Deployments, Names, NewRoles, MaxOthers, MaxFaults

VARIABLES
  deployment,   \* [mode, backend]; does not change
  caller,       \* who asks; does not change
  request,      \* where the handler stands
  role,         \* the session user's role in each organization
  rows,         \* the rows of Home, and those of the gateway
  models,       \* what Home's model pool and the app's access say of one model
  audit,        \* the entry of the request
  history       \* what happened meanwhile (for the properties, and the bounds)

vars == <<deployment, caller, request, role, rows, models, audit, history>>

Home == "home"
Away == "away"
Orgs == {Home, Away}
Default == IF deployment.mode = "single" THEN Home ELSE "default"

----------------------------------------------------------------------------
(* Permissions of a role; each role has those of the one before. *)

Viewer ==
  {"anyone", "UserReadSelf", "KeyReadOwn", "GenerationCreate", "GenerationReadOwn",
   "SessionRevokeOwn", "OrgRead", "AppRead", "MemberRead", "ProviderCredRead",
   "StorageCredRead"}
Member == Viewer \cup
  {"KeyWriteOwn", "KeyDeleteOwn", "KeyTestWebhookOwn", "GenerationCancelOwn", "AppWrite",
   "ProviderCredWrite", "StorageCredWrite"}
Admin == Member \cup
  {"UserReadAny", "UserWriteAny", "UserDeleteAny", "KeyReadAny", "KeyWriteAny", "KeyDeleteAny",
   "KeyTestWebhookAny", "GenerationReadAny", "GenerationCancelAny", "AuditRead", "CacheClear",
   "SystemConfig", "InvitationSend", "InvitationRevoke", "SessionRevokeAny", "OrgWrite",
   "AppDelete", "MemberInvite", "MemberWrite", "MemberRemove", "ProviderCredDelete",
   "StorageCredDelete"}
Owner == Admin \cup {"OrgDelete", "OrgTransferOwner", "SystemTransferOwner"}

PermissionsFor ==
  [none |-> {}, viewer |-> Viewer, member |-> Member, admin |-> Admin, owner |-> Owner]

----------------------------------------------------------------------------
Handlers ==
  [ListOrgs |-> ListOrgs, GetOrg |-> GetOrg, PatchOrg |-> PatchOrg, DeleteOrg |-> DeleteOrg,
   ListMembers |-> ListMembers, InviteMember |-> InviteMember, PatchMember |-> PatchMember,
   RemoveMember |-> RemoveMember, TransferOwner |-> TransferOwner,
   ListApps |-> ListApps, CreateApp |-> CreateApp, GetApp |-> GetApp, PatchApp |-> PatchApp,
   DeleteApp |-> DeleteApp,
   ListOrgProviderCredentials |-> ListOrgProviderCredentials,
   CreateOrgProviderCredential |-> CreateOrgProviderCredential,
   DeleteOrgProviderCredential |-> DeleteOrgProviderCredential,
   GetAppStorage |-> GetAppStorage, PutAppStorage |-> PutAppStorage(TRUE),
   KeepAppStorage |-> PutAppStorage(FALSE), DeleteAppStorage |-> DeleteAppStorage,
   GetOrgAllowedModels |-> GetOrgAllowedModels, PutOrgAllowedModels |-> PutOrgAllowedModels,
   GetAppAllowedModels |-> GetAppAllowedModels,
   SelectAppModels |-> PutAppAllowedModels("select"), AllAppModels |-> PutAppAllowedModels("all"),
   CreateApiKey |-> CreateApiKey(FALSE), CreateOwnedApiKey |-> CreateApiKey(TRUE),
   ListApiKeys |-> ListApiKeys,
   GetApiKey |-> GetApiKey, RevokeApiKey |-> RevokeApiKey, PatchApiKey |-> PatchApiKey,
   RotateApiKey |-> RotateApiKey, TestWebhook |-> TestWebhook,
   ListWebhookDeliveries |-> ListWebhookDeliveries,
   ListGenerations |-> ListGenerations, GetGeneration |-> GetGeneration,
   GetVideoStatus |-> GetVideoStatus, CancelGeneration |-> CancelGeneration,
   GetLogsFiltered |-> GetLogsFiltered, ListAudit |-> ListAudit,
   GetLogArtifact |-> GetLogArtifact, ClearCache |-> ClearCache,
   ListUsers |-> ListUsers, InviteUser |-> InviteUser, GetAccount |-> GetAccount,
   ListSessions |-> ListSessions, ListLimits |-> ListLimits, MyLimits |-> MyLimits,
   GetKeyLimits |-> GetKeyLimits, PutKeyLimits |-> PutKeyLimits,
   DeleteKeyLimits |-> DeleteKeyLimits, ResetKeyLimits |-> ResetKeyLimits,
   SetKeyActive |-> SetKeyActive,
   GetOrgLimits |-> GetOrgLimits, PutOrgLimits |-> PutOrgLimits,
   DeleteOrgLimits |-> DeleteOrgLimits, ResetOrgLimits |-> ResetOrgLimits,
   GetMemberLimits |-> GetMemberLimits, PutMemberLimits |-> PutMemberLimits,
   DeleteMemberLimits |-> DeleteMemberLimits, ResetMemberLimits |-> ResetMemberLimits,
   GetAppLimits |-> GetAppLimits, PutAppLimits |-> PutAppLimits,
   DeleteAppLimits |-> DeleteAppLimits, ResetAppLimits |-> ResetAppLimits,
   ListEndUsers |-> ListEndUsers, GetEndUser |-> GetEndUser,
   CreateEndUser |-> CreateEndUser(FALSE), CreateLimitedEndUser |-> CreateEndUser(TRUE),
   UpdateEndUser |-> UpdateEndUser, DeleteEndUser |-> DeleteEndUser, SetBlocked |-> SetBlocked,
   GetEndUserLimits |-> GetEndUserLimits, PutEndUserLimits |-> PutEndUserLimits,
   DeleteEndUserLimits |-> DeleteEndUserLimits, ResetEndUserLimits |-> ResetEndUserLimits,
   TenantAllowsModel |-> TenantAllowsModel, ListModels |-> ListModels,
   SpendReport |-> SpendReport, SpendLogs |-> SpendLogs,
   AdminListModels |-> AdminListModels, AdminGetModel |-> AdminGetModel,
   AdminCreateModel |-> AdminCreateModel, AdminReplaceModel |-> AdminReplaceModel,
   AdminDeleteModel |-> AdminDeleteModel, AdminListProviders |-> AdminListProviders,
   AdminGetProvider |-> AdminGetProvider, AdminGetRoutes |-> AdminGetRoutes,
   AdminPutRoutes |-> AdminPutRoutes, AdminGetSettings |-> AdminGetSettings,
   AdminPutSettings |-> AdminPutSettings]

\* Who may ask: the master key, the session of a user with a role in each
\* organization and a rank of its own, a key of an organization.
Roles  == DOMAIN PermissionsFor
Scopes == {"generate", "read", "admin"}
Caller ==
  [who : {"master", "session", "key"}, at : Orgs \cup {"none"}, scopes : SUBSET Scopes,
   rank : Roles, roles : [Orgs -> Roles]]
Deployment == [mode : {"single", "hosted"}, backend : DOMAIN Stores]

ASSUME AccessAssumption ==
  /\ Callers \subseteq Caller
  /\ Deployments \subseteq Deployment
  /\ Names \subseteq DOMAIN Handlers
  /\ NewRoles \subseteq Roles

route  == Handlers[request.handler]
TableOf(kind) ==
  IF kind \in DOMAIN Shared THEN Shared[kind] ELSE Stores[deployment.backend][kind]
Kinds  == DOMAIN Stores.sqlite \cup DOMAIN Shared
Gone(kind) == rows[kind] = "absent"

\* The organization or application that a row belongs to.
OfTheApp == {"key", "generation", "log", "artifact", "delivery", "storage", "access"}
OfTheOrg == Kinds \ ({"org"} \cup {"model", "setting", "cache", "webhook"})
Above(kind) ==
  (IF kind \in OfTheApp THEN {"app"} ELSE {}) \cup (IF kind \in OfTheOrg THEN {"org"} ELSE {})

Master  == caller.who = "master"
Session == caller.who = "session"
Key     == caller.who = "key"

Over(answer) == request' = [request EXCEPT !.step = "over", !.answer = answer]
Goto(step)   == request' = [request EXCEPT !.step = step, !.n = 1]
\* The statements come after the last look.
OnwardFrom(r) == IF r.n > Len(route.looks) THEN [r EXCEPT !.step = "do", !.n = 1] ELSE r

\* Every row is there at first, but those that the handler is to make or may miss.
Made(handler)   == {s.kind : s \in {t \in Range(Handlers[handler].does) : t.op = "insert"}}
Missed(handler) ==
  {l.kind : l \in {t \in Range(Handlers[handler].looks) : t.missing # "scan"}}
    \cup {s.kind : s \in {t \in Range(Handlers[handler].does) : t.op # "cascade"}}
MayMiss(handler) == {k \in Missed(handler) : k \notin {"org", "app", "audit"}}

ModelStates ==
  {m \in [pool : {"open", "with", "without"}, mode : {"all", "select"}, listed : BOOLEAN] :
     m.mode = "all" => ~m.listed}

Scans(handler) == \E i \in DOMAIN Handlers[handler].looks :
                     Handlers[handler].looks[i].missing = "scan"

NewRequest(handler, owned, named) ==
  [handler |-> handler, owned |-> owned, named |-> named, step |-> "authenticate", n |-> 1,
   ctx |-> [org |-> "none", as |-> "none"], extent |-> "refused",
   saw |-> [k \in {} |-> "absent"], did |-> {},
   scan |-> [pool |-> "open", mode |-> "all", verdict |-> "none"], answer |-> "none"]

Init ==
  /\ deployment \in Deployments
  /\ caller \in Callers
  /\ \E name \in Names, owned, named \in BOOLEAN :
       /\ name = "CreateOwnedApiKey" => caller.who = "session"
       /\ name = "CreateApiKey" => caller.who # "session"
       /\ owned => Handlers[name].own # "none"
       /\ named => Handlers[name].on = "active"
       /\ request = NewRequest(name, owned, named)
       /\ \E missing \in SUBSET MayMiss(name) :
            rows = [k \in Kinds |->
                     IF \/ k \in Made(name) \cup missing
                        \/ "app" \in Made(name) /\ k \in OfTheApp
                       THEN "absent" ELSE "old"]
       /\ models \in ModelStates
       /\ ~Scans(name) => models = [pool |-> "open", mode |-> "all", listed |-> FALSE]
  /\ role = caller.roles
  /\ audit = [state |-> "none", under |-> "none"]
  /\ history = [others |-> 0, faults |-> 0, held |-> [o \in Orgs |-> {role[o]}],
                late |-> {}, removed |-> {}, unseen |-> {}, undone |-> {},
                passed |-> {}, poolMoved |-> FALSE, torn |-> FALSE, unlisted |-> FALSE]

----------------------------------------------------------------------------
(* Authentication (auth_middleware), then the scope the router asks for *)

Memberships == {o \in Orgs : role[o] # "none"}

\* Where a session works that has no organization.
NoOrg == IF deployment.mode = "single" THEN Home ELSE "none"

\* A session names its organization in a header, or has its first one.
ActiveOrgs ==
  CASE Key                           -> {caller.at}
    [] Session /\ caller.at \in Orgs -> {caller.at} \cap Memberships
    [] Session /\ caller.at \notin Orgs /\ Memberships # {} -> Memberships
    [] OTHER -> {NoOrg}

RoleIn(org) == IF org \in Memberships THEN role[org] ELSE caller.rank

CheckScope(required) == required \in caller.scopes \cup {"any"}

AuthMiddleware ==
  /\ request.step = "authenticate"
  /\ \/ (ActiveOrgs = {} \/ ~CheckScope(route.scope)) /\ Over("403")
     \/ \E org \in ActiveOrgs :
          /\ CheckScope(route.scope)
          /\ request' = [request EXCEPT
               !.ctx  = [org |-> org, as |-> IF Session THEN RoleIn(org) ELSE "none"],
               !.step = "find"]
  /\ UNCHANGED <<deployment, caller, role, rows, models, audit, history>>

Fault == history.faults < MaxFaults

\* The lookup of the session, of its user or of the key fails; or that of the membership or
\* the application, where there is an organization to look in.
LookupFails ==
  /\ request.step = "authenticate" /\ ~Master /\ Fault
  /\ \/ Session /\ Over("401")
     \/ (Key \/ ActiveOrgs # {"none"}) /\ Over("500")
  /\ history' = [history EXCEPT !.faults = @ + 1]
  /\ UNCHANGED <<deployment, caller, role, rows, models, audit>>

\* The listing of a session's organizations fails, and is taken for an empty one: the
\* session works in the default organization, or none, under the user's own rank.
ListingFails ==
  /\ request.step = "authenticate" /\ Session /\ caller.at \notin Orgs /\ Fault
  /\ CheckScope(route.scope)
  /\ request' = [request EXCEPT !.ctx = [org |-> NoOrg, as |-> caller.rank], !.step = "find"]
  /\ history' = [history EXCEPT !.faults = @ + 1, !.unlisted = TRUE]
  /\ UNCHANGED <<deployment, caller, role, rows, models, audit>>

----------------------------------------------------------------------------
(* The row that tells the tenant, then the gates *)

\* Session permissions are those of authentication, unless the gate reads the membership.
CtxHas(permission) == permission \in PermissionsFor[request.ctx.as]
HasScope(scope)    == scope \in caller.scopes
Writes             == route.does # <<>>

\* A faulty gate that reads the role of the organization the session works in.
RequireContextPerm(org) == Master \/ (Session /\ CtxHas(route.any))

RequireMemberPerm(org) ==
  Master \/ (Session /\ org \in Orgs /\ route.any \in PermissionsFor[role[org]])

RequireOrg(org) ==
  \/ RequireMemberPerm(org)
  \/ /\ Key /\ request.ctx.org = org
     /\ \/ HasScope("admin")
        \/ ~Writes /\ HasScope("read")

\* Any row, or the caller's own.
AuthorizeSession == CtxHas(route.any) \/ (CtxHas(route.own) /\ request.owned)

AuthorizeKey ==
  \/ Master
  \/ /\ request.ctx.org = Home
     /\ \/ Session /\ AuthorizeSession
        \/ Key /\ HasScope("admin")

RequireGatewayAdmin ==
  \/ Master
  \/ /\ deployment.mode = "single"
     /\ \/ Session /\ CtxHas(route.any)
        \/ Key /\ HasScope("admin")

AuthorizeGlobalUserAdmin ==
  IF deployment.mode = "hosted" THEN Master ELSE CtxHas(route.any)

MayClearCache ==
  IF deployment.mode = "hosted" THEN Master ELSE Session => CtxHas(route.any)

\* The organization that the request acts on: a query may name it.
ActiveOrg ==
  IF request.named
    THEN IF Master \/ request.ctx.org = Home THEN Home ELSE "none"
    ELSE request.ctx.org
CtxOrg == IF route.gate = "permission" /\ request.ctx.org = "none"
            THEN Default ELSE request.ctx.org
ActsOn ==
  CASE route.on = "platform" -> "platform"
    [] route.on = "active"   -> IF route.gate = "spend" /\ Master THEN Home ELSE ActiveOrg
    [] route.on = "context"  -> CtxOrg
    [] OTHER                 -> Home

LetIn ==
  [member        |-> RequireMemberPerm(ActsOn),
   tenant        |-> ActsOn # "none" /\ RequireOrg(ActsOn),
   spend         |-> Master \/ (ActsOn # "none" /\ RequireOrg(ActsOn)),
   row           |-> request.ctx.org = Home /\ (Session => AuthorizeSession),
   tracked       |-> request.ctx.org = Home /\ (Session => AuthorizeSession),
   managed       |-> AuthorizeKey,
   list          |-> ActsOn # "none" /\ (Session => CtxHas(route.any) \/ CtxHas(route.own)),
   logs          |-> IF Session THEN CtxHas(route.any) \/ CtxHas(route.own)
                                ELSE ActsOn # "none",
   gateway       |-> RequireGatewayAdmin,
   global        |-> AuthorizeGlobalUserAdmin,
   cache         |-> MayClearCache,
   permission    |-> CtxHas(route.any),
   self          |-> Session,
   caller        |-> TRUE]

\* What a caller that is let in may see of Home.
Extent ==
  CASE route.gate \in {"self", "caller"} -> "nothing"
    [] route.gate = "logs" /\ Session /\ ~CtxHas(route.any) -> "nothing"
    [] route.gate = "list" /\ Session /\ ~CtxHas(route.any) -> "own"
    [] OTHER -> "all"

\* A listing has the rows of every tenant unless it filters on the organization or its app;
\* that of a member's own generations is a statement of its own.
Listed == IF route.lists = "generation" /\ Extent = "own" THEN "owned" ELSE route.lists
ReachesHome ==
  \/ ActsOn \in {Home, "platform"}
  \/ /\ route.lists # "none"
     /\ {"org", "app"} \cap TenantListings[deployment.backend][Listed] = {}

\* A key, generation or artifact of another organization looks absent.
Find ==
  /\ request.step = "find"
  /\ IF route.on \in Kinds /\ Gone(route.on)
       THEN IF route.gate = "tracked" /\ request.ctx.org # "none"
              THEN request' = [request EXCEPT !.step = "over", !.answer = "ok",
                                              !.extent = "nothing"]
              ELSE Over("404")
       ELSE Goto("gate")
  /\ UNCHANGED <<deployment, caller, role, rows, models, audit, history>>

\* Rows of another tenant are not Home's: the request leaves the model.
Gate ==
  /\ request.step = "gate"
  /\ IF ~LetIn[route.gate] THEN Over("403")
     ELSE IF ~ReachesHome THEN Over("elsewhere")
     ELSE request' = OnwardFrom([request EXCEPT !.extent = Extent, !.step = "look", !.n = 1])
  /\ UNCHANGED <<deployment, caller, role, rows, models, audit, history>>

----------------------------------------------------------------------------
(* The rows a handler reads before it writes *)

Looked(kind) == [k \in DOMAIN request.saw \cup {kind} |->
                   IF k = kind THEN rows[kind] ELSE request.saw[k]]

Look ==
  /\ request.step = "look"
  /\ request.n \in DOMAIN route.looks
  /\ LET look == route.looks[request.n]
         there == ~Gone(look.kind)
     IN  /\ look.missing # "scan"
         /\ IF IF there THEN look.missing = "409" ELSE look.missing \in {"400", "404"}
              THEN Over(look.missing)
              ELSE request' = OnwardFrom([request EXCEPT !.saw = Looked(look.kind), !.n = @ + 1])
  /\ UNCHANGED <<deployment, caller, role, rows, models, audit, history>>

\* An empty pool does not restrict; a selection allows what it lists.
Allows(pool, mode, listed) == pool # "without" /\ (mode = "select" => listed)

Passed == [history EXCEPT !.passed = @ \cup {models}]

\* One check gives up at the pool; the list of models reads everything.
ScanPool ==
  /\ request.step = "look" /\ Scans(request.handler) /\ request.n = 1
  /\ IF request.handler = "TenantAllowsModel" /\ models.pool = "without"
       THEN request' = [request EXCEPT !.scan.verdict = "no", !.step = "over", !.answer = "403"]
       ELSE request' = [request EXCEPT !.scan.pool = models.pool, !.n = 2]
  /\ history' = Passed
  /\ UNCHANGED <<deployment, caller, role, rows, models, audit>>

\* A faulty second read, after the list was joined in: the mode is taken for "all".
ScanModeForgotten ==
  /\ request.step = "look" /\ Scans(request.handler) /\ request.n = 2
  /\ request' = [request EXCEPT !.n = 3]
  /\ history' = Passed
  /\ UNCHANGED <<deployment, caller, role, rows, models, audit>>

ScanMode ==
  /\ request.step = "look" /\ Scans(request.handler) /\ request.n = 2
  /\ request' = [request EXCEPT !.scan.mode = models.mode, !.n = 3]
  /\ history' = Passed
  /\ UNCHANGED <<deployment, caller, role, rows, models, audit>>

ScanIds ==
  /\ request.step = "look" /\ Scans(request.handler) /\ request.n = 3
  /\ request' = [request EXCEPT
       !.scan.verdict = IF Allows(request.scan.pool, request.scan.mode, models.listed)
                          THEN "yes" ELSE "no",
       !.step = "over", !.answer = "ok"]
  /\ history' = Passed
  /\ UNCHANGED <<deployment, caller, role, rows, models, audit>>

----------------------------------------------------------------------------
(* The statements *)

Inserts == {"insert", "upsert", "keep", "touch"}

\* The foreign keys an insert needs; a statement on a row needs the row.
Possible(op, kind) ==
  CASE op = "send"      -> TRUE
    [] op \in Inserts   -> \A p \in TableOf(kind).refs : ~Gone(p)
    [] OTHER            -> ~Gone(kind)

\* A cascade deletes the rows it names by the tenant columns that were filled.
Cascaded(kind) ==
  LET b == deployment.backend
      named == IF kind = "org" THEN OrgCascade[b] \cup {"end_user"} ELSE AppCascade[b]
      columns == IF kind = "org" THEN {"org", "app"} ELSE {"app"}
  IN  {kind} \cup {k \in named : TableOf(k).stamped \cap columns # {}}

After(op, kind, content) ==
  CASE op = "cascade"               -> [k \in Kinds |-> IF k \in Cascaded(kind)
                                                          THEN "absent" ELSE rows[k]]
    [] op = "delete"                -> [rows EXCEPT ![kind] = "absent"]
    [] op = "send"                  -> rows
    [] op = "touch" /\ ~Gone(kind)  -> rows
    [] OTHER                        -> [rows EXCEPT ![kind] = content]

\* Memberships go with the organization.
RoleAfter(op, kind) ==
  IF op = "cascade" /\ kind = "org" THEN [role EXCEPT ![Home] = "none"] ELSE role

\* A row written although what it belongs to is gone.
LateBy(op, kind) ==
  IF op \in Inserts /\ \E p \in Above(kind) : Gone(p) THEN {kind} ELSE {}

\* A row written back as it was read, over a change that was not read.
UndoneBy(op, kind) ==
  IF op = "keep" /\ rows[kind] = "theirs"
       /\ (kind \in DOMAIN request.saw => request.saw[kind] # "theirs")
    THEN {kind} ELSE {}

Held(newrole) == [o \in Orgs |-> history.held[o] \cup {newrole[o]}]

Do ==
  /\ request.step = "do" /\ request.n \in DOMAIN route.does
  /\ LET s == route.does[request.n]
     IN  /\ Possible(s.op, s.kind)
         /\ rows' = After(s.op, s.kind, "mine")
         /\ role' = RoleAfter(s.op, s.kind)
         /\ history' = [history EXCEPT !.late = @ \cup LateBy(s.op, s.kind),
                                       !.undone = @ \cup UndoneBy(s.op, s.kind),
                                       !.held = Held(role')]
         /\ request' = [request EXCEPT !.did = @ \cup {request.n}, !.n = @ + 1]
  /\ UNCHANGED <<deployment, caller, models, audit>>

\* The row is missing: told (404), or nothing was changed and nobody knows.
DoMissing ==
  /\ request.step = "do" /\ request.n \in DOMAIN route.does
  /\ LET s == route.does[request.n]
     IN  /\ s.op \notin Inserts /\ ~Possible(s.op, s.kind)
         /\ IF s.must /\ s.op \in TableOf(s.kind).told
              THEN Over("404")
              ELSE request' = [request EXCEPT !.n = @ + 1]
  /\ UNCHANGED <<deployment, caller, role, rows, models, audit, history>>

\* A foreign key, or the database, refuses.
DoFails ==
  /\ request.step = "do" /\ request.n \in DOMAIN route.does
  /\ LET s == route.does[request.n]
         fault == IF s.op \in Inserts /\ ~Possible(s.op, s.kind) THEN 0 ELSE 1
     IN  /\ history.faults + fault <= MaxFaults
         /\ history' = [history EXCEPT !.faults = @ + fault]
         /\ IF s.must THEN Over("500") ELSE request' = [request EXCEPT !.n = @ + 1]
  /\ UNCHANGED <<deployment, caller, role, rows, models, audit>>

----------------------------------------------------------------------------
(* The answer, and the audit entry spawned with it *)

\* The acting organization, or the one the handler names.
LogAudit == IF request.ctx.org = "none" THEN "default" ELSE request.ctx.org
\* A faulty entry, under the organization the session works in.
LogContextAudit == LogAudit
LogOrgAudit == Home

Answer ==
  /\ request.step = "do" /\ request.n > Len(route.does)
  /\ Over("ok")
  /\ audit' = CASE route.tells = "nobody"  -> audit
                [] route.tells = "target"  -> [state |-> "spawned", under |-> LogOrgAudit]
                [] route.tells = "context" -> [state |-> "spawned", under |-> LogAudit]
  /\ UNCHANGED <<deployment, caller, role, rows, models, history>>

\* The client leaves; the handler is dropped at the await where it stands.
Abandon ==
  /\ request.step # "over"
  /\ Over("abandoned")
  /\ UNCHANGED <<deployment, caller, role, rows, models, audit, history>>

\* The spawned task inserts the entry; what goes wrong is only logged.
InsertAudit ==
  /\ audit.state = "spawned"
  /\ LET refused == audit.under = Home /\ \E p \in TableOf("audit").refs : Gone(p)
     IN  \/ /\ ~refused
            /\ audit' = [audit EXCEPT !.state = "inserted"]
            /\ UNCHANGED history
         \/ /\ refused
            /\ audit' = [audit EXCEPT !.state = "refused"]
            /\ UNCHANGED history
         \/ /\ history.faults < MaxFaults
            /\ audit' = [audit EXCEPT !.state = "lost"]
            /\ history' = [history EXCEPT !.faults = @ + 1]
  /\ UNCHANGED <<deployment, caller, request, role, rows, models>>

----------------------------------------------------------------------------
(* What other requests do meanwhile *)

Touched ==
  {s.kind : s \in Range(route.does)} \cup
  {l.kind : l \in {m \in Range(route.looks) : m.missing # "scan"}} \cup ({route.on} \cap Kinds)
\* Rows that requests in flight write even after the tenant is gone.
Traffic ==
  IF Gone("org") \/ Gone("app")
    THEN {"generation", "log", "artifact", "delivery", "key", "limits", "invitation"} ELSE {}

Meanwhile == request.step # "over" /\ history.others < MaxOthers

ChangeRole(org, new) ==
  /\ Meanwhile /\ Session /\ new # role[org] /\ ~Gone("org")
  /\ role' = [role EXCEPT ![org] = new]
  /\ history' = [history EXCEPT !.others = @ + 1, !.held = Held(role')]
  /\ UNCHANGED <<deployment, caller, request, rows, models, audit>>

OtherWrite(kind) ==
  /\ Meanwhile /\ kind \in (Touched \ {"org", "app"}) \cup Traffic
  /\ Possible("upsert", kind)
  /\ rows' = [rows EXCEPT ![kind] = "theirs"]
  /\ history' = [history EXCEPT !.others = @ + 1, !.late = @ \cup LateBy("upsert", kind),
       !.unseen = IF kind \in DOMAIN request.saw THEN @ \cup {kind} ELSE @]
  /\ UNCHANGED <<deployment, caller, request, role, models, audit>>

OtherDelete(kind) ==
  /\ Meanwhile /\ ~Gone(kind)
  /\ kind \in (Touched \cup {"org", "app"}) \ {"cache", "webhook"}
  /\ ~Scans(request.handler)
  /\ LET op == IF kind \in {"org", "app"} THEN "cascade" ELSE "delete"
     IN  /\ rows' = After(op, kind, "theirs")
         /\ role' = RoleAfter(op, kind)
  /\ history' = [history EXCEPT !.others = @ + 1, !.held = Held(role'),
       !.removed = @ \cup {k \in Kinds : rows'[k] = "absent" /\ ~Gone(k)}]
  /\ UNCHANGED <<deployment, caller, request, models, audit>>

SetPool(pool) ==
  /\ Meanwhile /\ Scans(request.handler) /\ request.step = "look" /\ pool # models.pool
  /\ models' = [models EXCEPT !.pool = pool]
  /\ history' = [history EXCEPT !.others = @ + 1, !.passed = @ \cup {models, models'},
                                !.poolMoved = @ \/ request.n > 1]
  /\ UNCHANGED <<deployment, caller, request, role, rows, audit>>

\* Mode and list in one transaction; a check reads them in two statements.
SetAccess(mode, listed) ==
  /\ Meanwhile /\ Scans(request.handler) /\ request.step = "look"
  /\ mode = "all" => ~listed
  /\ models' = [models EXCEPT !.mode = mode, !.listed = listed]
  /\ models' # models
  /\ history' = [history EXCEPT !.others = @ + 1, !.passed = @ \cup {models, models'},
                                !.torn = @ \/ history.poolMoved \/ request.n = 3]
  /\ UNCHANGED <<deployment, caller, request, role, rows, audit>>

Next ==
  \/ AuthMiddleware \/ LookupFails \/ ListingFails \/ Find \/ Gate
  \/ Look \/ ScanPool \/ ScanMode \/ ScanIds
  \/ Do \/ DoMissing \/ DoFails \/ Answer \/ Abandon \/ InsertAudit
  \/ \E org \in Orgs, new \in NewRoles : ChangeRole(org, new)
  \/ \E kind \in Kinds : OtherWrite(kind) \/ OtherDelete(kind)
  \/ \E pool \in {"open", "with", "without"} : SetPool(pool)
  \/ \E mode \in {"all", "select"}, listed \in BOOLEAN : SetAccess(mode, listed)

Spec == Init /\ [][Next]_vars

----------------------------------------------------------------------------
(* Rights, as roles and keys promise them *)

\* A user has its own rank where it has no membership, in a single-tenant deployment; and
\* where its memberships could not be listed, whatever they are (ListingFails).
WithoutMembership == \A o \in Orgs : "none" \in history.held[o]
RankCounts == deployment.mode = "single" /\ (WithoutMembership \/ history.unlisted)
RolesAtHome == history.held[Home] \cup (IF RankCounts THEN {caller.rank} ELSE {})

RightAtHome ==
  \/ Master
  \/ /\ Session
     /\ \E r \in RolesAtHome :
          \/ route.any \in PermissionsFor[r]
          \/ /\ route.own \in PermissionsFor[r]
             /\ request.owned \/ request.extent = "own"
  \/ /\ Key /\ caller.at = Home
     /\ \A i \in request.did : route.does[i].kind # "generation" => HasScope("admin")

RightOnGateway ==
  \/ Master
  \/ /\ deployment.mode = "single"
     /\ \/ /\ Session
           /\ \E r \in RolesAtHome \cup history.held[Away] : route.any \in PermissionsFor[r]
        \/ Key /\ HasScope("admin")

Acted == request.did # {} \/ (request.answer = "ok" /\ request.extent \in {"own", "all"})

\* A row of Home is changed or shown, and the gateway's configuration touched, only for
\* a caller that had the right to it at some moment of the request, whatever organization
\* its header, key or query names and whoever changes its role meanwhile (orgs.rs:1-5);
\* but where its memberships could not be listed the user's own rank is a right too.
ActedWithRights == Acted => IF ActsOn = "platform" THEN RightOnGateway ELSE RightAtHome

\* Deleting an organization or an application leaves none of its rows, except the limits
\* and the webhook deliveries, which no cascade reaches, and rows that requests in flight
\* insert afterwards where the database has no foreign key (delete_organization).
NoStrays ==
  \A kind \in Kinds :
    ~Gone(kind) /\ (\E p \in Above(kind) : Gone(p)) =>
      \/ kind \in {"limits", "delivery"}
      \/ kind \in history.late /\ TableOf(kind).refs = {}

\* A model is admitted or listed as the pool and the app's access, together, said at some
\* moment of the check, unless the access was replaced between the two statements that
\* read it, or after a pool that was replaced after it was read (tenant_allows_model).
VerdictTimely ==
  request.scan.verdict # "none" /\ ~history.torn =>
    \E m \in history.passed :
      request.scan.verdict = (IF Allows(m.pool, m.mode, m.listed) THEN "yes" ELSE "no")

\* An audit entry is about a change that was made, or that another request forestalled,
\* and stands under the tenant of the row; a change that is to be told and has no entry
\* is one whose handler failed later or whose client left (log_audit, log_org_audit).
AuditTold ==
  /\ audit.state # "none" =>
       /\ ActsOn = Home => audit.under = Home
       /\ \A i \in DOMAIN route.does :
            route.does[i].must => i \in request.did \/ route.does[i].kind \in history.removed
       /\ audit.state = "refused" => Gone("org")
  /\ request.step = "over" /\ request.did # {} /\ route.tells # "nobody" =>
       audit.state # "none" \/ request.answer \in {"404", "500", "abandoned"}

\* An answer of success means that every statement the handler insists on took effect,
\* unless another request removed the row first; and a row that is written back as it
\* was read undoes no change made before it was read (set_blocked, put_app_storage).
OkMeansDone ==
  /\ request.answer = "ok" =>
       \A i \in DOMAIN route.does :
         route.does[i].must => i \in request.did \/ route.does[i].kind \in history.removed
  /\ history.undone \subseteq history.unseen
=============================================================================
