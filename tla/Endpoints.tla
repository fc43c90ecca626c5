----------------------------- MODULE Endpoints -----------------------------
(***************************************************************************)
(* The handlers that read and change a tenant's rows: who is let in        *)
(* (gate), by which permission, through which row the tenant is found,     *)
(* what is looked up before, the statements that follow, in order, and     *)
(* under which tenant the audit log is told.                               *)
(*                                                                         *)
(*   scope  what the router asks of an API key: generate, read, admin, any *)
(*   any    the permission for every row, own the one for the caller's own *)
(*   on     path (an org in the path), a row's kind, active (an org named  *)
(*          in the query), context (the caller's org), platform            *)
(*   lists  the kind of row a tenant's listing reads                       *)
(*   looks  rows read after the gate, with what a missing one leads to     *)
(*   does   the statements; one that is not a must may fail unnoticed      *)
(*   tells  the tenant whose audit log has an entry afterwards             *)
(***************************************************************************)
EXTENDS Sequences

Route(scope, gate, any, on) ==
  [scope |-> scope, gate |-> gate, any |-> any, own |-> "none", on |-> on,
   lists |-> "none", looks |-> <<>>, does |-> <<>>, tells |-> "nobody"]

OrOwn(own, route)             == [route EXCEPT !.own = own]
Listing(kind, route)          == [route EXCEPT !.lists = kind]
Looking(kind, missing, route) ==
  [route EXCEPT !.looks = Append(@, [kind |-> kind, missing |-> missing])]
Doing(op, kind, route)        ==
  [route EXCEPT !.does = Append(@, [op |-> op, kind |-> kind, must |-> TRUE])]
Trying(op, kind, route)       ==
  [route EXCEPT !.does = Append(@, [op |-> op, kind |-> kind, must |-> FALSE])]
Telling(tenant, route)        == [route EXCEPT !.tells = tenant]

\* require_member_perm on the org of the path, or on the app's org (org_for_app).
OfOrg(perm) == Route("any", "member", perm, "path")
OfApp(perm) == Route("any", "member", perm, "app")

\* require_org.
TenantOrg(perm)    == Route("any", "tenant", perm, "path")
TenantApp(perm)    == Route("any", "tenant", perm, "app")
TenantActive(perm) == Route("any", "tenant", perm, "active")

\* Keys and generations of the caller's org; a session needs any, or own of its own.
OnKey(any, own)  == OrOwn(own, Route("admin", "row", any, "key"))
OnGeneration(scope, any, own) == OrOwn(own, Route(scope, "row", any, "generation"))

\* authorize_key of the limits API.
LimitsKey(any, own) == OrOwn(own, Route("any", "managed", any, "key"))

Gateway == Route("any", "gateway", "SystemConfig", "platform")

----------------------------------------------------------------------------
(* Organizations (orgs.rs) *)

ListOrgs  == Route("any", "self", "anyone", "context")
GetOrg    == Looking("org", "404", OfOrg("OrgRead"))
PatchOrg  == Doing("update", "org", OfOrg("OrgWrite"))
DeleteOrg == Telling("target", Doing("cascade", "org", OfOrg("OrgDelete")))

ListMembers   == OfOrg("MemberRead")
InviteMember  == Doing("insert", "invitation", OfOrg("MemberInvite"))
PatchMember   ==
  Doing("update", "member", Looking("member", "404", OfOrg("MemberWrite")))
\* A faulty removal that does not look whether there is such a member.
RemoveAnyMember ==
  Telling("target", Doing("delete", "member", OfOrg("MemberRemove")))
RemoveMember  ==
  Telling("target", Doing("delete", "member", Looking("member", "404", OfOrg("MemberRemove"))))
TransferOwner == Telling("target", Doing("promote", "member", OfOrg("OrgTransferOwner")))

ListApps  == OfOrg("AppRead")
CreateApp == Doing("insert", "app", OfOrg("AppWrite"))
GetApp    == OfApp("AppRead")
PatchApp  == Doing("update", "app", OfApp("AppWrite"))
DeleteApp == Telling("target", Doing("cascade", "app", OfApp("AppDelete")))

ListOrgProviderCredentials  == OfOrg("ProviderCredRead")
CreateOrgProviderCredential ==
  Telling("target", Doing("upsert", "credential", OfOrg("ProviderCredWrite")))
DeleteOrgProviderCredential ==
  Telling("target", Doing("delete", "credential", OfOrg("ProviderCredDelete")))

\* Without new secrets the stored ones are read and written back.
GetAppStorage          == OfApp("StorageCredRead")
PutAppStorage(secrets) ==
  IF secrets THEN Doing("upsert", "storage", OfApp("StorageCredWrite"))
  ELSE Doing("keep", "storage", Looking("storage", "400", OfApp("StorageCredWrite")))
DeleteAppStorage       == Doing("delete", "storage", OfApp("StorageCredDelete"))

GetOrgAllowedModels == OfOrg("OrgRead")
PutOrgAllowedModels == Doing("upsert", "pool", OfOrg("OrgWrite"))
GetAppAllowedModels == OfApp("AppRead")
\* The models of a selection must be in the pool that is read before; "all" reads none.
PutAppAllowedModels(mode) ==
  IF mode = "select"
    THEN Doing("upsert", "access", Looking("pool", "400", OfApp("AppWrite")))
    ELSE Doing("upsert", "access", OfApp("AppWrite"))

----------------------------------------------------------------------------
(* API keys, generations, logs (handlers/mod.rs) *)

\* The owner of a session's key is a statement of its own, whose error is dropped.
CreateApiKey(session) ==
  LET route == OrOwn("KeyWriteOwn", Route("admin", "list", "KeyWriteAny", "context"))
      made  == Doing("insert", "key", route)
  IN  Telling("context", IF session THEN Trying("own", "key", made) ELSE made)
ListApiKeys  ==
  Listing("key", OrOwn("KeyReadOwn", Route("admin", "list", "KeyReadAny", "context")))
GetApiKey    == OnKey("KeyReadAny", "KeyReadOwn")
RevokeApiKey ==
  Telling("context", Doing("update", "key", OnKey("KeyDeleteAny", "KeyDeleteOwn")))
PatchApiKey  ==
  Telling("context", Doing("update", "key", OnKey("KeyWriteAny", "KeyWriteOwn")))
RotateApiKey ==
  Telling("context", Doing("update", "key", OnKey("KeyWriteAny", "KeyWriteOwn")))
TestWebhook  ==
  Telling("context", Doing("send", "webhook", OnKey("KeyTestWebhookAny", "KeyTestWebhookOwn")))
ListWebhookDeliveries == OnKey("KeyReadAny", "KeyReadOwn")

ListGenerations  ==
  Listing("generation",
    OrOwn("GenerationReadOwn", Route("read", "list", "GenerationReadAny", "context")))
GetGeneration    == OnGeneration("read", "GenerationReadAny", "GenerationReadOwn")
\* A job that has no row yet is asked of the router.
GetVideoStatus   ==
  OrOwn("GenerationReadOwn", Route("generate", "tracked", "GenerationReadAny", "generation"))
CancelGeneration ==
  Telling("context", Doing("update", "generation",
    OnGeneration("read", "GenerationCancelAny", "GenerationCancelOwn")))

\* A session with own alone is answered an empty page of logs.
GetLogsFiltered ==
  Listing("log", OrOwn("KeyReadOwn", Route("read", "logs", "KeyReadAny", "context")))
ListAudit       == Listing("audit", Route("admin", "list", "AuditRead", "context"))
GetLogArtifact  == Route("read", "row", "anyone", "artifact")
ClearCache      == Doing("send", "cache", Route("admin", "cache", "CacheClear", "platform"))

----------------------------------------------------------------------------
(* Users and accounts (users.rs, account.rs) *)

ListUsers    == Route("any", "global", "UserReadAny", "platform")
InviteUser   ==
  Telling("context", Doing("insert", "invitation",
    Route("any", "permission", "InvitationSend", "context")))
GetAccount   == Route("any", "self", "UserReadSelf", "context")
ListSessions == Route("any", "self", "SessionRevokeOwn", "context")

----------------------------------------------------------------------------
(* Limits (management/limits.rs): do_get, do_put, do_delete, do_reset on a row *)

Got(route)   == route
Put(route)   ==
  Telling("target", Doing("keep", "limits", Looking("limits", "fresh", route)))
Deleted(route) == Telling("target", Doing("delete", "limits", route))
Reset(route) ==
  Telling("target", Doing("keep", "limits", Looking("limits", "404", route)))

ListLimits == TenantActive("OrgRead")
MyLimits   == Route("any", "caller", "anyone", "context")

GetKeyLimits    == Got(LimitsKey("KeyReadAny", "KeyReadOwn"))
PutKeyLimits    == Put(LimitsKey("KeyWriteAny", "KeyWriteOwn"))
DeleteKeyLimits == Deleted(LimitsKey("KeyWriteAny", "KeyWriteOwn"))
ResetKeyLimits  == Reset(LimitsKey("KeyWriteAny", "KeyWriteOwn"))
SetKeyActive    ==
  Telling("target", Doing("update", "key", LimitsKey("KeyWriteAny", "KeyWriteOwn")))

GetOrgLimits    == Got(TenantOrg("OrgRead"))
PutOrgLimits    == Put(Looking("org", "404", TenantOrg("OrgWrite")))
DeleteOrgLimits == Deleted(TenantOrg("OrgWrite"))
ResetOrgLimits  == Reset(TenantOrg("OrgWrite"))

GetMemberLimits    == Got(TenantOrg("MemberRead"))
PutMemberLimits    == Put(Looking("member", "404", TenantOrg("MemberWrite")))
DeleteMemberLimits == Deleted(TenantOrg("MemberWrite"))
ResetMemberLimits  == Reset(TenantOrg("MemberWrite"))

GetAppLimits    == Got(TenantApp("AppRead"))
PutAppLimits    == Put(TenantApp("AppWrite"))
DeleteAppLimits == Deleted(TenantApp("AppWrite"))
ResetAppLimits  == Reset(TenantApp("AppWrite"))

----------------------------------------------------------------------------
(* End users (management/end_users.rs) *)

ListEndUsers  == TenantActive("OrgRead")
GetEndUser    == Looking("end_user", "404", TenantActive("OrgRead"))
CreateEndUser(limits) ==
  LET made == Doing("upsert", "end_user", Looking("end_user", "409", TenantActive("OrgWrite")))
  IN  Telling("target", IF limits THEN Doing("upsert", "limits", made) ELSE made)
\* A field that the body leaves out is written back as it was read.
UpdateEndUser ==
  Telling("target",
    Doing("keep", "end_user", Looking("end_user", "404", TenantActive("OrgWrite"))))
DeleteEndUser ==
  Telling("target",
    Trying("delete", "limits", Doing("delete", "end_user", TenantActive("OrgWrite"))))
SetBlocked    ==
  Telling("target",
    Doing("keep", "end_user", Looking("end_user", "fresh", TenantActive("OrgWrite"))))

GetEndUserLimits    == Got(TenantActive("OrgRead"))
\* The code touches the end user before it reads the limits; here, as everywhere, all
\* looks come first, which lets others write in between for longer.
PutEndUserLimits    == Put(Doing("touch", "end_user", TenantActive("OrgWrite")))
DeleteEndUserLimits == Deleted(TenantActive("OrgWrite"))
ResetEndUserLimits  == Reset(TenantActive("OrgWrite"))

----------------------------------------------------------------------------
(* The models a tenant may use (management/enforce.rs): the pool of the     *)
(* org, then the app's mode and its list, a statement each                 *)

Scanning(route) ==
  Looking("ids", "scan", Looking("mode", "scan", Looking("pool", "scan", route)))
TenantAllowsModel == Scanning(Route("generate", "caller", "anyone", "context"))
ListModels        == Scanning(Route("read", "caller", "anyone", "context"))

----------------------------------------------------------------------------
(* Spend and the gateway's own configuration (management/spend.rs, admin.rs) *)

SpendReport == Route("any", "spend", "OrgRead", "active")
SpendLogs   == Route("any", "spend", "OrgRead", "active")

AdminListModels   == Gateway
AdminGetModel     == Gateway
AdminCreateModel  == Telling("context", Doing("upsert", "model", Gateway))
AdminReplaceModel == Telling("context", Doing("upsert", "model", Gateway))
AdminDeleteModel  == Telling("context", Doing("delete", "model", Gateway))
AdminListProviders == Gateway
AdminGetProvider   == Gateway
AdminGetRoutes     == Gateway
AdminPutRoutes     == Telling("context", Doing("upsert", "setting", Gateway))
AdminGetSettings   == Gateway
AdminPutSettings   == Telling("context", Doing("upsert", "setting", Gateway))
============================================================================
