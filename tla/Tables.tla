------------------------------- MODULE Tables -------------------------------
(***************************************************************************)
(* What the two databases promise of a tenant's rows.  A table has         *)
(*                                                                         *)
(*   refs     the rows an insert must find (foreign keys)                  *)
(*   stamped  the tenant columns the inserts fill                          *)
(*   told     the statements that report a missing row                     *)
(*                                                                         *)
(* and each store has the rows its cascades delete, in one transaction     *)
(* with the organization or the application, and the columns its tenant    *)
(* listings filter on.  SQLite has no foreign key on the tenant columns    *)
(* that were added to a table after it was created.                        *)
(***************************************************************************)

Table(refs, stamped, told) == [refs |-> refs, stamped |-> stamped, told |-> told]
ByOrg == {"org"}
ByApp == {"org", "app"}

----------------------------------------------------------------------------
(* SQLite (db/sqlite.rs) *)

SqliteOrganizations == Table({}, {}, {"update", "cascade"})
SqliteMembers       == Table(ByOrg, ByOrg, {"promote"})
SqliteApps          == Table(ByOrg, ByOrg, {"update", "cascade"})
SqliteCredentials   == Table(ByOrg, ByOrg, {"delete"})
SqliteStorage       == Table({"app"}, {"app"}, {"delete"})
SqlitePools         == Table(ByOrg, ByOrg, {})
SqliteAccess        == Table({"app"}, {"app"}, {})
SqliteScopedKeys    == ByApp
SqliteKeys          == Table({}, SqliteScopedKeys, {"update"})
SqliteGenerations   == Table({}, ByApp, {"update"})
SqliteLogs          == Table({}, ByApp, {})
SqliteArtifacts     == Table({}, ByApp, {})
SqliteDeliveries    == Table({}, {}, {})
SqliteAudit         == Table({}, ByOrg, {})
SqliteInvitations   == Table({}, ByOrg, {})

SqliteDeleteOrganization ==
  {"delivery", "artifact", "log", "generation", "key", "audit", "invitation", "credential",
   "pool", "member", "access", "storage", "app", "org"}
\* A faulty cascade that forgets the app's keys.
SqliteDeleteAppOnly ==
  {"delivery", "artifact", "log", "generation", "access", "storage", "app"}
SqliteDeleteApplication  ==
  {"delivery", "artifact", "log", "generation", "key", "access", "storage", "app"}
SqliteAppKeys           == {"app"}
SqliteTenantGenerations == ByApp
SqliteOwnerGenerations  == ByApp
SqliteTenantLogs        == ByApp
SqliteTenantAudit       == ByOrg
SqliteTenantListings    ==
  [key |-> SqliteAppKeys, generation |-> SqliteTenantGenerations, owned |-> SqliteOwnerGenerations,
   log |-> SqliteTenantLogs, audit |-> SqliteTenantAudit]

----------------------------------------------------------------------------
(* PostgreSQL (db/postgres.rs) *)

PostgresOrganizations == Table({}, {}, {"update", "cascade"})
PostgresMembers       == Table(ByOrg, ByOrg, {"promote"})
PostgresApps          == Table(ByOrg, ByOrg, {"update", "cascade"})
PostgresCredentials   == Table(ByOrg, ByOrg, {"delete"})
PostgresStorage       == Table({"app"}, {"app"}, {"delete"})
PostgresPools         == Table(ByOrg, ByOrg, {})
PostgresAccess        == Table({"app"}, {"app"}, {})
PostgresScopedKeys    == ByApp
PostgresKeys          == Table(ByApp, PostgresScopedKeys, {"update"})
PostgresGenerations   == Table(ByApp, ByApp, {"update"})
PostgresLogs          == Table(ByApp, ByApp, {})
PostgresArtifacts     == Table(ByApp, ByApp, {})
PostgresDeliveries    == Table({}, {}, {})
PostgresAudit         == Table(ByOrg, ByOrg, {})
PostgresInvitations   == Table(ByOrg, ByOrg, {})

PostgresDeleteOrganization ==
  {"delivery", "artifact", "log", "generation", "key", "audit", "invitation", "credential",
   "pool", "member", "access", "storage", "app", "org"}
PostgresDeleteApplication  ==
  {"delivery", "artifact", "log", "generation", "key", "access", "storage", "app"}
PostgresAppKeys           == {"app"}
PostgresTenantGenerations == ByApp
PostgresOwnerGenerations  == ByApp
PostgresTenantLogs        == ByApp
PostgresTenantAudit       == ByOrg
PostgresTenantListings    ==
  [key |-> PostgresAppKeys, generation |-> PostgresTenantGenerations, owned |-> PostgresOwnerGenerations,
   log |-> PostgresTenantLogs, audit |-> PostgresTenantAudit]

----------------------------------------------------------------------------
(* Both, by the management store (management/sql.rs).  end_users refers to *)
(* organizations ON DELETE CASCADE.                                        *)

EndUsers == Table(ByOrg, ByOrg, {"delete"})
Limits   == Table({}, ByOrg, {"delete"})

\* Rows of the gateway itself, and what a handler clears or sends.
Platform == Table({}, {}, {"delete"})

----------------------------------------------------------------------------
Shared == [end_user |-> EndUsers, limits |-> Limits, model |-> Platform,
           setting |-> Platform, cache |-> Platform, webhook |-> Platform]

Stores ==
  [sqlite |->
     [org |-> SqliteOrganizations, member |-> SqliteMembers, app |-> SqliteApps,
      credential |-> SqliteCredentials, storage |-> SqliteStorage, pool |-> SqlitePools,
      access |-> SqliteAccess, key |-> SqliteKeys, generation |-> SqliteGenerations,
      log |-> SqliteLogs, artifact |-> SqliteArtifacts, delivery |-> SqliteDeliveries,
      audit |-> SqliteAudit, invitation |-> SqliteInvitations],
   postgres |->
     [org |-> PostgresOrganizations, member |-> PostgresMembers, app |-> PostgresApps,
      credential |-> PostgresCredentials, storage |-> PostgresStorage, pool |-> PostgresPools,
      access |-> PostgresAccess, key |-> PostgresKeys, generation |-> PostgresGenerations,
      log |-> PostgresLogs, artifact |-> PostgresArtifacts, delivery |-> PostgresDeliveries,
      audit |-> PostgresAudit, invitation |-> PostgresInvitations]]

OrgCascade == [sqlite |-> SqliteDeleteOrganization, postgres |-> PostgresDeleteOrganization]
AppCascade == [sqlite |-> SqliteDeleteApplication, postgres |-> PostgresDeleteApplication]
TenantListings == [sqlite |-> SqliteTenantListings, postgres |-> PostgresTenantListings]
=============================================================================
