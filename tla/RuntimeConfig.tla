---------------------------- MODULE RuntimeConfig ---------------------------
(***************************************************************************)
(* The configuration an administrator changes while the gateway runs       *)
(* (api/handlers/management/admin.rs, management/runtime.rs): gateway      *)
(* settings and model routes, runtime models, the enabled flag of every    *)
(* model, and a provider's keys.  A change is a statement on a table and   *)
(* then an update of the maps that requests read, several awaits later;    *)
(* changes run concurrently, fail in between, and a restart loads the      *)
(* tables again.                                                           *)
(***************************************************************************)
EXTENDS Naturals, FiniteSets

CONSTANTS
  Calls,        \* requests of administrators
  Models,       \* model ids
  Catalog,      \* those that models/*.yaml defines
  Values,       \* settings documents, route lists, model schemas
  Fields,       \* the fields of ProviderSecrets
  Credentials,  \* those that alone make a provider usable: api_key(s), key_id
  Secrets,      \* what a field may hold
  Bodies,       \* what PUT /v1/admin/providers/{name} may ask
  Env,          \* the provider's config of the environment or YAML
  Seals,        \* keys LITEGEN__SECRETS_KEY may hold
  Off,          \* the mark of a disabled model
  None,
  MaxFaults,    \* bound on calls that are cut short
  MaxRestarts   \* bound on restarts

Setting == {"gateway", "routes"}

Held == [Fields -> Secrets \cup {None}]

Body == [secrets : Held, enabled : {TRUE, FALSE, None}]

\* A row of provider_configs: the secrets, what they are sealed with, and the settings.
Row == [secrets : Held, seal : Seals \cup {None}, enabled : {TRUE, FALSE, None}]

Items ==
  ({"setting"} \X Setting) \cup ({"schema"} \X (Models \ Catalog))
    \cup ({"mark"} \X Models) \cup {<<"provider", "p">>}

Steps == {"idle", "read", "store", "copy", "publish", "apply", "readback",
          "image", "video", "config", "done"}

ASSUME ConfigAssumption ==
  /\ Catalog \subseteq Models /\ Credentials \subseteq Fields
  /\ Bodies \subseteq Body
  /\ Env \in [secrets : Held, enabled : BOOLEAN]
  /\ None \notin Values \cup Secrets \cup Seals \cup Held \cup Row \cup Body \cup BOOLEAN \cup {Off}
  /\ MaxFaults \in Nat /\ MaxRestarts \in Nat

VARIABLES
  settings,    \* table gateway_settings
  overrides,   \* ProxyRouter::overrides
  schemas,     \* table runtime_models
  runtime,     \* CapabilityRegistry::runtime
  states,      \* the models table model_states has as disabled
  disabled,    \* CapabilityRegistry::disabled
  config,      \* the provider's row of provider_configs
  adapters,    \* the provider's entries in the three maps of ProviderRegistry
  secretsKey,  \* AppState::secrets_key
  calls,
  torn,        \* history: items a call left between table and maps, or that calls met on
  faults, restarts

tables == <<settings, schemas, states, config>>
maps == <<overrides, runtime, disabled, adapters>>
vars == <<tables, maps, secretsKey, calls, torn, faults, restarts>>

----------------------------------------------------------------------------
(* What a provider's row means *)

Slot == {"image", "video", "config"}

Everywhere(instance) == [s \in Slot |-> instance]

\* The instance a config builds: none when it is disabled or has no credentials.
Instance(secrets, enabled) ==
  IF enabled /\ \E f \in Credentials : secrets[f] # None THEN secrets ELSE None

\* ProviderRegistry::init_from_config: the config of the environment alone.
Plain == Instance(Env.secrets, Env.enabled)

\* ProviderSecrets::or: every unset field is filled from other.
Or(secrets, other) ==
  [f \in Fields |-> IF secrets[f] # None THEN secrets[f] ELSE other[f]]

\* effective_config: what the row sets wins, the rest is the environment's.
Effective(row) ==
  IF row = None THEN Plain
  ELSE Instance(Or(row.secrets, Env.secrets),
                IF row.enabled # None THEN row.enabled ELSE Env.enabled)

\* decrypt_secrets succeeds: there are none, or the key is the one they were sealed with.
Opens(row, key) == row.seal = None \/ row.seal = key

Blank == [f \in Fields |-> None]

\* What is served after a boot over the row: one that does not decrypt is not applied.
Booted(row, key) == IF row # None /\ ~Opens(row, key) THEN Plain ELSE Effective(row)

----------------------------------------------------------------------------
(* Calls *)

Idle == [step |-> "idle", item |-> None, value |-> None, kept |-> None, alone |-> TRUE]

Done == [Idle EXCEPT !.step = "done"]

Pending(c) == calls[c].step \notin {"idle", "done"}

\* Calls c and those in met work on the same thing: any of them may be left torn.
Meet(c, call, met) ==
  /\ calls' = [d \in Calls |->
       CASE d = c -> [call EXCEPT !.alone = @ /\ met = {}]
         [] d \in met -> [calls[d] EXCEPT !.alone = FALSE]
         [] OTHER -> calls[d]]
  /\ torn' = IF met = {} THEN torn
             ELSE torn \cup {call.item} \cup {calls[d].item : d \in met}

\* What an administrator may ask: None deletes.
Asks ==
  [item : {"setting"} \X Setting, value : Values]
    \cup [item : {<<"setting", "routes">>}, value : {None}]
    \cup [item : {"schema"} \X (Models \ Catalog), value : Values \cup {None}]
    \cup [item : {"mark"} \X Models, value : {Off, None}]
    \cup [item : {<<"provider", "p">>}, value : Bodies \cup {None}]

\* A model is enabled or disabled only when it is known.
Admitted == {ask \in Asks :
  ask.item[1] = "mark" => ask.item[2] \in Catalog \/ runtime[ask.item[2]] # None}

\* A new call; it may meet others on its item.
Begin(c) ==
  /\ calls[c].step = "idle"
  /\ \E ask \in Admitted :
       Meet(c, [step |-> IF ask.item[1] = "provider" /\ ask.value # None THEN "read" ELSE "store",
                item |-> ask.item, value |-> ask.value, kept |-> None, alone |-> TRUE],
            {d \in Calls : Pending(d) /\ calls[d].item = ask.item})
  /\ UNCHANGED <<tables, maps, secretsKey, faults, restarts>>

Goto(c, step) == calls' = [calls EXCEPT ![c].step = step]

Keep(c, step, kept) == calls' = [calls EXCEPT ![c].step = step, ![c].kept = kept]

\* The call answers without having touched its item.
Refuse(c) == calls' = [calls EXCEPT ![c] = Done] /\ UNCHANGED torn

\* The call answers; one that met no other leaves its item as its table has it.
Answer(c) ==
  /\ calls' = [calls EXCEPT ![c] = Done]
  /\ torn' = IF calls[c].alone THEN torn \ {calls[c].item} ELSE torn

----------------------------------------------------------------------------
(* Settings and routes *)

StoreSetting(c) ==
  /\ calls[c].step = "store" /\ calls[c].item[1] = "setting"
  /\ settings' = [settings EXCEPT ![calls[c].item[2]] = calls[c].value]
  /\ Goto(c, "copy")
  /\ UNCHANGED <<schemas, states, config, maps, secretsKey, torn, faults, restarts>>

\* The overrides are cloned, one of them is replaced ...
CopyOverrides(c) ==
  /\ calls[c].step = "copy"
  /\ Meet(c, [calls[c] EXCEPT !.step = "publish",
                 !.kept = [overrides EXCEPT ![calls[c].item[2]] = calls[c].value]],
          {d \in Calls : calls[d].step = "publish"})
  /\ UNCHANGED <<tables, maps, secretsKey, faults, restarts>>

\* A mutation: only the override in question is kept.
SetOneOverride(c) ==
  /\ calls[c].step = "publish"
  /\ overrides' = [k \in Setting |-> IF k = calls[c].item[2] THEN calls[c].kept[k] ELSE None]
  /\ Answer(c)
  /\ UNCHANGED <<tables, runtime, disabled, adapters, secretsKey, faults, restarts>>

\* ... and both are written back, with no await in between.
SetOverrides(c) ==
  /\ calls[c].step = "publish"
  /\ overrides' = calls[c].kept
  /\ Answer(c)
  /\ UNCHANGED <<tables, runtime, disabled, adapters, secretsKey, faults, restarts>>

----------------------------------------------------------------------------
(* Models *)

\* A schema is created or replaced, or deleted, which answers 404 without a row.
StoreSchema(c) ==
  LET m == calls[c].item[2] IN
  /\ calls[c].step = "store" /\ calls[c].item[1] = "schema"
  /\ IF calls[c].value = None /\ schemas[m] = None
       THEN Refuse(c)
       ELSE Goto(c, "apply") /\ UNCHANGED torn
  /\ schemas' = [schemas EXCEPT ![m] = calls[c].value]
  /\ UNCHANGED <<settings, states, config, maps, secretsKey, faults, restarts>>

ApplySchema(c) ==
  /\ calls[c].step = "apply" /\ calls[c].item[1] = "schema"
  /\ runtime' = [runtime EXCEPT ![calls[c].item[2]] = calls[c].value]
  /\ Answer(c)
  /\ UNCHANGED <<tables, overrides, disabled, adapters, secretsKey, faults, restarts>>

Marked(set, c) ==
  IF calls[c].value = Off THEN set \cup {calls[c].item[2]} ELSE set \ {calls[c].item[2]}

StoreMark(c) ==
  /\ calls[c].step = "store" /\ calls[c].item[1] = "mark"
  /\ states' = Marked(states, c)
  /\ Goto(c, "apply")
  /\ UNCHANGED <<settings, schemas, config, maps, secretsKey, torn, faults, restarts>>

ApplyMark(c) ==
  /\ calls[c].step = "apply" /\ calls[c].item[1] = "mark"
  /\ disabled' = Marked(disabled, c)
  /\ Answer(c)
  /\ UNCHANGED <<tables, overrides, runtime, adapters, secretsKey, faults, restarts>>

----------------------------------------------------------------------------
(* Providers *)

\* A mutation: the secrets that are kept are not looked up.
ReadNothing(c) ==
  /\ calls[c].step = "read"
  /\ Keep(c, "store", Blank)
  /\ UNCHANGED <<tables, maps, secretsKey, torn, faults, restarts>>

\* PUT reads the row whose secrets it keeps; one that does not decrypt is an error.
ReadConfig(c) ==
  /\ calls[c].step = "read"
  /\ IF config # None /\ ~Opens(config, secretsKey)
       THEN Refuse(c)
       ELSE /\ Keep(c, "store", IF config = None THEN Blank ELSE config.secrets)
            /\ UNCHANGED torn
  /\ UNCHANGED <<tables, maps, secretsKey, faults, restarts>>

\* The fields PUT left out are those it read; secrets need a key to be stored.
StoreConfig(c) ==
  LET merged == Or(calls[c].value.secrets, calls[c].kept) IN
  /\ calls[c].step = "store" /\ calls[c].item[1] = "provider" /\ calls[c].value # None
  /\ IF merged # Blank /\ secretsKey = None
       THEN Refuse(c) /\ UNCHANGED config
       ELSE /\ config' = [secrets |-> merged, enabled |-> calls[c].value.enabled,
                          seal |-> IF merged = Blank THEN None ELSE secretsKey]
            /\ Keep(c, "readback", None)
            /\ UNCHANGED torn
  /\ UNCHANGED <<settings, schemas, states, maps, secretsKey, faults, restarts>>

DeleteConfig(c) ==
  /\ calls[c].step = "store" /\ calls[c].item[1] = "provider" /\ calls[c].value = None
  /\ IF config = None THEN Refuse(c) ELSE Goto(c, "readback") /\ UNCHANGED torn
  /\ config' = None
  /\ UNCHANGED <<settings, schemas, states, maps, secretsKey, faults, restarts>>

\* apply_provider reads the row again and builds what it is to serve.
ReadBack(c) ==
  /\ calls[c].step = "readback"
  /\ IF config # None /\ ~Opens(config, secretsKey)
       THEN Refuse(c)
       ELSE Keep(c, "image", Effective(config)) /\ UNCHANGED torn
  /\ UNCHANGED <<tables, maps, secretsKey, faults, restarts>>

\* register_provider and unregister_provider lock one map after the other.
Register(c) ==
  /\ calls[c].step \in Slot
  /\ adapters' = [adapters EXCEPT ![calls[c].step] = calls[c].kept]
  /\ IF calls[c].step = "config" THEN Answer(c)
     ELSE /\ Goto(c, IF calls[c].step = "image" THEN "video" ELSE "config")
          /\ UNCHANGED torn
  /\ UNCHANGED <<tables, overrides, runtime, disabled, secretsKey, faults, restarts>>

----------------------------------------------------------------------------
(* Faults *)

\* A statement fails or the client goes away: the handler is dropped at an await.
Abandon(c) ==
  /\ faults < MaxFaults
  /\ Pending(c) /\ calls[c].step # "publish"
  /\ faults' = faults + 1
  /\ calls' = [calls EXCEPT ![c] = Done]
  /\ torn' = IF calls[c].step \in {"read", "store"} THEN torn ELSE torn \cup {calls[c].item}
  /\ UNCHANGED <<tables, maps, secretsKey, restarts>>

\* The process starts again, perhaps with another key, and apply_at_boot loads the
\* tables; when a table cannot be read, it and those after it stay unloaded.
Restart(key, loaded) ==
  /\ restarts < MaxRestarts
  /\ restarts' = restarts + 1
  /\ secretsKey' = key
  /\ calls' = [c \in Calls |-> IF Pending(c) THEN Done ELSE calls[c]]
  /\ overrides' = [k \in Setting |-> IF loaded >= 1 THEN settings[k] ELSE None]
  /\ runtime' = [m \in Models \ Catalog |-> IF loaded >= 2 THEN schemas[m] ELSE None]
  /\ disabled' = IF loaded >= 3 THEN states ELSE {}
  /\ adapters' = Everywhere(IF loaded >= 4 THEN Booted(config, key) ELSE Plain)
  /\ torn' = {i \in Items :
                loaded < CASE i[1] = "setting" -> 1 [] i[1] = "schema" -> 2
                           [] i[1] = "mark" -> 3 [] OTHER -> 4}
  /\ UNCHANGED <<tables, faults>>

----------------------------------------------------------------------------
Init ==
  /\ settings = [k \in Setting |-> None] /\ overrides = settings
  /\ schemas = [m \in Models \ Catalog |-> None] /\ runtime = schemas
  /\ states = {} /\ disabled = {}
  /\ config = None /\ adapters = Everywhere(Plain)
  /\ secretsKey \in Seals \cup {None}
  /\ calls = [c \in Calls |-> Idle]
  /\ torn = {} /\ faults = 0 /\ restarts = 0

Handle(c) ==
  \/ Begin(c) \/ StoreSetting(c) \/ CopyOverrides(c) \/ SetOverrides(c)
  \/ StoreSchema(c) \/ ApplySchema(c) \/ StoreMark(c) \/ ApplyMark(c)
  \/ ReadConfig(c) \/ StoreConfig(c) \/ DeleteConfig(c) \/ ReadBack(c) \/ Register(c)

Next ==
  \/ \E c \in Calls : Handle(c) \/ Abandon(c)
  \/ \E key \in Seals \cup {None}, loaded \in 0 .. 4 : Restart(key, loaded)

Spec == Init /\ [][Next]_vars

----------------------------------------------------------------------------
(* Properties *)

ConfigTypeOK ==
  /\ settings \in [Setting -> Values \cup {None}]
  /\ overrides \in [Setting -> Values \cup {None}]
  /\ schemas \in [Models \ Catalog -> Values \cup {None}]
  /\ runtime \in [Models \ Catalog -> Values \cup {None}]
  /\ states \subseteq Models /\ disabled \subseteq Models
  /\ config \in Row \cup {None} /\ adapters \in [Slot -> Held \cup {None}]
  /\ secretsKey \in Seals \cup {None}
  /\ calls \in [Calls -> [step : Steps, item : Items \cup {None}, alone : BOOLEAN,
                          value : Values \cup Bodies \cup {Off, None},
                          kept : [Setting -> Values \cup {None}] \cup Held \cup {None}]]
  /\ torn \subseteq Items
  /\ faults \in 0 .. MaxFaults /\ restarts \in 0 .. MaxRestarts

\* What requests see of an item is what a boot would load.
Consistent(i) ==
  CASE i[1] = "setting" -> overrides[i[2]] = settings[i[2]]
    [] i[1] = "schema" -> runtime[i[2]] = schemas[i[2]]
    [] i[1] = "mark" -> i[2] \in disabled <=> i[2] \in states
    [] OTHER -> adapters = Everywhere(Booted(config, secretsKey))

\* "Every change applies to the next request without a restart and is persisted for the
\* next boot" (admin.rs): what is served is what the tables say, for every item that no
\* call is working on.  The exceptions are items two calls met on, a call was cut short
\* on or a boot could not load, and the next call that has such an item for itself ends
\* the exception.
ServedAsStored ==
  \A i \in Items \ torn :
    (\A c \in Calls : Pending(c) => calls[c].item # i) => Consistent(i)

\* The secrets of the provider's row.
Sealed == IF config = None THEN Blank ELSE config.secrets

\* "Secret fields left out keep their stored value" (put_provider): as long as changes of
\* the provider do not meet, a PUT stores what it was given and what was there, and
\* nothing that was deleted comes back.
SecretsMerged ==
  [][config' # config /\ config' # None /\ <<"provider", "p">> \notin torn =>
       \E c \in Calls : /\ calls[c].step = "store" /\ calls[c].value \in Bodies
                        /\ config'.secrets = Or(calls[c].value.secrets, Sealed)]_vars

=============================================================================
