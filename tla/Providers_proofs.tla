-------------------------- MODULE Providers_proofs --------------------------
(***************************************************************************)
(* Proofs about providers.  Their configuration: for any calls of          *)
(* administrators, models and secrets, what is served is what is stored.   *)
(* Their adapters: for any numbers of retries and polls, rows follow their *)
(* jobs, what is delivered is a result, and none is bought after its end.  *)
(***************************************************************************)
EXTENDS RuntimeConfig, Adapters, TLAPS

----------------------------------------------------------------------------
(* The inductive invariant *)

Provider == <<"provider", "p">>

\* Types of the tables and maps.
Stores ==
  /\ settings \in [Setting -> Values \cup {None}]
  /\ overrides \in [Setting -> Values \cup {None}]
  /\ schemas \in [Models \ Catalog -> Values \cup {None}]
  /\ runtime \in [Models \ Catalog -> Values \cup {None}]
  /\ states \subseteq Models /\ disabled \subseteq Models
  /\ config \in Row \cup {None} /\ adapters \in [Slot -> Held \cup {None}]
  /\ secretsKey \in Seals \cup {None}
  /\ torn \subseteq Items
  /\ faults \in 0 .. MaxFaults /\ restarts \in 0 .. MaxRestarts

\* What a call holds at its step.
CallOK(call) ==
  /\ call.step \notin {"idle", "done"} =>
       [item |-> call.item, value |-> call.value] \in Asks
  /\ call.step \in {"copy", "publish"} => call.item[1] = "setting"
  /\ call.step = "publish" => call.kept \in [Setting -> Values \cup {None}]
  /\ call.step = "apply" => call.item[1] \in {"schema", "mark"}
  /\ call.step \in {"read", "readback"} \cup Slot => call.item[1] = "provider"
  /\ call.step = "read" => call.value # None
  /\ call.step = "store" /\ call.item[1] = "provider" /\ call.value # None => call.kept \in Held
  /\ call.step \in Slot => call.kept \in Held \cup {None}

CallType ==
  [step : Steps, item : Items \cup {None}, alone : BOOLEAN,
   value : Values \cup Bodies \cup {Off, None},
   kept : [Setting -> Values \cup {None}] \cup Held \cup {None}]

Types ==
  /\ Stores
  /\ calls \in [Calls -> CallType]
  /\ \A c \in Calls : CallOK(calls[c])

\* A call that is alone has its item to itself, and its overrides; one that is not has
\* torn its item.
Apart ==
  \A c \in Calls : Pending(c) =>
    /\ calls[c].alone =>
         \A d \in Calls \ {c} :
           /\ Pending(d) => calls[d].item # calls[c].item
           /\ calls[c].step = "publish" => calls[d].step # "publish"
    /\ ~calls[c].alone => calls[c].item \in torn

\* The setting a call is not about.
Kept ==
  \A c \in Calls, k \in Setting :
    calls[c].step = "publish" /\ k # calls[c].item[2] /\ <<"setting", k>> \notin torn
      => calls[c].kept[k] = overrides[k]

\* How far a call that is alone has come.
Progress(c) ==
  LET k == calls[c] IN
  /\ k.step \in {"copy", "publish"} => settings[k.item[2]] = k.value
  /\ k.step = "publish" => k.kept[k.item[2]] = k.value
  /\ k.step = "apply" /\ k.item[1] = "schema" => schemas[k.item[2]] = k.value
  /\ k.step = "apply" /\ k.item[1] = "mark" => (k.item[2] \in states <=> k.value = Off)
  /\ k.step = "store" /\ k.item[1] = "provider" /\ k.value # None => k.kept = Sealed
  /\ k.step \in {"readback"} \cup Slot => config = None \/ Opens(config, secretsKey)
  /\ k.step \in Slot => k.kept = Effective(config)
  /\ k.step \in {"video", "config"} => adapters["image"] = k.kept
  /\ k.step = "config" => adapters["video"] = k.kept

Progressed == \A c \in Calls : Pending(c) /\ calls[c].alone => Progress(c)

\* An item no call has touched is served as it is stored.
Untouched(i) ==
  \A c \in Calls : Pending(c) /\ calls[c].item = i => calls[c].step \in {"read", "store"}

Served == \A i \in Items \ torn : Untouched(i) => Consistent(i)

CInv == Types /\ Apart /\ Kept /\ Progressed /\ Served

----------------------------------------------------------------------------
(* Items and calls *)

LEMMA ItemParts ==
  ASSUME NEW i \in Items
  PROVE  /\ i = <<i[1], i[2]>>
         /\ i[1] \in {"setting", "schema", "mark", "provider"}
         /\ i[1] = "setting" => i[2] \in Setting
         /\ i[1] = "schema" => i[2] \in Models \ Catalog
         /\ i[1] = "mark" => i[2] \in Models
         /\ i[1] = "provider" => i = Provider
  BY DEF Items, Provider

LEMMA ItemsOf ==
  /\ \A k \in Setting : <<"setting", k>> \in Items
  /\ \A m \in Models \ Catalog : <<"schema", m>> \in Items
  /\ \A m \in Models : <<"mark", m>> \in Items
  /\ Provider \in Items
  BY DEF Items, Provider

\* Two items of one kind are the same if they name the same thing.
LEMMA SameItem ==
  ASSUME NEW i \in Items, NEW j \in Items, i[1] = j[1], i[2] = j[2]
  PROVE  i = j
  BY ItemParts

LEMMA AskParts ==
  ASSUME NEW item, NEW value, [item |-> item, value |-> value] \in Asks
  PROVE  /\ item \in Items
         /\ item[1] = "setting" => value \in Values \cup {None}
         /\ item[1] = "schema" => value \in Values \cup {None}
         /\ item[1] = "mark" => value \in {Off, None}
         /\ item[1] = "provider" => value \in Bodies \cup {None}
         /\ value \in Values \cup Bodies \cup {Off, None}
  <1> DEFINE a == [item |-> item, value |-> value]
  <1>1. a.item = item /\ a.value = value
    OBVIOUS
  <1>2. CASE a \in [item : {"setting"} \X Setting, value : Values]
    BY <1>1, <1>2 DEF Items
  <1>3. CASE a \in [item : {<<"setting", "routes">>}, value : {None}]
    BY <1>1, <1>3 DEF Items, Setting
  <1>4. CASE a \in [item : {"schema"} \X (Models \ Catalog), value : Values \cup {None}]
    BY <1>1, <1>4 DEF Items
  <1>5. CASE a \in [item : {"mark"} \X Models, value : {Off, None}]
    BY <1>1, <1>5 DEF Items
  <1>6. CASE a \in [item : {<<"provider", "p">>}, value : Bodies \cup {None}]
    BY <1>1, <1>6 DEF Items
  <1> QED BY <1>2, <1>3, <1>4, <1>5, <1>6 DEF Asks

\* A call that is under way: its item and what it may hold.
LEMMA Asked ==
  ASSUME Types, NEW c \in Calls, Pending(c)
  PROVE  /\ calls[c].item \in Items
         /\ calls[c].item[1] = "setting" => calls[c].value \in Values \cup {None}
         /\ calls[c].item[1] = "schema" => calls[c].value \in Values \cup {None}
         /\ calls[c].item[1] = "mark" => calls[c].value \in {Off, None}
         /\ calls[c].item[1] = "provider" => calls[c].value \in Bodies \cup {None}
         /\ calls[c].value \in Values \cup Bodies \cup {Off, None}
         /\ calls[c].alone \in BOOLEAN
  <1>1. CallOK(calls[c]) /\ calls[c] \in CallType
    BY DEF Types
  <1>2. [item |-> calls[c].item, value |-> calls[c].value] \in Asks
    BY <1>1 DEF CallOK, Pending
  <1> QED BY <1>1, <1>2, AskParts DEF CallType

\* The steps in which one call moves, and calls are otherwise as they were.
Only(c, call) == calls' = [calls EXCEPT ![c] = call]

Elsewhere(c) == \A d \in Calls \ {c} : calls'[d] = calls[d]

LEMMA DoneOK == CallOK(Done) /\ Done \in CallType
  BY DEF CallOK, Done, Idle, CallType, Steps, Slot

LEMMA Moves ==
  ASSUME Types, NEW c \in Calls, NEW step \in Steps, NEW kept,
         kept \in [Setting -> Values \cup {None}] \cup Held \cup {None},
         NEW call, call = [calls[c] EXCEPT !.step = step, !.kept = kept], CallOK(call),
         Only(c, call)
  PROVE  /\ calls' \in [Calls -> CallType]
         /\ \A d \in Calls : CallOK(calls'[d])
  <1>1. call \in CallType
    BY DEF Types, CallType
  <1>2. calls'[c] = call /\ Elsewhere(c)
    BY DEF Types, Only, Elsewhere
  <1> QED BY <1>1, <1>2 DEF Types, Only, Elsewhere

LEMMA Ends ==
  ASSUME Types, NEW c \in Calls, Only(c, Done)
  PROVE  /\ calls' \in [Calls -> CallType]
         /\ \A d \in Calls : CallOK(calls'[d])
  BY DoneOK DEF Types, Only

LEMMA GotoMoves ==
  ASSUME Types, NEW c \in Calls, NEW step \in Steps, Goto(c, step),
         CallOK([calls[c] EXCEPT !.step = step])
  PROVE  /\ calls' \in [Calls -> CallType]
         /\ \A d \in Calls : CallOK(calls'[d])
         /\ calls'[c] = [calls[c] EXCEPT !.step = step]
         /\ Elsewhere(c)
  <1> DEFINE call == [calls[c] EXCEPT !.step = step]
  <1>1. calls[c] \in CallType
    BY DEF Types
  <1>2. call \in CallType
    BY <1>1 DEF CallType
  <1>3. calls' = [calls EXCEPT ![c] = call]
    BY DEF Goto
  <1> QED BY <1>2, <1>3 DEF Types, Elsewhere

LEMMA KeepMoves ==
  ASSUME Types, NEW c \in Calls, NEW step \in Steps, NEW kept, Keep(c, step, kept),
         kept \in [Setting -> Values \cup {None}] \cup Held \cup {None},
         CallOK([calls[c] EXCEPT !.step = step, !.kept = kept])
  PROVE  /\ calls' \in [Calls -> CallType]
         /\ \A d \in Calls : CallOK(calls'[d])
         /\ calls'[c] = [calls[c] EXCEPT !.step = step, !.kept = kept]
         /\ Elsewhere(c)
  <1> DEFINE call == [calls[c] EXCEPT !.step = step, !.kept = kept]
  <1>1. calls[c] \in CallType
    BY DEF Types
  <1>2. call \in CallType
    BY <1>1 DEF CallType
  <1>3. calls' = [calls EXCEPT ![c] = call]
    BY DEF Keep
  <1> QED BY <1>2, <1>3 DEF Types, Elsewhere

LEMMA RefuseEnds ==
  ASSUME Types, NEW c \in Calls, Refuse(c)
  PROVE  /\ calls' \in [Calls -> CallType]
         /\ \A d \in Calls : CallOK(calls'[d])
         /\ calls'[c] = Done /\ Elsewhere(c) /\ torn' = torn
  BY Ends DEF Refuse, Types, Elsewhere, Only

LEMMA AnswerEnds ==
  ASSUME Types, NEW c \in Calls, Answer(c)
  PROVE  /\ calls' \in [Calls -> CallType]
         /\ \A d \in Calls : CallOK(calls'[d])
         /\ calls'[c] = Done /\ Elsewhere(c)
         /\ torn' \subseteq Items
         /\ torn' = IF calls[c].alone THEN torn \ {calls[c].item} ELSE torn
  BY Ends DEF Answer, Types, Elsewhere, Only, Stores

\* Meeting changes nothing of the others but that they are not alone.
LEMMA Meets ==
  ASSUME Types, NEW c \in Calls, NEW call \in CallType, CallOK(call), call.item \in Items,
         NEW met \in SUBSET Calls, c \notin met, \A d \in met : Pending(d), Meet(c, call, met)
  PROVE  /\ calls' \in [Calls -> CallType]
         /\ \A d \in Calls : CallOK(calls'[d])
         /\ calls'[c] = [call EXCEPT !.alone = call.alone /\ met = {}]
         /\ \A d \in met : calls'[d] = [calls[d] EXCEPT !.alone = FALSE]
         /\ \A d \in Calls \ (met \cup {c}) : calls'[d] = calls[d]
         /\ torn' \subseteq Items /\ torn \subseteq torn'
         /\ met # {} => /\ call.item \in torn'
                        /\ \A d \in met : calls[d].item \in torn'
         /\ met = {} => torn' = torn
  <1>1. calls'[c] = [call EXCEPT !.alone = call.alone /\ met = {}]
    BY DEF Meet
  <1>2. \A d \in met : calls'[d] = [calls[d] EXCEPT !.alone = FALSE]
    BY DEF Meet
  <1>3. \A d \in Calls \ (met \cup {c}) : calls'[d] = calls[d]
    BY DEF Meet
  <1>4. calls'[c] \in CallType /\ CallOK(calls'[c])
    BY <1>1 DEF CallType, CallOK
  <1>5. ASSUME NEW d \in met
        PROVE  calls'[d] \in CallType /\ CallOK(calls'[d])
    <2>1. calls[d] \in CallType /\ CallOK(calls[d])
      BY DEF Types
    <2>2. calls'[d] = [calls[d] EXCEPT !.alone = FALSE]
      BY <1>2
    <2> QED BY <2>1, <2>2 DEF CallType, CallOK
  <1>6. \A d \in Calls : calls'[d] \in CallType /\ CallOK(calls'[d])
    BY <1>3, <1>4, <1>5 DEF Types
  <1>7. calls' \in [Calls -> CallType]
    <2>1. calls' = [d \in Calls |-> calls'[d]]
      BY DEF Meet
    <2> QED BY <2>1, <1>6
  <1>8. \A d \in met : calls[d].item \in Items
    BY Asked
  <1>9. torn \subseteq Items
    BY DEF Types, Stores
  <1>10. torn' \subseteq Items /\ torn \subseteq torn'
    BY <1>8, <1>9 DEF Meet
  <1>11. met # {} => /\ call.item \in torn'
                     /\ \A d \in met : calls[d].item \in torn'
    BY DEF Meet
  <1>12. met = {} => torn' = torn
    BY DEF Meet
  <1> QED BY <1>1, <1>2, <1>3, <1>6, <1>7, <1>10, <1>11, <1>12

----------------------------------------------------------------------------
(* Types *)

LEMMA OrHeld ==
  ASSUME NEW a \in Held, NEW b \in Held
  PROVE  Or(a, b) \in Held
  BY DEF Or, Held

LEMMA EffectiveHeld ==
  ASSUME config \in Row \cup {None}
  PROVE  /\ Plain \in Held \cup {None}
         /\ Effective(config) \in Held \cup {None}
         /\ Blank \in Held
         /\ config # None => config.secrets \in Held
         /\ Sealed \in Held
  <1>1. Plain \in Held \cup {None}
    BY ConfigAssumption DEF Plain, Instance
  <1>2. Blank \in Held
    BY DEF Blank, Held
  <1>3. config # None => config.secrets \in Held
    BY DEF Row
  <1>4. config # None => Or(config.secrets, Env.secrets) \in Held
    BY <1>3, OrHeld, ConfigAssumption
  <1>5. Effective(config) \in Held \cup {None}
    BY <1>1, <1>4 DEF Effective, Instance
  <1> QED BY <1>1, <1>2, <1>3, <1>5 DEF Sealed

LEMMA SlotSteps == Slot \subseteq Steps
  BY DEF Slot, Steps

LEMMA BeginTypes ==
  ASSUME Types, NEW c \in Calls, Begin(c)
  PROVE  Types'
  <1>1. PICK ask \in Admitted :
          Meet(c, [step |-> IF ask.item[1] = "provider" /\ ask.value # None THEN "read" ELSE "store",
                   item |-> ask.item, value |-> ask.value, kept |-> None, alone |-> TRUE],
               {d \in Calls : Pending(d) /\ calls[d].item = ask.item})
    BY DEF Begin
  <1> DEFINE call == [step |-> IF ask.item[1] = "provider" /\ ask.value # None
                               THEN "read" ELSE "store",
                      item |-> ask.item, value |-> ask.value, kept |-> None, alone |-> TRUE]
             met == {d \in Calls : Pending(d) /\ calls[d].item = ask.item}
  <1>2. [item |-> ask.item, value |-> ask.value] \in Asks
    <2>1. ask \in Asks
      BY DEF Admitted
    <2>2. ask = [item |-> ask.item, value |-> ask.value]
      BY <2>1 DEF Asks
    <2> QED BY <2>1, <2>2
  <1>3. /\ ask.item \in Items
        /\ ask.value \in Values \cup Bodies \cup {Off, None}
    BY <1>2, AskParts
  <1>4. call \in CallType
    BY <1>3 DEF CallType, Steps
  <1>5. CallOK(call)
    BY <1>2 DEF CallOK, Slot
  <1>6. c \notin met /\ met \in SUBSET Calls /\ \A d \in met : Pending(d)
    BY DEF Begin, Pending
  <1> HIDE DEF call, met
  <1>7. call.item \in Items
    BY <1>3 DEF call
  <1>8. Meet(c, call, met)
    BY <1>1 DEF call, met
  <1>9. /\ calls' \in [Calls -> CallType]
        /\ \A d \in Calls : CallOK(calls'[d])
        /\ torn' \subseteq Items
    BY <1>4, <1>5, <1>6, <1>7, <1>8, Meets
  <1>10. Stores'
    BY <1>9 DEF Begin, Stores, Types, tables, maps
  <1> QED BY <1>9, <1>10 DEF Types, CallOK

LEMMA SettingTypes ==
  ASSUME Types, NEW c \in Calls,
         StoreSetting(c) \/ CopyOverrides(c) \/ SetOverrides(c)
  PROVE  Types'
  <1>1. CASE StoreSetting(c)
    <2>1. Pending(c) /\ CallOK(calls[c]) /\ calls[c] \in CallType
      BY <1>1 DEF StoreSetting, Pending, Types
    <2>2. calls[c].item \in Items /\ calls[c].value \in Values \cup {None}
          /\ calls[c].item[2] \in Setting
      BY <1>1, <2>1, Asked, ItemParts DEF StoreSetting
    <2>3. CallOK([calls[c] EXCEPT !.step = "copy"])
      BY <1>1, <2>1 DEF StoreSetting, CallOK, Slot
    <2>4. calls' \in [Calls -> CallType] /\ \A d \in Calls : CallOK(calls'[d])
      BY <1>1, <2>3, GotoMoves DEF StoreSetting, Steps
    <2>5. Stores'
      BY <1>1, <2>2 DEF StoreSetting, Stores, Types, maps
    <2> QED BY <2>4, <2>5 DEF Types, CallOK
  <1>2. CASE CopyOverrides(c)
    <2> DEFINE call == [calls[c] EXCEPT !.step = "publish",
                 !.kept = [overrides EXCEPT ![calls[c].item[2]] = calls[c].value]]
               met == {d \in Calls : calls[d].step = "publish"}
    <2>1. Pending(c) /\ CallOK(calls[c]) /\ calls[c] \in CallType
      BY <1>2 DEF CopyOverrides, Pending, Types
    <2>2. calls[c].item \in Items /\ calls[c].value \in Values \cup {None}
          /\ calls[c].item[2] \in Setting /\ calls[c].item[1] = "setting"
      BY <1>2, <2>1, Asked, ItemParts DEF CopyOverrides, CallOK
    <2>3. [overrides EXCEPT ![calls[c].item[2]] = calls[c].value] \in [Setting -> Values \cup {None}]
      BY <2>2 DEF Types, Stores
    <2>4. call \in CallType /\ call.item \in Items
      BY <2>1, <2>2, <2>3 DEF CallType, Steps
    <2>5. CallOK(call)
      BY <1>2, <2>1, <2>2, <2>3 DEF CopyOverrides, CallOK, CallType, Slot
    <2>6. c \notin met /\ met \in SUBSET Calls /\ \A d \in met : Pending(d)
      BY <1>2 DEF CopyOverrides, Pending
    <2>7. Meet(c, call, met)
      BY <1>2 DEF CopyOverrides
    <2> HIDE DEF call, met
    <2>8. /\ calls' \in [Calls -> CallType]
          /\ \A d \in Calls : CallOK(calls'[d])
          /\ torn' \subseteq Items
      BY <2>4, <2>5, <2>6, <2>7, Meets
    <2>9. Stores'
      BY <1>2, <2>8 DEF CopyOverrides, Stores, Types, maps, tables
    <2> QED BY <2>8, <2>9 DEF Types, CallOK
  <1>3. CASE SetOverrides(c)
    <2>1. calls[c].kept \in [Setting -> Values \cup {None}]
      BY <1>3 DEF SetOverrides, Types, CallOK
    <2>2. /\ calls' \in [Calls -> CallType]
          /\ \A d \in Calls : CallOK(calls'[d])
          /\ torn' \subseteq Items
      BY <1>3, AnswerEnds DEF SetOverrides
    <2>3. Stores'
      BY <1>3, <2>1, <2>2 DEF SetOverrides, Stores, Types, tables
    <2> QED BY <2>2, <2>3 DEF Types, CallOK
  <1> QED BY <1>1, <1>2, <1>3

LEMMA ModelTypes ==
  ASSUME Types, NEW c \in Calls,
         StoreSchema(c) \/ ApplySchema(c) \/ StoreMark(c) \/ ApplyMark(c)
  PROVE  Types'
  <1>1. Pending(c) /\ CallOK(calls[c]) /\ calls[c] \in CallType
    BY DEF StoreSchema, ApplySchema, StoreMark, ApplyMark, Pending, Types
  <1>2. /\ calls[c].item \in Items
        /\ calls[c].item[1] = "schema" =>
             calls[c].value \in Values \cup {None} /\ calls[c].item[2] \in Models \ Catalog
        /\ calls[c].item[1] = "mark" => calls[c].item[2] \in Models
    BY <1>1, Asked, ItemParts
  <1>3. calls[c].step = "store" /\ calls[c].item[1] \in {"schema", "mark"}
          => CallOK([calls[c] EXCEPT !.step = "apply"])
    BY <1>1 DEF CallOK, CallType, Slot
  <1>4. CASE StoreSchema(c)
    <2>1. /\ calls' \in [Calls -> CallType]
          /\ \A d \in Calls : CallOK(calls'[d])
          /\ torn' = torn
      <3>1. CASE Refuse(c)
        BY <3>1, RefuseEnds
      <3>2. CASE Goto(c, "apply") /\ UNCHANGED torn
        BY <1>3, <1>4, <3>2, GotoMoves DEF StoreSchema, Steps
      <3> QED BY <1>4, <3>1, <3>2 DEF StoreSchema
    <2>2. Stores'
      BY <1>2, <1>4, <2>1 DEF StoreSchema, Stores, Types, maps
    <2> QED BY <2>1, <2>2 DEF Types, CallOK
  <1>5. CASE ApplySchema(c)
    <2>1. /\ calls' \in [Calls -> CallType]
          /\ \A d \in Calls : CallOK(calls'[d])
          /\ torn' \subseteq Items
      BY <1>5, AnswerEnds DEF ApplySchema
    <2>2. Stores'
      BY <1>2, <1>5, <2>1 DEF ApplySchema, Stores, Types, tables
    <2> QED BY <2>1, <2>2 DEF Types, CallOK
  <1>6. CASE StoreMark(c)
    <2>1. /\ calls' \in [Calls -> CallType]
          /\ \A d \in Calls : CallOK(calls'[d])
      BY <1>3, <1>6, GotoMoves DEF StoreMark, Steps
    <2>2. Stores'
      BY <1>2, <1>6 DEF StoreMark, Marked, Stores, Types, maps
    <2> QED BY <2>1, <2>2 DEF Types, CallOK
  <1>7. CASE ApplyMark(c)
    <2>1. /\ calls' \in [Calls -> CallType]
          /\ \A d \in Calls : CallOK(calls'[d])
          /\ torn' \subseteq Items
      BY <1>7, AnswerEnds DEF ApplyMark
    <2>2. Stores'
      BY <1>2, <1>7, <2>1 DEF ApplyMark, Marked, Stores, Types, tables
    <2> QED BY <2>1, <2>2 DEF Types, CallOK
  <1> QED BY <1>4, <1>5, <1>6, <1>7

LEMMA ProviderTypes ==
  ASSUME Types, NEW c \in Calls,
         ReadConfig(c) \/ StoreConfig(c) \/ DeleteConfig(c) \/ ReadBack(c) \/ Register(c)
  PROVE  Types'
  <1>1. Pending(c) /\ CallOK(calls[c]) /\ calls[c] \in CallType
    BY DEF ReadConfig, StoreConfig, DeleteConfig, ReadBack, Register, Slot, Pending, Types
  <1>2. /\ calls[c].item \in Items
        /\ calls[c].item[1] = "provider" => calls[c].value \in Bodies \cup {None}
    BY <1>1, Asked
  <1>3. config \in Row \cup {None}
    BY DEF Types, Stores
  <1>4. CASE ReadConfig(c)
    <2> DEFINE kept == IF config = None THEN Blank ELSE config.secrets
    <2>1. kept \in Held
      BY <1>3, EffectiveHeld
    <2> HIDE DEF kept
    <2>2. /\ calls' \in [Calls -> CallType]
          /\ \A d \in Calls : CallOK(calls'[d])
          /\ torn' = torn
      <3>1. CASE Refuse(c)
        BY <3>1, RefuseEnds
      <3>2. CASE Keep(c, "store", kept) /\ UNCHANGED torn
        <4>1. CallOK([calls[c] EXCEPT !.step = "store", !.kept = kept])
          BY <1>1, <1>4, <2>1 DEF ReadConfig, CallOK, CallType, Slot
        <4> QED BY <3>2, <2>1, <4>1, KeepMoves DEF Steps
      <3> QED BY <1>4, <3>1, <3>2 DEF ReadConfig, kept
    <2>3. Stores'
      BY <1>4, <2>2 DEF ReadConfig, Stores, Types, maps, tables
    <2> QED BY <2>2, <2>3 DEF Types, CallOK
  <1>5. CASE StoreConfig(c)
    <2> DEFINE merged == Or(calls[c].value.secrets, calls[c].kept)
               row == [secrets |-> merged, enabled |-> calls[c].value.enabled,
                       seal |-> IF merged = Blank THEN None ELSE secretsKey]
    <2>1. calls[c].kept \in Held /\ calls[c].value \in Body
      BY <1>1, <1>2, <1>5, ConfigAssumption DEF StoreConfig, CallOK
    <2>2. merged \in Held /\ calls[c].value.enabled \in {TRUE, FALSE, None}
      BY <2>1, OrHeld DEF Body
    <2>3. row \in Row
      BY <2>2 DEF Row, Types, Stores
    <2>4. /\ calls' \in [Calls -> CallType]
          /\ \A d \in Calls : CallOK(calls'[d])
          /\ torn' = torn
      <3>1. CASE Refuse(c)
        BY <3>1, RefuseEnds
      <3>2. CASE Keep(c, "readback", None) /\ UNCHANGED torn
        <4>1. CallOK([calls[c] EXCEPT !.step = "readback", !.kept = None])
          BY <1>1, <1>5 DEF StoreConfig, CallOK, CallType, Slot
        <4> QED BY <3>2, <4>1, KeepMoves DEF Steps
      <3> QED BY <1>5, <3>1, <3>2 DEF StoreConfig
    <2> HIDE DEF row
    <2>5. config' \in {config, row}
      BY <1>5 DEF StoreConfig, row
    <2>6. Stores'
      BY <1>5, <2>3, <2>4, <2>5 DEF StoreConfig, Stores, Types, maps
    <2> QED BY <2>4, <2>6 DEF Types, CallOK
  <1>6. CASE DeleteConfig(c)
    <2>1. /\ calls' \in [Calls -> CallType]
          /\ \A d \in Calls : CallOK(calls'[d])
          /\ torn' = torn
      <3>1. CASE Refuse(c)
        BY <3>1, RefuseEnds
      <3>2. CASE Goto(c, "readback") /\ UNCHANGED torn
        <4>1. CallOK([calls[c] EXCEPT !.step = "readback"])
          BY <1>1, <1>6 DEF DeleteConfig, CallOK, CallType, Slot
        <4> QED BY <3>2, <4>1, GotoMoves DEF Steps
      <3> QED BY <1>6, <3>1, <3>2 DEF DeleteConfig
    <2>2. Stores'
      BY <1>6, <2>1 DEF DeleteConfig, Stores, Types, maps
    <2> QED BY <2>1, <2>2 DEF Types, CallOK
  <1>7. CASE ReadBack(c)
    <2>1. Effective(config) \in Held \cup {None}
      BY <1>3, EffectiveHeld
    <2>2. /\ calls' \in [Calls -> CallType]
          /\ \A d \in Calls : CallOK(calls'[d])
          /\ torn' = torn
      <3>1. CASE Refuse(c)
        BY <3>1, RefuseEnds
      <3>2. CASE Keep(c, "image", Effective(config)) /\ UNCHANGED torn
        <4>1. CallOK([calls[c] EXCEPT !.step = "image", !.kept = Effective(config)])
          BY <1>1, <1>7, <2>1 DEF ReadBack, CallOK, CallType, Slot
        <4> QED BY <3>2, <2>1, <4>1, KeepMoves DEF Steps
      <3> QED BY <1>7, <3>1, <3>2 DEF ReadBack
    <2>3. Stores'
      BY <1>7, <2>2 DEF ReadBack, Stores, Types, maps, tables
    <2> QED BY <2>2, <2>3 DEF Types, CallOK
  <1>8. CASE Register(c)
    <2>1. calls[c].step \in Slot /\ calls[c].kept \in Held \cup {None}
      BY <1>1, <1>8 DEF Register, CallOK
    <2>2. /\ calls' \in [Calls -> CallType]
          /\ \A d \in Calls : CallOK(calls'[d])
          /\ torn' \subseteq Items
      <3>1. CASE Answer(c)
        BY <3>1, AnswerEnds
      <3>2. ASSUME NEW step \in Slot, Goto(c, step), UNCHANGED torn
            PROVE  /\ calls' \in [Calls -> CallType]
                   /\ \A d \in Calls : CallOK(calls'[d])
                   /\ torn' \subseteq Items
        <4>1. CallOK([calls[c] EXCEPT !.step = step])
          BY <1>1, <2>1, <3>2 DEF CallOK, CallType, Slot
        <4> QED BY <3>2, <4>1, GotoMoves, SlotSteps DEF Types, Stores
      <3> QED BY <1>8, <3>1, <3>2 DEF Register, Slot
    <2>3. Stores'
      BY <1>8, <2>1, <2>2 DEF Register, Stores, Types, tables
    <2> QED BY <2>2, <2>3 DEF Types, CallOK
  <1> QED BY <1>4, <1>5, <1>6, <1>7, <1>8

LEMMA BootedHeld ==
  ASSUME config \in Row \cup {None}, NEW key
  PROVE  Booted(config, key) \in Held \cup {None}
  BY EffectiveHeld DEF Booted

LEMMA FaultTypes ==
  ASSUME Types,
         \/ \E c \in Calls : Abandon(c)
         \/ \E key \in Seals \cup {None}, loaded \in 0 .. 4 : Restart(key, loaded)
  PROVE  Types'
  <1>1. ASSUME NEW c \in Calls, Abandon(c)
        PROVE  Types'
    <2>1. /\ calls' \in [Calls -> CallType]
          /\ \A d \in Calls : CallOK(calls'[d])
      BY <1>1, Ends DEF Abandon, Only
    <2>2. torn' \subseteq Items
      BY <1>1, Asked DEF Abandon, Types, Stores
    <2>3. faults' \in 0 .. MaxFaults
      BY <1>1, ConfigAssumption DEF Abandon, Types, Stores
    <2>4. Stores'
      BY <1>1, <2>2, <2>3 DEF Abandon, Stores, Types, maps, tables
    <2> QED BY <2>1, <2>4 DEF Types, CallOK
  <1>2. ASSUME NEW key \in Seals \cup {None}, NEW loaded \in 0 .. 4, Restart(key, loaded)
        PROVE  Types'
    <2>1. /\ calls' \in [Calls -> CallType]
          /\ \A d \in Calls : CallOK(calls'[d])
      BY <1>2, DoneOK DEF Restart, Types
    <2>2. torn' \subseteq Items
      BY <1>2 DEF Restart
    <2>3. restarts' \in 0 .. MaxRestarts
      BY <1>2, ConfigAssumption DEF Restart, Types, Stores
    <2>4. adapters' \in [Slot -> Held \cup {None}]
      <3>1. config \in Row \cup {None}
        BY DEF Types, Stores
      <3>2. Booted(config, key) \in Held \cup {None} /\ Plain \in Held \cup {None}
        BY <3>1, BootedHeld, EffectiveHeld
      <3> QED BY <1>2, <3>2 DEF Restart, Everywhere
    <2>5. /\ overrides' \in [Setting -> Values \cup {None}]
          /\ runtime' \in [Models \ Catalog -> Values \cup {None}]
      BY <1>2 DEF Restart, Types, Stores
    <2>6. disabled' \subseteq Models
      BY <1>2 DEF Restart, Types, Stores
    <2>7. /\ secretsKey' \in Seals \cup {None}
          /\ UNCHANGED <<settings, schemas, states, config, faults>>
      BY <1>2 DEF Restart, tables
    <2>8. Stores'
      BY <2>2, <2>3, <2>4, <2>5, <2>6, <2>7 DEF Stores, Types
    <2> QED BY <2>1, <2>8 DEF Types, CallOK
  <1> QED BY <1>1, <1>2

LEMMA TypesInit == Init => Types
  <1> SUFFICES ASSUME Init PROVE Types
    OBVIOUS
  <1>1. Idle \in CallType /\ CallOK(Idle)
    BY DEF Idle, CallType, CallOK, Steps, Slot
  <1>2. Plain \in Held \cup {None}
    BY ConfigAssumption DEF Plain, Instance
  <1>3. Stores
    BY <1>2, ConfigAssumption DEF Init, Stores, Everywhere
  <1> QED BY <1>1, <1>3 DEF Init, Types

LEMMA TypesStep == Types /\ [Next]_vars => Types'
  <1> SUFFICES ASSUME Types, [Next]_vars
               PROVE  Types'
    OBVIOUS
  <1>1. CASE UNCHANGED vars
    BY <1>1 DEF vars, tables, maps, Types, Stores, CallOK
  <1>2. ASSUME NEW c \in Calls, Handle(c)
        PROVE  Types'
    BY <1>2, BeginTypes, SettingTypes, ModelTypes, ProviderTypes DEF Handle
  <1> QED BY <1>1, <1>2, FaultTypes DEF Next

----------------------------------------------------------------------------
(* Calls that meet *)

\* What a step that is about one call does to the calls: it goes on with its item, or it
\* ends, and then frees its item only if it was alone.
Goes(c) ==
  /\ Elsewhere(c)
  /\ \/ /\ calls'[c].item = calls[c].item /\ calls'[c].alone = calls[c].alone
        /\ calls'[c].step # "publish" /\ Pending(c)
     \/ calls'[c] = Done
  /\ torn \subseteq torn' \/ (calls[c].alone /\ torn' = torn \ {calls[c].item})

LEMMA GoesApart ==
  ASSUME Types, Apart, NEW c \in Calls, Pending(c), Goes(c)
  PROVE  Apart'
  <1>1. ASSUME NEW d \in Calls, Pending(d)'
        PROVE  /\ Pending(d) /\ calls'[d].item = calls[d].item
               /\ calls'[d].alone = calls[d].alone
               /\ calls'[d].step = "publish" => calls[d].step = "publish"
    BY <1>1 DEF Goes, Elsewhere, Pending, Done, Idle
  <1>2. ASSUME NEW d \in Calls, Pending(d)', calls'[d].alone, NEW e \in Calls \ {d}
        PROVE  /\ Pending(e)' => calls'[e].item # calls'[d].item
               /\ calls'[d].step = "publish" => calls'[e].step # "publish"
    <2>1. calls'[e].step = "publish" => Pending(e)'
      BY DEF Pending
    <2> QED BY <1>1, <1>2, <2>1 DEF Apart
  <1>3. ASSUME NEW d \in Calls, Pending(d)', ~calls'[d].alone
        PROVE  calls'[d].item \in torn'
    <2>1. Pending(d) /\ ~calls[d].alone /\ calls[d].item \in torn
      BY <1>1, <1>3 DEF Apart
    <2>2. d # c /\ calls[c].alone => calls[d].item # calls[c].item
      BY <2>1 DEF Apart
    <2> QED BY <1>1, <1>3, <2>1, <2>2 DEF Goes, Pending
  <1> QED BY <1>2, <1>3 DEF Apart

LEMMA HandleGoes ==
  ASSUME Types, NEW c \in Calls, Handle(c), ~Begin(c), ~CopyOverrides(c)
  PROVE  Pending(c) /\ Goes(c)
  <1>1. ASSUME NEW step \in Steps, Goto(c, step), UNCHANGED torn, step # "publish", Pending(c)
        PROVE  Goes(c)
    BY <1>1 DEF Goto, Goes, Elsewhere, Types, CallType
  <1>2. ASSUME NEW step \in Steps, NEW kept, Keep(c, step, kept), UNCHANGED torn,
               step # "publish", Pending(c)
        PROVE  Goes(c)
    BY <1>2 DEF Keep, Goes, Elsewhere, Types, CallType
  <1>3. ASSUME Refuse(c)
        PROVE  Goes(c)
    BY <1>3, RefuseEnds DEF Goes
  <1>4. ASSUME Answer(c)
        PROVE  Goes(c)
    BY <1>4, AnswerEnds DEF Goes
  <1>5. CASE StoreSetting(c) \/ StoreMark(c)
    BY <1>1, <1>5 DEF StoreSetting, StoreMark, Pending, Steps
  <1>6. CASE SetOverrides(c) \/ ApplySchema(c) \/ ApplyMark(c)
    BY <1>4, <1>6 DEF SetOverrides, ApplySchema, ApplyMark, Pending
  <1>7. CASE StoreSchema(c) \/ DeleteConfig(c)
    BY <1>1, <1>3, <1>7 DEF StoreSchema, DeleteConfig, Pending, Steps
  <1>8. CASE ReadConfig(c)
    BY <1>2, <1>3, <1>8 DEF ReadConfig, Pending, Steps
  <1>9. CASE StoreConfig(c)
    BY <1>2, <1>3, <1>9 DEF StoreConfig, Pending, Steps
  <1>10. CASE ReadBack(c)
    BY <1>2, <1>3, <1>10 DEF ReadBack, Pending, Steps
  <1>11. CASE Register(c)
    BY <1>1, <1>4, <1>11 DEF Register, Pending, Steps, Slot
  <1> QED BY <1>5, <1>6, <1>7, <1>8, <1>9, <1>10, <1>11 DEF Handle

\* A call that copies the overrides, and one that begins, meets others.
Copied(c) == [calls[c] EXCEPT !.step = "publish",
                !.kept = [overrides EXCEPT ![calls[c].item[2]] = calls[c].value]]

On(item) == {d \in Calls : Pending(d) /\ calls[d].item = item}

Underway(c, ask) ==
  /\ c \notin On(ask.item) /\ ~Pending(c) /\ ask.item \in Items
  /\ calls'[c].step = IF ask.item[1] = "provider" /\ ask.value # None
                      THEN "read" ELSE "store"
  /\ calls'[c].item = ask.item /\ calls'[c].value = ask.value
  /\ calls'[c].alone <=> On(ask.item) = {}
  /\ \A d \in On(ask.item) : calls'[d] = [calls[d] EXCEPT !.alone = FALSE]
  /\ \A d \in Calls \ (On(ask.item) \cup {c}) : calls'[d] = calls[d]
  /\ torn \subseteq torn'
  /\ On(ask.item) # {} => ask.item \in torn'
  /\ On(ask.item) = {} => torn' = torn

LEMMA BeginMeets ==
  ASSUME Types, NEW c \in Calls, Begin(c)
  PROVE  \E ask \in Asks : Underway(c, ask)
  <1>1. PICK ask \in Admitted :
          Meet(c, [step |-> IF ask.item[1] = "provider" /\ ask.value # None THEN "read" ELSE "store",
                   item |-> ask.item, value |-> ask.value, kept |-> None, alone |-> TRUE],
               {d \in Calls : Pending(d) /\ calls[d].item = ask.item})
    BY DEF Begin
  <1> DEFINE call == [step |-> IF ask.item[1] = "provider" /\ ask.value # None
                               THEN "read" ELSE "store",
                      item |-> ask.item, value |-> ask.value, kept |-> None, alone |-> TRUE]
             met == {d \in Calls : Pending(d) /\ calls[d].item = ask.item}
  <1>2. ask \in Asks /\ [item |-> ask.item, value |-> ask.value] \in Asks
    <2>1. ask \in Asks
      BY DEF Admitted
    <2>2. ask = [item |-> ask.item, value |-> ask.value]
      BY <2>1 DEF Asks
    <2> QED BY <2>1, <2>2
  <1>3. /\ ask.item \in Items
        /\ ask.value \in Values \cup Bodies \cup {Off, None}
    BY <1>2, AskParts
  <1>4. call \in CallType
    BY <1>3 DEF CallType, Steps
  <1>5. CallOK(call)
    BY <1>2 DEF CallOK, Slot
  <1>6. c \notin met /\ met \in SUBSET Calls /\ (\A d \in met : Pending(d)) /\ ~Pending(c)
    BY DEF Begin, Pending
  <1>7. Meet(c, call, met)
    BY <1>1
  <1> HIDE DEF call, met
  <1>8. call.item = ask.item
    BY DEF call
  <1>9. call.item \in Items
    BY <1>3, <1>8
  <1>10. Meet(c, call, met)
    BY <1>7
  <1>11. /\ calls'[c] = [call EXCEPT !.alone = call.alone /\ met = {}]
         /\ \A d \in met : calls'[d] = [calls[d] EXCEPT !.alone = FALSE]
         /\ \A d \in Calls \ (met \cup {c}) : calls'[d] = calls[d]
         /\ torn \subseteq torn'
         /\ met # {} => call.item \in torn'
         /\ met = {} => torn' = torn
    BY <1>4, <1>5, <1>6, <1>9, <1>10, Meets
  <1>12. /\ calls'[c].step = IF ask.item[1] = "provider" /\ ask.value # None
                             THEN "read" ELSE "store"
         /\ calls'[c].item = ask.item /\ calls'[c].value = ask.value
    BY <1>11 DEF call
  <1>13. calls'[c].alone <=> met = {}
    <2>1. call.alone = TRUE
      BY DEF call
    <2> QED BY <1>4, <1>11, <2>1 DEF CallType
  <1>14. met # {} => ask.item \in torn'
    BY <1>8, <1>11
  <1>15. met = On(ask.item)
    BY DEF met, On
  <1>16. Underway(c, ask)
    BY <1>3, <1>6, <1>11, <1>12, <1>13, <1>14, <1>15 DEF Underway
  <1> QED BY <1>2, <1>16

LEMMA CopyMeets ==
  ASSUME Types, NEW c \in Calls, CopyOverrides(c)
  PROVE  LET met == {d \in Calls : calls[d].step = "publish"} IN
         /\ c \notin met /\ Pending(c)
         /\ calls'[c] = [Copied(c) EXCEPT !.alone = calls[c].alone /\ met = {}]
         /\ \A d \in met : calls'[d] = [calls[d] EXCEPT !.alone = FALSE]
         /\ \A d \in Calls \ (met \cup {c}) : calls'[d] = calls[d]
         /\ torn \subseteq torn'
         /\ met # {} => /\ calls[c].item \in torn'
                        /\ \A d \in met : calls[d].item \in torn'
         /\ met = {} => torn' = torn
  <1> DEFINE met == {d \in Calls : calls[d].step = "publish"}
  <1>1. Pending(c) /\ CallOK(calls[c]) /\ calls[c] \in CallType
    BY DEF CopyOverrides, Pending, Types
  <1>2. calls[c].item \in Items /\ calls[c].value \in Values \cup {None}
        /\ calls[c].item[2] \in Setting /\ calls[c].item[1] = "setting"
    BY <1>1, Asked, ItemParts DEF CopyOverrides, CallOK
  <1>3. [overrides EXCEPT ![calls[c].item[2]] = calls[c].value] \in [Setting -> Values \cup {None}]
    BY <1>2 DEF Types, Stores
  <1>4. Copied(c) \in CallType /\ Copied(c).item = calls[c].item
        /\ Copied(c).alone = calls[c].alone
    BY <1>1, <1>2, <1>3 DEF CallType, Steps, Copied
  <1>5. CallOK(Copied(c))
    BY <1>1, <1>2, <1>3 DEF CopyOverrides, CallOK, CallType, Slot, Copied
  <1>6. c \notin met /\ met \in SUBSET Calls /\ \A d \in met : Pending(d)
    BY DEF CopyOverrides, Pending
  <1>7. Meet(c, Copied(c), met)
    BY DEF CopyOverrides, Copied
  <1> HIDE DEF met
  <1>8. /\ calls'[c] = [Copied(c) EXCEPT !.alone = Copied(c).alone /\ met = {}]
        /\ \A d \in met : calls'[d] = [calls[d] EXCEPT !.alone = FALSE]
        /\ \A d \in Calls \ (met \cup {c}) : calls'[d] = calls[d]
        /\ torn \subseteq torn'
        /\ met # {} => /\ Copied(c).item \in torn'
                       /\ \A d \in met : calls[d].item \in torn'
        /\ met = {} => torn' = torn
    BY <1>2, <1>4, <1>5, <1>6, <1>7, Meets
  <1> QED BY <1>1, <1>4, <1>6, <1>8 DEF met

LEMMA BeginApart ==
  ASSUME Types, Apart, NEW c \in Calls, Begin(c)
  PROVE  Apart'
  <1>1. PICK ask \in Asks : Underway(c, ask)
    BY BeginMeets
  <1>2. ASSUME NEW d \in Calls, d # c
        PROVE  /\ calls'[d].item = calls[d].item /\ calls'[d].step = calls[d].step
               /\ calls'[d].alone => d \notin On(ask.item) /\ calls[d].alone
               /\ d \notin On(ask.item) => calls'[d] = calls[d]
               /\ Pending(d)' <=> Pending(d)
    <2>1. calls[d] \in CallType
      BY DEF Types
    <2>2. CASE d \in On(ask.item)
      BY <2>1, <2>2, <1>1 DEF Underway, CallType, Pending
    <2>3. CASE d \notin On(ask.item)
      BY <2>3, <1>1, <1>2 DEF Underway, Pending
    <2> QED BY <2>2, <2>3
  <1>3. /\ calls'[c].item = ask.item /\ calls'[c].step # "publish"
        /\ calls'[c].alone => On(ask.item) = {}
        /\ On(ask.item) = {} => calls'[c].alone
    BY <1>1 DEF Underway
  <1>4. ASSUME NEW d \in Calls, Pending(d)', calls'[d].alone, NEW e \in Calls \ {d}
        PROVE  /\ Pending(e)' => calls'[e].item # calls'[d].item
               /\ calls'[d].step = "publish" => calls'[e].step # "publish"
    <2>1. CASE d = c
      BY <1>2, <1>3, <1>4, <2>1 DEF On
    <2>2. CASE e = c
      BY <1>2, <1>3, <1>4, <2>2 DEF On
    <2>3. CASE d # c /\ e # c
      BY <1>2, <1>4, <2>3 DEF Apart
    <2> QED BY <2>1, <2>2, <2>3
  <1>5. ASSUME NEW d \in Calls, Pending(d)', ~calls'[d].alone
        PROVE  calls'[d].item \in torn'
    <2>1. CASE d = c
      BY <1>1, <1>3, <1>5, <2>1 DEF Underway
    <2>2. CASE d \in On(ask.item)
      BY <1>1, <1>2, <2>2 DEF Underway, On
    <2>3. CASE d # c /\ d \notin On(ask.item)
      BY <1>1, <1>2, <1>5, <2>3 DEF Underway, Apart
    <2> QED BY <2>1, <2>2, <2>3
  <1> QED BY <1>4, <1>5 DEF Apart

LEMMA CopyApart ==
  ASSUME Types, Apart, NEW c \in Calls, CopyOverrides(c)
  PROVE  Apart'
  <1> DEFINE met == {d \in Calls : calls[d].step = "publish"}
  <1>1. /\ c \notin met /\ Pending(c)
        /\ calls'[c] = [Copied(c) EXCEPT !.alone = calls[c].alone /\ met = {}]
        /\ \A d \in met : calls'[d] = [calls[d] EXCEPT !.alone = FALSE]
        /\ \A d \in Calls \ (met \cup {c}) : calls'[d] = calls[d]
        /\ torn \subseteq torn'
        /\ met # {} => /\ calls[c].item \in torn'
                       /\ \A d \in met : calls[d].item \in torn'
    BY CopyMeets
  <1>2. \A d \in Calls : calls[d] \in CallType
    BY DEF Types
  <1>3. /\ calls'[c].item = calls[c].item
        /\ calls'[c].alone <=> calls[c].alone /\ met = {}
    BY <1>1, <1>2 DEF Copied, CallType
  <1>4. ASSUME NEW d \in Calls, d # c
        PROVE  /\ calls'[d].item = calls[d].item /\ calls'[d].step = calls[d].step
               /\ calls'[d].alone => d \notin met /\ calls[d].alone
               /\ d \notin met => calls'[d] = calls[d]
               /\ Pending(d)' <=> Pending(d)
    <2>1. CASE d \in met
      <3>1. calls'[d] = [calls[d] EXCEPT !.alone = FALSE]
        BY <2>1, <1>1
      <3>2. /\ calls'[d].item = calls[d].item /\ calls'[d].step = calls[d].step
            /\ calls'[d].alone = FALSE
        BY <3>1, <1>2 DEF CallType
      <3>3. Pending(d)' <=> Pending(d)
        BY <3>2 DEF Pending
      <3> QED BY <2>1, <3>2, <3>3
    <2>2. CASE d \notin met
      <3>1. calls'[d] = calls[d]
        BY <2>2, <1>1, <1>4
      <3> QED BY <2>2, <1>1, <3>1 DEF Pending
    <2> QED BY <2>1, <2>2
  <1>5. \A d \in Calls : d \in met <=> calls[d].step = "publish"
    OBVIOUS
  <1> HIDE DEF met
  <1>6. ASSUME NEW d \in Calls, Pending(d)', calls'[d].alone, NEW e \in Calls \ {d}
        PROVE  /\ Pending(e)' => calls'[e].item # calls'[d].item
               /\ calls'[d].step = "publish" => calls'[e].step # "publish"
    <2>1. CASE d = c
      <3>1. calls[c].alone /\ met = {} /\ Pending(c)
        BY <1>1, <1>3, <1>6, <2>1
      <3>2. /\ Pending(e) => calls[e].item # calls[c].item
            /\ calls[e].step # "publish"
        BY <1>5, <2>1, <3>1 DEF Apart
      <3> QED BY <1>3, <1>4, <2>1, <3>2
    <2>2. CASE e = c
      <3>1. d \notin met /\ calls[d].alone /\ Pending(d) /\ calls'[d].step # "publish"
        BY <1>4, <1>5, <1>6, <2>2
      <3>2. calls[c].item # calls[d].item
        BY <1>1, <2>2, <3>1 DEF Apart
      <3> QED BY <1>3, <1>4, <2>2, <3>1, <3>2
    <2>3. CASE d # c /\ e # c
      BY <1>4, <1>6, <2>3 DEF Apart
    <2> QED BY <2>1, <2>2, <2>3
  <1>7. ASSUME NEW d \in Calls, Pending(d)', ~calls'[d].alone
        PROVE  calls'[d].item \in torn'
    <2>1. CASE d = c
      BY <1>1, <1>3, <1>7, <2>1 DEF Apart
    <2>2. CASE d \in met
      BY <1>1, <1>4, <2>2
    <2>3. CASE d # c /\ d \notin met
      BY <1>1, <1>4, <1>7, <2>3 DEF Apart
    <2> QED BY <2>1, <2>2, <2>3
  <1> QED BY <1>6, <1>7 DEF Apart

LEMMA AbandonGoes ==
  ASSUME Types, NEW c \in Calls, Abandon(c)
  PROVE  Pending(c) /\ Goes(c) /\ calls'[c] = Done /\ torn \subseteq torn'
  BY DEF Abandon, Goes, Elsewhere, Types

\* After a restart nobody waits for an answer.
LEMMA RestartEnds ==
  ASSUME Types, NEW key, NEW loaded, Restart(key, loaded), NEW c \in Calls
  PROVE  ~Pending(c)' /\ calls'[c].step # "publish"
  BY DEF Restart, Pending, Done, Idle

LEMMA ApartStep == Types /\ Apart /\ [Next]_vars => Apart'
  <1> SUFFICES ASSUME Types, Apart, [Next]_vars
               PROVE  Apart'
    OBVIOUS
  <1>1. CASE UNCHANGED vars
    BY <1>1 DEF vars, Apart, Pending
  <1>2. ASSUME NEW c \in Calls, Handle(c)
        PROVE  Apart'
    BY <1>2, BeginApart, CopyApart, HandleGoes, GoesApart
  <1>3. ASSUME NEW c \in Calls, Abandon(c)
        PROVE  Apart'
    BY <1>3, AbandonGoes, GoesApart
  <1>4. ASSUME NEW key \in Seals \cup {None}, NEW loaded \in 0 .. 4, Restart(key, loaded)
        PROVE  Apart'
    BY <1>4, RestartEnds DEF Apart
  <1> QED BY <1>1, <1>2, <1>3, <1>4 DEF Next

----------------------------------------------------------------------------
(* What a step leaves alone *)

\* The tables an item is stored in, with all of a provider, and the map it is served from.
Unstored(i) ==
  /\ i[1] = "setting" => settings'[i[2]] = settings[i[2]]
  /\ i[1] = "schema" => schemas'[i[2]] = schemas[i[2]]
  /\ i[1] = "mark" => (i[2] \in states' <=> i[2] \in states)
  /\ i[1] = "provider" => UNCHANGED <<config, secretsKey, adapters>>

Unserved(i) ==
  /\ i[1] = "setting" => overrides'[i[2]] = overrides[i[2]]
  /\ i[1] = "schema" => runtime'[i[2]] = runtime[i[2]]
  /\ i[1] = "mark" => (i[2] \in disabled' <=> i[2] \in disabled)

LEMMA ConsistentFrame ==
  ASSUME NEW i \in Items, Consistent(i), Unstored(i), Unserved(i)
  PROVE  Consistent(i)'
  <1>1. CASE i[1] = "setting"
    BY <1>1 DEF Consistent, Unstored, Unserved
  <1>2. CASE i[1] = "schema"
    BY <1>2 DEF Consistent, Unstored, Unserved
  <1>3. CASE i[1] = "mark"
    BY <1>3 DEF Consistent, Unstored, Unserved
  <1>4. CASE i[1] = "provider"
    BY <1>4 DEF Consistent, Unstored, Unserved
  <1> QED BY <1>1, <1>2, <1>3, <1>4, ItemParts

LEMMA ProgressFrame ==
  ASSUME Types, NEW c \in Calls, Pending(c), Progress(c), calls'[c] = calls[c],
         Unstored(calls[c].item)
  PROVE  Progress(c)'
  <1>1. CallOK(calls[c])
    BY DEF Types
  <1>2. CASE calls[c].item[1] = "setting"
    <2>1. calls[c].step \notin {"apply", "readback"} \cup Slot
      BY <1>1, <1>2 DEF CallOK
    <2> QED BY <1>2, <2>1 DEF Progress, Unstored, Slot
  <1>3. CASE calls[c].item[1] = "schema"
    <2>1. calls[c].step \notin {"copy", "publish", "readback"} \cup Slot
      BY <1>1, <1>3 DEF CallOK
    <2> QED BY <1>3, <2>1 DEF Progress, Unstored, Slot
  <1>4. CASE calls[c].item[1] = "mark"
    <2>1. calls[c].step \notin {"copy", "publish", "readback"} \cup Slot
      BY <1>1, <1>4 DEF CallOK
    <2> QED BY <1>4, <2>1 DEF Progress, Unstored, Slot
  <1>5. CASE calls[c].item[1] = "provider"
    BY <1>1, <1>5 DEF Progress, Unstored, CallOK, Sealed
  <1> QED BY <1>2, <1>3, <1>4, <1>5, Asked, ItemParts

LEMMA Unmoved ==
  ASSUME UNCHANGED <<tables, maps, secretsKey>>, NEW i
  PROVE  Unstored(i) /\ Unserved(i)
  BY DEF tables, maps, Unstored, Unserved

\* A handler moves only the item of its call, but for the overrides it writes back.
LEMMA OthersUnmoved ==
  ASSUME Types, NEW c \in Calls, Handle(c), ~Begin(c),
         NEW i \in Items, i # calls[c].item
  PROVE  Unstored(i) /\ (Unserved(i) \/ SetOverrides(c))
  <1>1. Pending(c)
    BY HandleGoes DEF CopyOverrides, Pending
  <1>2. calls[c].item \in Items /\ CallOK(calls[c])
    BY <1>1, Asked DEF Types
  <1>3. i[1] = calls[c].item[1] => i[2] # calls[c].item[2]
    BY <1>2, SameItem
  <1>4. i[1] = "provider" => calls[c].item[1] # "provider"
    BY <1>2, ItemParts
  <1>5. CASE StoreSetting(c)
    BY <1>3, <1>5 DEF StoreSetting, maps, Unstored, Unserved, Types, Stores
  <1>6. CASE CopyOverrides(c) \/ ReadConfig(c) \/ ReadBack(c)
    BY <1>6, Unmoved DEF CopyOverrides, ReadConfig, ReadBack
  <1>7. CASE SetOverrides(c)
    BY <1>7 DEF SetOverrides, tables, Unstored
  <1>8. CASE StoreSchema(c)
    BY <1>3, <1>8 DEF StoreSchema, maps, Unstored, Unserved, Types, Stores
  <1>9. CASE ApplySchema(c)
    BY <1>3, <1>9 DEF ApplySchema, tables, Unstored, Unserved, Types, Stores
  <1>10. CASE StoreMark(c)
    BY <1>3, <1>10 DEF StoreMark, Marked, maps, Unstored, Unserved
  <1>11. CASE ApplyMark(c)
    BY <1>3, <1>11 DEF ApplyMark, Marked, tables, Unstored, Unserved
  <1>12. CASE StoreConfig(c)
    BY <1>4, <1>12 DEF StoreConfig, maps, Unstored, Unserved
  <1>13. CASE DeleteConfig(c)
    BY <1>4, <1>13 DEF DeleteConfig, maps, Unstored, Unserved
  <1>14. CASE Register(c)
    <2>1. calls[c].item[1] = "provider"
      BY <1>2, <1>14 DEF Register, CallOK
    <2> QED BY <1>4, <1>14, <2>1 DEF Register, tables, Unstored, Unserved
  <1> QED BY <1>5, <1>6, <1>7, <1>8, <1>9, <1>10, <1>11, <1>12, <1>13, <1>14 DEF Handle

\* A copy that is written back holds what it found of items that are not torn.
LEMMA WritesBack ==
  ASSUME Types, Kept, NEW c \in Calls, SetOverrides(c),
         NEW i \in Items \ torn, i # calls[c].item
  PROVE  Unserved(i)
  <1>1. Pending(c) /\ calls[c].item \in Items /\ calls[c].item[1] = "setting"
    BY Asked DEF SetOverrides, Pending, Types, CallOK
  <1>2. CASE i[1] = "setting"
    <2>1. i[2] \in Setting /\ i = <<"setting", i[2]>> /\ i[2] # calls[c].item[2]
      BY <1>1, <1>2, ItemParts, SameItem
    <2>2. calls[c].kept[i[2]] = overrides[i[2]]
      BY <2>1 DEF Kept, SetOverrides
    <2> QED BY <1>2, <2>2 DEF SetOverrides, Unserved
  <1>3. CASE i[1] # "setting"
    BY <1>3 DEF SetOverrides, Unserved
  <1> QED BY <1>2, <1>3

----------------------------------------------------------------------------
(* Copies of the overrides *)

\* Other handlers free no setting and write no override.
LEMMA FreesNoSetting ==
  ASSUME Types, NEW c \in Calls, Handle(c),
         ~Begin(c), ~CopyOverrides(c), ~SetOverrides(c)
  PROVE  /\ overrides' = overrides
         /\ \A k \in Setting : <<"setting", k>> \in torn => <<"setting", k>> \in torn'
  <1>1. Pending(c)
    BY HandleGoes
  <1>2. calls[c].item \in Items /\ CallOK(calls[c])
    BY <1>1, Asked DEF Types
  <1>3. CASE StoreSetting(c) \/ StoreMark(c)
    BY <1>3 DEF StoreSetting, StoreMark, maps
  <1>4. CASE StoreSchema(c) \/ DeleteConfig(c)
    BY <1>4 DEF StoreSchema, DeleteConfig, Refuse, maps
  <1>5. CASE ReadConfig(c) \/ StoreConfig(c) \/ ReadBack(c)
    BY <1>5 DEF ReadConfig, StoreConfig, ReadBack, Refuse, maps
  <1>6. CASE ApplySchema(c) \/ ApplyMark(c)
    <2>1. calls[c].item[1] # "setting" /\ Answer(c) /\ overrides' = overrides
      BY <1>6 DEF ApplySchema, ApplyMark
    <2> QED BY <2>1 DEF Answer
  <1>7. CASE Register(c)
    <2>1. calls[c].item[1] = "provider" /\ overrides' = overrides
      BY <1>2, <1>7 DEF Register, CallOK
    <2> QED BY <1>7, <2>1 DEF Register, Answer
  <1> QED BY <1>3, <1>4, <1>5, <1>6, <1>7 DEF Handle

LEMMA SetOverridesKept ==
  ASSUME Types, Apart, Kept, NEW c \in Calls, SetOverrides(c)
  PROVE  Kept'
  <1>1. Pending(c) /\ Goes(c) /\ calls'[c] = Done
    BY HandleGoes, AnswerEnds DEF SetOverrides, Handle, Begin, CopyOverrides
  <1>2. calls[c].item \in Items /\ calls[c].item[1] = "setting"
    BY <1>1, Asked DEF SetOverrides, Types, CallOK
  <1>3. SUFFICES ASSUME NEW d \in Calls, NEW k \in Setting, calls'[d].step = "publish",
                        k # calls'[d].item[2], <<"setting", k>> \notin torn'
                 PROVE  calls'[d].kept[k] = overrides'[k]
    BY DEF Kept
  <1>4. d # c /\ calls'[d] = calls[d]
    BY <1>1, <1>3 DEF Goes, Elsewhere, Done, Idle
  <1>5. ~calls[c].alone /\ calls[c].item \in torn
    <2>1. calls[c].step = "publish" /\ calls[d].step = "publish"
      BY <1>3, <1>4 DEF SetOverrides
    <2>2. ~calls[c].alone
      BY <1>1, <1>4, <2>1 DEF Apart
    <2> QED BY <1>1, <2>2 DEF Apart
  <1>6. torn' = torn
    BY <1>5 DEF SetOverrides, Answer
  <1>7. k # calls[c].item[2]
    BY <1>2, <1>3, <1>5, <1>6, ItemParts
  <1>8. calls[c].kept[k] = overrides[k] /\ calls[d].kept[k] = overrides[k]
    BY <1>3, <1>4, <1>6, <1>7 DEF Kept, SetOverrides
  <1> QED BY <1>4, <1>8 DEF SetOverrides

LEMMA KeptStep == Types /\ Apart /\ Kept /\ [Next]_vars => Kept'
  <1> SUFFICES ASSUME Types, Apart, Kept, [Next]_vars
               PROVE  Kept'
    OBVIOUS
  <1>0. \A d \in Calls : calls[d] \in CallType
    BY DEF Types
  <1>1. CASE UNCHANGED vars
    BY <1>1 DEF vars, maps, Kept
  <1>2. ASSUME NEW c \in Calls, Begin(c)
        PROVE  Kept'
    <2>1. PICK ask \in Asks : Underway(c, ask)
      BY <1>2, BeginMeets
    <2>2. ASSUME NEW d \in Calls, calls'[d].step = "publish"
          PROVE  /\ calls[d].step = "publish" /\ calls'[d].item = calls[d].item
                 /\ calls'[d].kept = calls[d].kept
      <3>1. d # c
        BY <2>1, <2>2 DEF Underway
      <3>2. CASE d \in On(ask.item)
        BY <1>0, <2>1, <2>2, <3>2 DEF Underway, CallType
      <3>3. CASE d \notin On(ask.item)
        BY <2>1, <2>2, <3>1, <3>3 DEF Underway
      <3> QED BY <3>2, <3>3
    <2>3. overrides' = overrides /\ torn \subseteq torn'
      BY <1>2, <2>1 DEF Begin, maps, Underway
    <2> QED BY <2>2, <2>3 DEF Kept
  <1>3. ASSUME NEW c \in Calls, CopyOverrides(c)
        PROVE  Kept'
    <2> DEFINE met == {d \in Calls : calls[d].step = "publish"}
    <2>1. /\ calls'[c] = [Copied(c) EXCEPT !.alone = calls[c].alone /\ met = {}]
          /\ \A d \in met : calls'[d] = [calls[d] EXCEPT !.alone = FALSE]
          /\ \A d \in Calls \ (met \cup {c}) : calls'[d] = calls[d]
          /\ torn \subseteq torn'
      BY <1>3, CopyMeets
    <2>2. \A d \in Calls : d \in met <=> calls[d].step = "publish"
      OBVIOUS
    <2>3. overrides' = overrides
      BY <1>3 DEF CopyOverrides, maps
    <2> HIDE DEF met
    <2>4. /\ calls'[c].item = calls[c].item
          /\ calls'[c].kept = [overrides EXCEPT ![calls[c].item[2]] = calls[c].value]
      BY <1>0, <2>1 DEF Copied, CallType
    <2>5. ASSUME NEW d \in Calls, d # c, calls'[d].step = "publish"
          PROVE  /\ calls[d].step = "publish" /\ calls'[d].item = calls[d].item
                 /\ calls'[d].kept = calls[d].kept
      <3>1. CASE d \in met
        <4>1. calls'[d] = [calls[d] EXCEPT !.alone = FALSE] /\ calls[d] \in CallType
          BY <1>0, <2>1, <3>1
        <4>2. /\ calls'[d].item = calls[d].item /\ calls'[d].kept = calls[d].kept
              /\ calls[d].step = "publish"
          BY <2>2, <3>1, <4>1 DEF CallType
        <4> QED BY <4>2
      <3>2. CASE d \notin met
        BY <2>1, <2>5, <3>2
      <3> QED BY <3>1, <3>2
    <2>6. \A k \in Setting : k # calls[c].item[2] => calls'[c].kept[k] = overrides[k]
      BY <2>4 DEF Types, Stores
    <2>7. SUFFICES ASSUME NEW d \in Calls, NEW k \in Setting, calls'[d].step = "publish",
                          k # calls'[d].item[2], <<"setting", k>> \notin torn'
                   PROVE  calls'[d].kept[k] = overrides'[k]
      BY DEF Kept
    <2>8. CASE d = c
      BY <2>3, <2>4, <2>6, <2>7, <2>8
    <2>9. CASE d # c
      BY <2>1, <2>3, <2>5, <2>7, <2>9 DEF Kept
    <2> QED BY <2>8, <2>9
  <1>4. ASSUME NEW c \in Calls, Handle(c), ~Begin(c), ~CopyOverrides(c), ~SetOverrides(c)
        PROVE  Kept'
    <2>1. Goes(c) /\ overrides' = overrides
          /\ \A k \in Setting : <<"setting", k>> \in torn => <<"setting", k>> \in torn'
      BY <1>4, HandleGoes, FreesNoSetting
    <2>2. \A d \in Calls : calls'[d].step = "publish" => calls'[d] = calls[d]
      BY <2>1 DEF Goes, Elsewhere, Done, Idle
    <2> QED BY <2>1, <2>2 DEF Kept
  <1>5. ASSUME NEW c \in Calls, Abandon(c)
        PROVE  Kept'
    <2>1. Elsewhere(c) /\ calls'[c] = Done /\ torn \subseteq torn' /\ overrides' = overrides
      BY <1>5, AbandonGoes DEF Goes, Abandon, maps
    <2>2. \A d \in Calls : calls'[d].step = "publish" => calls'[d] = calls[d]
      BY <2>1 DEF Elsewhere, Done, Idle
    <2> QED BY <2>1, <2>2 DEF Kept
  <1>6. ASSUME NEW key \in Seals \cup {None}, NEW loaded \in 0 .. 4, Restart(key, loaded)
        PROVE  Kept'
    BY <1>6, RestartEnds DEF Kept
  <1> QED BY <1>1, <1>2, <1>3, <1>4, <1>5, <1>6, SetOverridesKept DEF Next

----------------------------------------------------------------------------
(* Calls that are alone *)

LEMMA Gone ==
  ASSUME Types, NEW c \in Calls, NEW step, Goto(c, step)
  PROVE  /\ calls'[c].step = step /\ calls'[c].item = calls[c].item
         /\ calls'[c].value = calls[c].value /\ calls'[c].kept = calls[c].kept
  BY DEF Goto, Types, CallType

LEMMA KeptOn ==
  ASSUME Types, NEW c \in Calls, NEW step, NEW kept, Keep(c, step, kept)
  PROVE  /\ calls'[c].step = step /\ calls'[c].item = calls[c].item
         /\ calls'[c].value = calls[c].value /\ calls'[c].kept = kept
  BY DEF Keep, Types, CallType

LEMMA SettingProgress ==
  ASSUME Types, NEW c \in Calls, StoreSetting(c) \/ CopyOverrides(c)
  PROVE  Pending(c) /\ calls[c].alone /\ Progress(c) => Progress(c)'
  <1> SUFFICES ASSUME Pending(c), calls[c].alone, Progress(c)
               PROVE  Progress(c)'
    OBVIOUS
  <1>1. calls[c].item \in Items /\ CallOK(calls[c]) /\ calls[c] \in CallType
    BY Asked DEF Types
  <1>2. calls[c].item[1] = "setting" /\ calls[c].item[2] \in Setting
    BY <1>1, ItemParts DEF StoreSetting, CopyOverrides, CallOK
  <1>3. CASE StoreSetting(c)
    <2>1. settings'[calls[c].item[2]] = calls[c].value
      BY <1>2, <1>3 DEF StoreSetting, Types, Stores
    <2>2. /\ calls'[c].step = "copy" /\ calls'[c].item = calls[c].item
          /\ calls'[c].value = calls[c].value
      BY <1>3, Gone DEF StoreSetting
    <2> QED BY <2>1, <2>2 DEF Progress, Slot
  <1>4. CASE CopyOverrides(c)
    <2>1. settings'[calls[c].item[2]] = calls[c].value
      BY <1>4 DEF CopyOverrides, Progress, tables
    <2>2. \E alone : calls'[c] = [Copied(c) EXCEPT !.alone = alone]
      BY <1>4, CopyMeets
    <2>3. /\ calls'[c].step = "publish" /\ calls'[c].item = calls[c].item
          /\ calls'[c].value = calls[c].value
          /\ calls'[c].kept = [overrides EXCEPT ![calls[c].item[2]] = calls[c].value]
      BY <1>1, <2>2 DEF Copied, CallType
    <2>4. calls'[c].kept[calls'[c].item[2]] = calls'[c].value
      BY <1>2, <2>3 DEF Types, Stores
    <2> QED BY <2>1, <2>3, <2>4 DEF Progress, Slot
  <1> QED BY <1>3, <1>4

LEMMA ModelProgress ==
  ASSUME Types, NEW c \in Calls, StoreSchema(c) \/ StoreMark(c), Pending(c)'
  PROVE  Progress(c)'
  <1>1. Pending(c)
    BY DEF StoreSchema, StoreMark, Pending
  <1>2. calls[c].item \in Items
    BY <1>1, Asked
  <1>3. CASE StoreSchema(c)
    <2>1. Goto(c, "apply")
      <3>1. Refuse(c) => ~Pending(c)'
        BY RefuseEnds DEF Pending, Done, Idle
      <3> QED BY <1>3, <3>1 DEF StoreSchema
    <2>2. calls[c].item[1] = "schema" /\ calls[c].item[2] \in Models \ Catalog
      BY <1>2, <1>3, ItemParts DEF StoreSchema
    <2>3. schemas'[calls[c].item[2]] = calls[c].value
      BY <1>3, <2>2 DEF StoreSchema, Types, Stores
    <2> QED BY <2>1, <2>2, <2>3, Gone DEF Progress, Slot
  <1>4. CASE StoreMark(c)
    <2>1. Goto(c, "apply") /\ calls[c].item[1] = "mark"
      BY <1>4 DEF StoreMark
    <2>2. calls[c].item[2] \in states' <=> calls[c].value = Off
      BY <1>4 DEF StoreMark, Marked
    <2> QED BY <2>1, <2>2, Gone DEF Progress, Slot
  <1> QED BY <1>3, <1>4

LEMMA NotRefused ==
  ASSUME Types, NEW c \in Calls, Pending(c)'
  PROVE  ~Refuse(c) /\ ~Answer(c)
  BY RefuseEnds, AnswerEnds DEF Pending, Done, Idle

LEMMA ProviderProgress ==
  ASSUME Types, NEW c \in Calls, Pending(c)',
         ReadConfig(c) \/ StoreConfig(c) \/ DeleteConfig(c) \/ ReadBack(c) \/ Register(c)
  PROVE  Progress(c) => Progress(c)'
  <1> SUFFICES ASSUME Progress(c)
               PROVE  Progress(c)'
    OBVIOUS
  <1>1. ~Refuse(c) /\ ~Answer(c)
    BY NotRefused
  <1>2. CASE ReadConfig(c)
    <2>1. Keep(c, "store", Sealed) /\ UNCHANGED config
      BY <1>1, <1>2 DEF ReadConfig, Sealed, tables
    <2> QED BY <2>1, KeptOn DEF Progress, Slot, Sealed
  <1>3. CASE StoreConfig(c)
    <2>1. Keep(c, "readback", None)
      BY <1>1, <1>3 DEF StoreConfig
    <2>2. Opens(config, secretsKey)'
      BY <1>1, <1>3 DEF StoreConfig, Opens
    <2> QED BY <2>1, <2>2, KeptOn DEF Progress, Slot
  <1>4. CASE DeleteConfig(c)
    <2>1. Goto(c, "readback") /\ config' = None
      BY <1>1, <1>4 DEF DeleteConfig
    <2> QED BY <2>1, Gone DEF Progress, Slot
  <1>5. CASE ReadBack(c)
    <2>1. Keep(c, "image", Effective(config)) /\ UNCHANGED <<config, secretsKey>>
      BY <1>1, <1>5 DEF ReadBack, tables
    <2>2. config = None \/ Opens(config, secretsKey)
      BY <1>1, <1>5 DEF ReadBack
    <2> QED BY <2>1, <2>2, KeptOn DEF Progress, Slot, Opens
  <1>6. CASE Register(c)
    <2>1. UNCHANGED <<config, secretsKey>> /\ calls[c].step \in {"image", "video"}
          /\ Goto(c, IF calls[c].step = "image" THEN "video" ELSE "config")
          /\ adapters' = [adapters EXCEPT ![calls[c].step] = calls[c].kept]
      BY <1>1, <1>6 DEF Register, tables, Slot
    <2>2. /\ config = None \/ Opens(config, secretsKey)
          /\ calls[c].kept = Effective(config)
          /\ calls[c].step = "video" => adapters["image"] = calls[c].kept
      BY <2>1 DEF Progress, Slot
    <2>3. /\ adapters'["image"] = calls[c].kept
          /\ calls[c].step = "video" => adapters'["video"] = calls[c].kept
      BY <2>1, <2>2 DEF Types, Stores, Slot
    <2>4. /\ config' = None \/ Opens(config, secretsKey)'
          /\ calls[c].kept = Effective(config)'
      BY <2>1, <2>2 DEF Opens
    <2> QED BY <2>1, <2>3, <2>4, Gone DEF Progress, Slot
  <1> QED BY <1>2, <1>3, <1>4, <1>5, <1>6

\* Whoever is alone after a step was alone before it.
LEMMA StillAlone ==
  ASSUME Types, NEW c \in Calls, Handle(c), ~Begin(c),
         NEW d \in Calls, Pending(d)', calls'[d].alone
  PROVE  /\ Pending(c) /\ Pending(d) /\ calls[d].alone
         /\ calls'[d].item = calls[d].item
         /\ d # c => calls'[d] = calls[d]
  <1>1. CASE CopyOverrides(c)
    <2> DEFINE met == {e \in Calls : calls[e].step = "publish"}
    <2>1. /\ Pending(c)
          /\ calls'[c] = [Copied(c) EXCEPT !.alone = calls[c].alone /\ met = {}]
          /\ \A e \in met : calls'[e] = [calls[e] EXCEPT !.alone = FALSE]
          /\ \A e \in Calls \ (met \cup {c}) : calls'[e] = calls[e]
      BY <1>1, CopyMeets
    <2> HIDE DEF met
    <2>2. calls[d] \in CallType
      BY DEF Types
    <2>3. d = c => calls[d].alone /\ calls'[d].item = calls[d].item
      <3>1. /\ DOMAIN Copied(c) = DOMAIN calls[c]
            /\ Copied(c).item = calls[c].item
        BY DEF Copied, CallType, Types
      <3>2. calls'[c].item = calls[c].item
        BY <2>1, <3>1
      <3>3. "alone" \in DOMAIN Copied(c)
        BY <3>1 DEF Types, CallType
      <3>4. calls'[c].alone => calls[c].alone
        BY <2>1, <3>3
      <3> QED BY <3>2, <3>4
    <2>4. d # c => calls'[d] = calls[d]
      <3>1. d # c /\ d \in met => ~calls'[d].alone
        BY <2>1, <2>2 DEF CallType
      <3> QED BY <2>1, <3>1
    <2>5. d # c => Pending(d) /\ calls[d].alone
      BY <2>4 DEF Pending
    <2> QED BY <2>1, <2>3, <2>4, <2>5
  <1>2. CASE ~CopyOverrides(c)
    <2>1. Pending(c) /\ Goes(c)
      BY <1>2, HandleGoes
    <2>2. CASE d = c
      BY <2>1, <2>2 DEF Goes, Pending, Done, Idle
    <2>3. CASE d # c
      BY <2>1, <2>3 DEF Goes, Elsewhere, Pending
    <2> QED BY <2>1, <2>2, <2>3
  <1> QED BY <1>1, <1>2

LEMMA HandleProgressed ==
  ASSUME Types, Apart, Progressed, NEW c \in Calls, Handle(c), ~Begin(c)
  PROVE  Progressed'
  <1> SUFFICES ASSUME NEW d \in Calls, Pending(d)', calls'[d].alone
               PROVE  Progress(d)'
    BY DEF Progressed
  <1>1. /\ Pending(c) /\ Pending(d) /\ calls[d].alone
        /\ calls'[d].item = calls[d].item
        /\ d # c => calls'[d] = calls[d]
    BY StillAlone
  <1>2. Progress(d)
    BY <1>1 DEF Progressed
  <1>3. CASE d = c
    <2>1. ~Refuse(c) /\ ~Answer(c)
      BY <1>3, NotRefused
    <2>2. ~(SetOverrides(c) \/ ApplySchema(c) \/ ApplyMark(c))
      BY <2>1 DEF SetOverrides, ApplySchema, ApplyMark
    <2>3. CASE StoreSetting(c) \/ CopyOverrides(c)
      BY <1>1, <1>2, <1>3, <2>3, SettingProgress
    <2>4. CASE StoreSchema(c) \/ StoreMark(c)
      BY <1>3, <2>4, ModelProgress
    <2>5. CASE ReadConfig(c) \/ StoreConfig(c) \/ DeleteConfig(c) \/ ReadBack(c) \/ Register(c)
      BY <1>2, <1>3, <2>5, ProviderProgress
    <2> QED BY <2>2, <2>3, <2>4, <2>5 DEF Handle
  <1>4. CASE d # c
    <2>1. calls[d].item \in Items /\ calls[d].item # calls[c].item
      BY <1>1, <1>4, Asked DEF Apart
    <2>2. Unstored(calls[d].item)
      BY <2>1, OthersUnmoved
    <2> QED BY <1>1, <1>2, <1>4, <2>2, ProgressFrame
  <1> QED BY <1>3, <1>4

LEMMA ProgressedStep == Types /\ Apart /\ Progressed /\ [Next]_vars => Progressed'
  <1> SUFFICES ASSUME Types, Apart, Progressed, [Next]_vars
               PROVE  Progressed'
    OBVIOUS
  <1>1. CASE UNCHANGED vars
    <2> SUFFICES ASSUME NEW d \in Calls, Pending(d)', calls'[d].alone
                 PROVE  Progress(d)'
      BY DEF Progressed
    <2>1. calls' = calls /\ UNCHANGED <<tables, maps, secretsKey>>
      BY <1>1 DEF vars
    <2>2. Pending(d) /\ Progress(d)
      BY <2>1 DEF Progressed, Pending
    <2> QED BY <2>1, <2>2, Unmoved, ProgressFrame
  <1>2. ASSUME NEW c \in Calls, Begin(c)
        PROVE  Progressed'
    <2> SUFFICES ASSUME NEW d \in Calls, Pending(d)', calls'[d].alone
                 PROVE  Progress(d)'
      BY DEF Progressed
    <2>1. PICK ask \in Asks : Underway(c, ask)
      BY <1>2, BeginMeets
    <2>2. UNCHANGED <<tables, maps, secretsKey>>
      BY <1>2 DEF Begin
    <2>3. CASE d = c
      BY <2>1, <2>3 DEF Underway, Progress, Slot
    <2>4. CASE d # c
      <3>1. d \notin On(ask.item)
        BY <2>1 DEF Underway, Types, CallType, On
      <3>2. calls'[d] = calls[d]
        BY <2>1, <2>4, <3>1 DEF Underway
      <3>3. Pending(d) /\ Progress(d)
        BY <3>2 DEF Progressed, Pending
      <3> QED BY <2>2, <3>2, <3>3, Unmoved, ProgressFrame
    <2> QED BY <2>3, <2>4
  <1>3. ASSUME NEW c \in Calls, Abandon(c)
        PROVE  Progressed'
    <2> SUFFICES ASSUME NEW d \in Calls, Pending(d)', calls'[d].alone
                 PROVE  Progress(d)'
      BY DEF Progressed
    <2>1. UNCHANGED <<tables, maps, secretsKey>>
      BY <1>3 DEF Abandon
    <2>2. d # c /\ calls'[d] = calls[d]
      BY <1>3, AbandonGoes DEF Goes, Elsewhere, Pending, Done, Idle
    <2>3. Pending(d) /\ Progress(d)
      BY <2>2 DEF Progressed, Pending
    <2> QED BY <2>1, <2>2, <2>3, Unmoved, ProgressFrame
  <1>4. ASSUME NEW key \in Seals \cup {None}, NEW loaded \in 0 .. 4, Restart(key, loaded)
        PROVE  Progressed'
    BY <1>4, RestartEnds DEF Progressed
  <1> QED BY <1>1, <1>2, <1>3, <1>4, HandleProgressed DEF Next

----------------------------------------------------------------------------
(* What is served *)

\* An item nobody else works on, before its call has stored anything.
LEMMA Unbegun ==
  ASSUME Types, Apart, Served, NEW c \in Calls, Pending(c), calls[c].alone,
         calls[c].step \in {"read", "store"}, calls[c].item \notin torn
  PROVE  Consistent(calls[c].item)
  <1>1. calls[c].item \in Items
    BY Asked
  <1>2. Untouched(calls[c].item)
    BY DEF Untouched, Apart
  <1> QED BY <1>1, <1>2 DEF Served

\* A call that has stored something but not answered touches its item.
LEMMA Touches ==
  ASSUME NEW c \in Calls, NEW i, calls'[c].item = i,
         calls'[c].step \notin {"idle", "done", "read", "store"}
  PROVE  ~Untouched(i)'
  BY DEF Untouched, Pending

LEMMA SettingServes ==
  ASSUME Types, Progressed, NEW c \in Calls, Pending(c), calls[c].alone,
         NEW i \in Items, i = calls[c].item, Untouched(i)',
         StoreSetting(c) \/ CopyOverrides(c) \/ SetOverrides(c)
  PROVE  Consistent(i)'
  <1>1. calls[c].item \in Items /\ CallOK(calls[c]) /\ calls[c] \in CallType
    BY Asked DEF Types
  <1>2. calls[c].item[1] = "setting" /\ calls[c].item[2] \in Setting
    BY <1>1, ItemParts DEF StoreSetting, CopyOverrides, SetOverrides, CallOK
  <1>3. ~StoreSetting(c)
    <2>1. ASSUME StoreSetting(c)
          PROVE  calls'[c].step = "copy" /\ calls'[c].item = calls[c].item
      BY <2>1, Gone DEF StoreSetting
    <2> QED BY <2>1, Touches
  <1>4. ~CopyOverrides(c)
    <2>1. ASSUME CopyOverrides(c)
          PROVE  calls'[c].step = "publish" /\ calls'[c].item = calls[c].item
      <3>1. \E alone : calls'[c] = [Copied(c) EXCEPT !.alone = alone]
        BY <2>1, CopyMeets
      <3> QED BY <1>1, <3>1 DEF Copied, CallType
    <2> QED BY <2>1, Touches
  <1>5. CASE SetOverrides(c)
    <2>1. /\ settings[calls[c].item[2]] = calls[c].value
          /\ calls[c].kept[calls[c].item[2]] = calls[c].value
      BY <1>5 DEF SetOverrides, Progressed, Progress
    <2>2. overrides'[calls[c].item[2]] = settings'[calls[c].item[2]]
      BY <1>5, <2>1 DEF SetOverrides, tables
    <2> QED BY <1>2, <2>2 DEF Consistent
  <1> QED BY <1>3, <1>4, <1>5

LEMMA ModelServes ==
  ASSUME Types, Apart, Progressed, Served, NEW c \in Calls, Pending(c), calls[c].alone,
         NEW i \in Items, i = calls[c].item, i \notin torn', Untouched(i)',
         StoreSchema(c) \/ ApplySchema(c) \/ StoreMark(c) \/ ApplyMark(c)
  PROVE  Consistent(i)'
  <1>1. calls[c].item \in Items /\ CallOK(calls[c]) /\ Progress(c)
    BY Asked DEF Types, Progressed
  <1>2. ~Goto(c, "apply")
    BY Gone, Touches
  <1>3. CASE StoreSchema(c)
    <2>1. Refuse(c) /\ calls[c].value = None /\ schemas[calls[c].item[2]] = None
      BY <1>2, <1>3 DEF StoreSchema
    <2>2. calls[c].item[1] = "schema" /\ calls[c].item[2] \in Models \ Catalog
      BY <1>1, <1>3, ItemParts DEF StoreSchema
    <2>3. Consistent(i)
      BY <1>3, <2>1, Unbegun DEF StoreSchema, Refuse
    <2>4. Unstored(i) /\ Unserved(i)
      BY <1>3, <2>1, <2>2 DEF StoreSchema, maps, Unstored, Unserved, Types, Stores
    <2> QED BY <1>1, <2>3, <2>4, ConsistentFrame
  <1>4. CASE ApplySchema(c)
    <2>1. calls[c].item[1] = "schema" /\ calls[c].item[2] \in Models \ Catalog
      BY <1>1, <1>4, ItemParts DEF ApplySchema
    <2>2. schemas[calls[c].item[2]] = calls[c].value
      BY <1>1, <1>4 DEF ApplySchema, Progress
    <2>3. runtime'[calls[c].item[2]] = schemas'[calls[c].item[2]]
      BY <1>4, <2>1, <2>2 DEF ApplySchema, tables, Types, Stores
    <2> QED BY <2>1, <2>3 DEF Consistent
  <1>5. ~StoreMark(c)
    BY <1>2 DEF StoreMark
  <1>6. CASE ApplyMark(c)
    <2>1. calls[c].item[1] = "mark" /\ (calls[c].item[2] \in states <=> calls[c].value = Off)
      BY <1>1, <1>6 DEF ApplyMark, Progress
    <2>2. calls[c].item[2] \in disabled' <=> calls[c].item[2] \in states'
      BY <1>6, <2>1 DEF ApplyMark, Marked, tables
    <2> QED BY <2>1, <2>2 DEF Consistent
  <1> QED BY <1>3, <1>4, <1>5, <1>6

LEMMA ProviderServes ==
  ASSUME Types, Apart, Progressed, Served, NEW c \in Calls, Pending(c), calls[c].alone,
         NEW i \in Items, i = calls[c].item, i \notin torn', Untouched(i)',
         ReadConfig(c) \/ StoreConfig(c) \/ DeleteConfig(c) \/ ReadBack(c) \/ Register(c)
  PROVE  Consistent(i)'
  <1>1. calls[c].item \in Items /\ CallOK(calls[c]) /\ Progress(c)
    BY Asked DEF Types, Progressed
  <1>2. calls[c].item[1] = "provider"
    BY <1>1 DEF ReadConfig, StoreConfig, DeleteConfig, ReadBack, Register, CallOK
  <1>3. \A step \in {"readback"} \cup Slot : ~Goto(c, step) /\ \A kept : ~Keep(c, step, kept)
    BY Gone, KeptOn, Touches DEF Slot
  <1>4. ASSUME calls[c].step \in {"read", "store"}, torn' = torn,
               UNCHANGED <<config, secretsKey, adapters>>
        PROVE  Consistent(i)'
    <2>1. Consistent(i)
      BY <1>4, Unbegun
    <2>2. Unstored(i) /\ Unserved(i)
      BY <1>2, <1>4 DEF Unstored, Unserved
    <2> QED BY <1>1, <2>1, <2>2, ConsistentFrame
  <1>5. CASE ReadConfig(c)
    BY <1>4, <1>5 DEF ReadConfig, Refuse, tables, maps
  <1>6. CASE StoreConfig(c)
    BY <1>3, <1>4, <1>6 DEF StoreConfig, Refuse, maps
  <1>7. CASE DeleteConfig(c)
    BY <1>3, <1>4, <1>7 DEF DeleteConfig, Refuse, maps
  <1>8. ~ReadBack(c)
    BY <1>1, <1>3 DEF ReadBack, Progress, Slot
  <1>9. CASE Register(c)
    <2>1. calls[c].step = "config" /\ UNCHANGED <<config, secretsKey>>
      BY <1>3, <1>9 DEF Register, tables, Slot
    <2>2. /\ config = None \/ Opens(config, secretsKey)
          /\ calls[c].kept = Effective(config)
          /\ adapters["image"] = calls[c].kept /\ adapters["video"] = calls[c].kept
      BY <1>1, <2>1 DEF Progress, Slot
    <2>3. adapters' = Everywhere(Effective(config))
      BY <1>9, <2>1, <2>2 DEF Register, Types, Stores, Slot, Everywhere
    <2>4. Booted(config, secretsKey) = Effective(config)
      BY <2>2 DEF Booted
    <2>5. adapters' = Everywhere(Booted(config', secretsKey'))
      BY <2>1, <2>3, <2>4
    <2> QED BY <1>2, <2>5 DEF Consistent
  <1> QED BY <1>5, <1>6, <1>7, <1>8, <1>9

LEMMA HandleServed ==
  ASSUME Types, Apart, Kept, Progressed, Served, NEW c \in Calls, Handle(c), ~Begin(c)
  PROVE  Served'
  <1> SUFFICES ASSUME NEW i \in Items \ torn', Untouched(i)'
               PROVE  Consistent(i)'
    BY DEF Served
  <1>1. /\ Pending(c)
        /\ \/ torn \subseteq torn'
           \/ calls[c].alone /\ torn' = torn \ {calls[c].item}
    BY HandleGoes, CopyMeets DEF Goes
  <1>2. CASE i = calls[c].item
    <2>1. calls[c].alone
      BY <1>1, <1>2 DEF Apart
    <2> QED BY <1>1, <1>2, <2>1, SettingServes, ModelServes, ProviderServes DEF Handle
  <1>3. CASE i # calls[c].item
    <2>1. i \notin torn
      BY <1>1, <1>3
    <2>2. \A d \in Calls \ {c} : calls'[d].item = calls[d].item /\ calls'[d].step = calls[d].step
      <3>1. CASE CopyOverrides(c)
        <4> SUFFICES ASSUME NEW d \in Calls \ {c}
                     PROVE  calls'[d].item = calls[d].item /\ calls'[d].step = calls[d].step
          OBVIOUS
        <4>1. calls'[d] = [calls[d] EXCEPT !.alone = FALSE] \/ calls'[d] = calls[d]
          BY <3>1, CopyMeets
        <4>2. calls[d] \in CallType
          BY DEF Types
        <4> QED BY <4>1, <4>2 DEF CallType
      <3>2. CASE ~CopyOverrides(c)
        BY <3>2, HandleGoes DEF Goes, Elsewhere
      <3> QED BY <3>1, <3>2
    <2>3. Untouched(i)
      BY <1>3, <2>2 DEF Untouched, Pending
    <2>4. Consistent(i)
      BY <2>1, <2>3 DEF Served
    <2>5. Unstored(i) /\ Unserved(i)
      BY <1>3, <2>1, OthersUnmoved, WritesBack
    <2> QED BY <2>4, <2>5, ConsistentFrame
  <1> QED BY <1>2, <1>3

LEMMA RestartServes ==
  ASSUME Types, NEW key \in Seals \cup {None}, NEW loaded \in 0 .. 4, Restart(key, loaded)
  PROVE  Served'
  <1> SUFFICES ASSUME NEW i \in Items \ torn'
               PROVE  Consistent(i)'
    BY DEF Served
  <1>1. /\ UNCHANGED <<settings, schemas, states, config>>
        /\ secretsKey' = key
    BY DEF Restart, tables
  <1>2. CASE i[1] = "setting"
    <2>1. loaded >= 1 /\ i[2] \in Setting
      BY <1>2, ItemParts DEF Restart
    <2> QED BY <1>1, <1>2, <2>1 DEF Restart, Consistent
  <1>3. CASE i[1] = "schema"
    <2>1. loaded >= 2 /\ i[2] \in Models \ Catalog
      BY <1>3, ItemParts DEF Restart
    <2> QED BY <1>1, <1>3, <2>1 DEF Restart, Consistent
  <1>4. CASE i[1] = "mark"
    <2>1. loaded >= 3
      BY <1>4 DEF Restart
    <2> QED BY <1>1, <1>4, <2>1 DEF Restart, Consistent
  <1>5. CASE i[1] = "provider"
    <2>1. loaded >= 4
      BY <1>5 DEF Restart
    <2>2. adapters' = Everywhere(Booted(config', secretsKey'))
      BY <1>1, <2>1 DEF Restart
    <2> QED BY <1>5, <2>2 DEF Consistent
  <1> QED BY <1>2, <1>3, <1>4, <1>5, ItemParts

LEMMA ServedStep ==
  Types /\ Apart /\ Kept /\ Progressed /\ Served /\ [Next]_vars => Served'
  <1> SUFFICES ASSUME Types, Apart, Kept, Progressed, Served, [Next]_vars
               PROVE  Served'
    OBVIOUS
  <1>1. CASE UNCHANGED vars
    <2> SUFFICES ASSUME NEW i \in Items \ torn', Untouched(i)'
                 PROVE  Consistent(i)'
      BY DEF Served
    <2>1. UNCHANGED <<tables, maps, secretsKey, calls, torn>>
      BY <1>1 DEF vars
    <2>2. Consistent(i)
      BY <2>1 DEF Served, Untouched, Pending
    <2> QED BY <2>1, <2>2, Unmoved, ConsistentFrame
  <1>2. ASSUME NEW c \in Calls, Begin(c)
        PROVE  Served'
    <2> SUFFICES ASSUME NEW i \in Items \ torn', Untouched(i)'
                 PROVE  Consistent(i)'
      BY DEF Served
    <2>1. PICK ask \in Asks : Underway(c, ask)
      BY <1>2, BeginMeets
    <2>2. ASSUME NEW d \in Calls, Pending(d)
          PROVE  calls'[d].item = calls[d].item /\ calls'[d].step = calls[d].step
      <3>1. d # c
        BY <2>1, <2>2 DEF Underway
      <3>2. calls'[d] = [calls[d] EXCEPT !.alone = FALSE] \/ calls'[d] = calls[d]
        BY <2>1, <3>1 DEF Underway
      <3>3. calls[d] \in CallType
        BY DEF Types
      <3> QED BY <3>2, <3>3 DEF CallType
    <2>3. i \notin torn /\ Untouched(i)
      BY <2>1, <2>2 DEF Underway, Untouched, Pending
    <2>4. UNCHANGED <<tables, maps, secretsKey>>
      BY <1>2 DEF Begin
    <2> QED BY <2>3, <2>4, Unmoved, ConsistentFrame DEF Served
  <1>3. ASSUME NEW c \in Calls, Abandon(c)
        PROVE  Served'
    <2> SUFFICES ASSUME NEW i \in Items \ torn', Untouched(i)'
                 PROVE  Consistent(i)'
      BY DEF Served
    <2>1. Pending(c) /\ Elsewhere(c) /\ torn \subseteq torn'
      BY <1>3, AbandonGoes DEF Goes
    <2>2. calls[c].item = i => calls[c].step \in {"read", "store"}
      BY <1>3 DEF Abandon
    <2>3. i \notin torn /\ Untouched(i)
      BY <2>1, <2>2 DEF Untouched, Elsewhere, Pending
    <2>4. UNCHANGED <<tables, maps, secretsKey>>
      BY <1>3 DEF Abandon
    <2> QED BY <2>3, <2>4, Unmoved, ConsistentFrame DEF Served
  <1> QED BY <1>1, <1>2, <1>3, HandleServed, RestartServes DEF Next

----------------------------------------------------------------------------
(* The theorems *)

LEMMA Starts == Init => CInv
  <1> SUFFICES ASSUME Init
               PROVE  CInv
    OBVIOUS
  <1>1. Types
    BY TypesInit
  <1>2. \A c \in Calls : calls[c].step = "idle"
    BY DEF Init, Idle
  <1>3. Apart /\ Kept /\ Progressed
    BY <1>2 DEF Apart, Kept, Progressed, Pending
  <1>4. Served
    <2> SUFFICES ASSUME NEW i \in Items
                 PROVE  Consistent(i)
      BY DEF Served
    <2>1. CASE i[1] = "setting"
      BY <2>1 DEF Init, Consistent
    <2>2. CASE i[1] = "schema"
      BY <2>2 DEF Init, Consistent
    <2>3. CASE i[1] = "mark"
      BY <2>3 DEF Init, Consistent
    <2>4. CASE i[1] = "provider"
      BY <2>4 DEF Init, Consistent, Booted, Effective
    <2> QED BY <2>1, <2>2, <2>3, <2>4, ItemParts
  <1> QED BY <1>1, <1>3, <1>4 DEF CInv

LEMMA Steady == CInv /\ [Next]_vars => CInv'
  BY TypesStep, ApartStep, KeptStep, ProgressedStep, ServedStep DEF CInv

LEMMA Invariant == Spec => []CInv
  BY Starts, Steady, PTL DEF Spec

\* The tables, the maps, the calls and their histories have the types of the code's tables
\* and structures (runtime.rs, registry.rs) in every reachable state.
THEOREM ConfigTypeCorrect == Spec => []ConfigTypeOK
  <1>1. CInv => ConfigTypeOK
    BY DEF CInv, Types, Stores, CallType, ConfigTypeOK
  <1> QED BY <1>1, Invariant, PTL

\* Whatever the number of administrators, models and providers' fields, and however their
\* calls interleave, fail and are overtaken by restarts, an item nobody works on is served
\* as it is stored (admin.rs: "Every change applies to the next request ...").
THEOREM ConfigServed == Spec => []ServedAsStored
  <1>1. CInv => ServedAsStored
    BY DEF CInv, Served, Untouched, ServedAsStored
  <1> QED BY <1>1, Invariant, PTL

LEMMA Merges ==
  ASSUME CInv, Next, config' # config, config' # None, Provider \notin torn
  PROVE  \E c \in Calls : /\ calls[c].step = "store" /\ calls[c].value \in Bodies
                          /\ config'.secrets = Or(calls[c].value.secrets, Sealed)
  <1>1. PICK c \in Calls : StoreConfig(c)
    BY DEF Next, Handle, Begin, StoreSetting, CopyOverrides, SetOverrides, StoreSchema,
           ApplySchema, StoreMark, ApplyMark, ReadConfig, DeleteConfig, ReadBack, Register,
           Abandon, Restart, tables
  <1>2. Types /\ Apart /\ Progressed
    BY DEF CInv
  <1>3. Pending(c)
    BY <1>1 DEF StoreConfig, Pending
  <1>4. calls[c].value \in Bodies /\ calls[c].item = Provider
    BY <1>1, <1>2, <1>3, Asked, ItemParts DEF StoreConfig
  <1>5. calls[c].alone
    BY <1>2, <1>3, <1>4 DEF Apart
  <1>6. calls[c].kept = Sealed
    BY <1>1, <1>2, <1>3, <1>5 DEF Progressed, Progress, StoreConfig
  <1>7. config'.secrets = Or(calls[c].value.secrets, calls[c].kept)
    BY <1>1 DEF StoreConfig
  <1> QED BY <1>1, <1>4, <1>6, <1>7 DEF StoreConfig

\* A PUT that meets no other change of the provider stores its fields over those that were
\* stored, and brings back none that was deleted (put_provider).
THEOREM ConfigMerged == Spec => SecretsMerged
  <1>1. CInv /\ [Next]_vars =>
          [config' # config /\ config' # None /\ <<"provider", "p">> \notin torn =>
             \E c \in Calls : /\ calls[c].step = "store" /\ calls[c].value \in Bodies
                              /\ config'.secrets = Or(calls[c].value.secrets, Sealed)]_vars
    BY Merges DEF vars, tables, Provider
  <1> QED BY <1>1, Invariant, PTL DEF Spec, SecretsMerged

----------------------------------------------------------------------------
(* Adapters: every one of the tables has the form the proofs rely on *)

\* Words that say nothing of how a job ended.
Mute == {"none", "cut", "error", "working"}

\* A poll tells a job that is done from one that failed, and both from one at work.
PollFits(poll) ==
  /\ poll.read \in {"poll_json", "parsed", "lenient", "rpc"}
  /\ poll.then \in {"none", "result", "content", "file"}
  /\ poll.bare \in {"hollow", "failed"}
  /\ Mute \cap (poll.done \cup poll.failed) = {}
  /\ poll.done \cap poll.failed = {}

\* A submission gives a job; only the adapters the properties name are touchy or deaf.
VideoFits(w) ==
  /\ Videos[w].generate.read \in {"json", "busy", "blind"}
  /\ Videos[w].generate.gives = {"job"}
  /\ PollFits(Videos[w].poll)
  /\ Videos[w].poll.read = "rpc" => w = "hunyuan_video"
  /\ Videos[w].poll.read \in {"parsed", "lenient"} => w \in Deaf
  /\ Videos[w].poll.then = "content" => w = "openai_video"
  /\ Videos[w].poll.then = "file" => w = "minimax_video"

LEMMA VideoForm ==
  ASSUME NEW generate, NEW poll
  PROVE  VideoAdapter(generate, poll).generate = generate
         /\ VideoAdapter(generate, poll).poll = poll
  BY DEF VideoAdapter

LEMMA GenerateForm ==
  ASSUME NEW how, NEW gen \in {Submits(how), Choosy(Submits(how)), Uploading(Submits(how)),
                               Choosy(Uploading(Submits(how)))}
  PROVE  gen.read = how /\ gen.gives = {"job"}
  <1>1. CASE gen = Submits(how)
    BY <1>1 DEF Submits
  <1>2. CASE gen = Choosy(Submits(how))
    BY <1>2 DEF Submits, Choosy
  <1>3. CASE gen = Uploading(Submits(how))
    BY <1>3 DEF Submits, Uploading
  <1>4. CASE gen = Choosy(Uploading(Submits(how)))
    BY <1>4 DEF Submits, Uploading, Choosy
  <1> QED BY <1>1, <1>2, <1>3, <1>4

LEMMA PollForm ==
  ASSUME NEW how, NEW done, NEW failed, NEW bare, NEW request
  PROVE  /\ Polls(how, done, failed, bare) =
              [read |-> how, done |-> done, failed |-> failed, bare |-> bare, then |-> "none"]
         /\ Before(request, Polls(how, done, failed, bare)) =
              [read |-> how, done |-> done, failed |-> failed, bare |-> bare, then |-> request]
  BY DEF Polls, Before

VideoNames ==
  {"bedrock_video", "bytedance_video", "fal_video", "fal_strict", "google_video",
   "hunyuan_video", "kling_video", "leonardo_video", "luma_video", "minimax_video",
   "minimax_v2", "openai_video", "pixverse_video", "replicate_video", "runway_video",
   "vidu_video"}

LEMMA VideoNamesAre == DOMAIN Videos = VideoNames
  BY DEF Videos, VideoNames

LEMMA VideosFit == \A w \in DOMAIN Videos : VideoFits(w)
  <1> USE DEF VideoFits, PollFits, Mute, Deaf
  <1>1. VideoFits("bedrock_video")
    <2>1. Videos["bedrock_video"] = VideoAdapter(BedrockGenerate, BedrockPoll)
      BY DEF Videos
    <2> QED BY <2>1, VideoForm, GenerateForm, PollForm DEF BedrockGenerate, BedrockPoll
  <1>2. VideoFits("bytedance_video")
    <2>1. Videos["bytedance_video"] = VideoAdapter(BytedanceGenerate, BytedancePoll)
      BY DEF Videos
    <2> QED BY <2>1, VideoForm, GenerateForm, PollForm DEF BytedanceGenerate, BytedancePoll
  <1>3. VideoFits("fal_video")
    <2>1. Videos["fal_video"] = VideoAdapter(FalGenerate, FalPoll(FALSE))
      BY DEF Videos
    <2> QED BY <2>1, VideoForm, GenerateForm, PollForm DEF FalGenerate, FalPoll
  <1>4. VideoFits("fal_strict")
    <2>1. Videos["fal_strict"] = VideoAdapter(FalGenerate, FalPoll(TRUE))
      BY DEF Videos
    <2> QED BY <2>1, VideoForm, GenerateForm, PollForm DEF FalGenerate, FalPoll
  <1>5. VideoFits("google_video")
    <2>1. Videos["google_video"] = VideoAdapter(GoogleGenerate, GooglePoll)
      BY DEF Videos
    <2> QED BY <2>1, VideoForm, GenerateForm, PollForm DEF GoogleGenerate, GooglePoll
  <1>6. VideoFits("hunyuan_video")
    <2>1. Videos["hunyuan_video"] = VideoAdapter(HunyuanGenerate, HunyuanPoll)
      BY DEF Videos
    <2> QED BY <2>1, VideoForm, GenerateForm, PollForm DEF HunyuanGenerate, HunyuanPoll
  <1>7. VideoFits("kling_video")
    <2>1. Videos["kling_video"] = VideoAdapter(KlingGenerate, KlingPoll)
      BY DEF Videos
    <2> QED BY <2>1, VideoForm, GenerateForm, PollForm DEF KlingGenerate, KlingPoll
  <1>8. VideoFits("leonardo_video")
    <2>1. Videos["leonardo_video"] = VideoAdapter(LeonardoGenerate, LeonardoPoll)
      BY DEF Videos
    <2> QED BY <2>1, VideoForm, GenerateForm, PollForm DEF LeonardoGenerate, LeonardoPoll
  <1>9. VideoFits("luma_video")
    <2>1. Videos["luma_video"] = VideoAdapter(LumaGenerate, LumaPoll)
      BY DEF Videos
    <2> QED BY <2>1, VideoForm, GenerateForm, PollForm DEF LumaGenerate, LumaPoll
  <1>10. VideoFits("minimax_video")
    <2>1. Videos["minimax_video"] = VideoAdapter(MinimaxGenerate, MinimaxPoll)
      BY DEF Videos
    <2> QED BY <2>1, VideoForm, GenerateForm, PollForm DEF MinimaxGenerate, MinimaxPoll
  <1>11. VideoFits("minimax_v2")
    <2>1. Videos["minimax_v2"] = VideoAdapter(MinimaxV2Generate, MinimaxV2Poll)
      BY DEF Videos
    <2> QED BY <2>1, VideoForm, GenerateForm, PollForm DEF MinimaxV2Generate, MinimaxV2Poll
  <1>12. VideoFits("openai_video")
    <2>1. Videos["openai_video"] = VideoAdapter(OpenaiGenerate, OpenaiPoll)
      BY DEF Videos
    <2> QED BY <2>1, VideoForm, GenerateForm, PollForm DEF OpenaiGenerate, OpenaiPoll
  <1>13. VideoFits("pixverse_video")
    <2>1. Videos["pixverse_video"] = VideoAdapter(PixverseGenerate, PixversePoll)
      BY DEF Videos
    <2> QED BY <2>1, VideoForm, GenerateForm, PollForm DEF PixverseGenerate, PixversePoll
  <1>14. VideoFits("replicate_video")
    <2>1. Videos["replicate_video"] = VideoAdapter(ReplicateGenerate, ReplicatePoll)
      BY DEF Videos
    <2> QED BY <2>1, VideoForm, GenerateForm, PollForm DEF ReplicateGenerate, ReplicatePoll
  <1>15. VideoFits("runway_video")
    <2>1. Videos["runway_video"] = VideoAdapter(RunwayGenerate, RunwayPoll)
      BY DEF Videos
    <2> QED BY <2>1, VideoForm, GenerateForm, PollForm DEF RunwayGenerate, RunwayPoll
  <1>16. VideoFits("vidu_video")
    <2>1. Videos["vidu_video"] = VideoAdapter(ViduGenerate, ViduPoll)
      BY DEF Videos
    <2> QED BY <2>1, VideoForm, GenerateForm, PollForm DEF ViduGenerate, ViduPoll
  <1> QED BY <1>1, <1>2, <1>3, <1>4, <1>5, <1>6, <1>7, <1>8, <1>9, <1>10, <1>11, <1>12, <1>13, <1>14, <1>15, <1>16, VideoNamesAre DEF VideoNames

\* BFL alone takes an answer without an id, and the trusting ones any body for an image.
ImageFits(w) ==
  /\ Images[w].generate.read \in {"json", "lax", "status", "blind"}
  /\ Images[w].generate.read = "lax" => w = "bfl_image"
  /\ Images[w].generate.gives \subseteq {"job", "inline", "url"}
  /\ PollFits(Images[w].poll)
  /\ Images[w].fetch \in {"checked", "blind"}
  /\ Images[w].fetch = "blind" => w \in Trusting

LEMMA ImageForm ==
  ASSUME NEW generate, NEW poll, NEW fetch
  PROVE  /\ ImageAdapter(generate, poll, fetch).generate = generate
         /\ ImageAdapter(generate, poll, fetch).poll = poll
         /\ ImageAdapter(generate, poll, fetch).fetch = fetch
  BY DEF ImageAdapter

LEMMA GivesForm ==
  ASSUME NEW how, NEW what
  PROVE  Gives(Submits(how), what).read = how /\ Gives(Submits(how), what).gives = what
  BY DEF Gives, Submits

ImageNames ==
  {"bedrock_image", "bfl_image", "bytedance_image", "fal_image", "google_image",
   "hunyuan_image", "hunyuan_image3", "ideogram_image", "kling_image",
   "leonardo_image", "luma_image", "minimax_image", "openai_image", "recraft_image",
   "replicate_image", "runway_image", "stability_v1", "stability_v2"}

LEMMA ImagesFit == \A w \in DOMAIN Images : ImageFits(w)
  <1> USE DEF ImageFits, PollFits, Mute, Trusting
  <1>1. ImageFits("bedrock_image")
    <2>1. Images["bedrock_image"] = BedrockImage
      BY DEF Images
    <2> QED BY <2>1, ImageForm, GenerateForm, GivesForm, PollForm DEF BedrockImage, AtOnce, NoPoll
  <1>2. ImageFits("bfl_image")
    <2>1. Images["bfl_image"] = BflImage
      BY DEF Images
    <2> QED BY <2>1, ImageForm, GenerateForm, GivesForm, PollForm DEF BflImage, BflImagePoll
  <1>3. ImageFits("bytedance_image")
    <2>1. Images["bytedance_image"] = BytedanceImage
      BY DEF Images
    <2> QED BY <2>1, ImageForm, GenerateForm, GivesForm, PollForm DEF BytedanceImage, AtOnce, NoPoll
  <1>4. ImageFits("fal_image")
    <2>1. Images["fal_image"] = FalImage
      BY DEF Images
    <2> QED BY <2>1, ImageForm, GenerateForm, GivesForm, PollForm DEF FalImage, AtOnce, NoPoll
  <1>5. ImageFits("google_image")
    <2>1. Images["google_image"] = GoogleImage
      BY DEF Images
    <2> QED BY <2>1, ImageForm, GenerateForm, GivesForm, PollForm DEF GoogleImage, AtOnce, NoPoll
  <1>6. ImageFits("hunyuan_image")
    <2>1. Images["hunyuan_image"] = HunyuanImage
      BY DEF Images
    <2> QED BY <2>1, ImageForm, GenerateForm, GivesForm, PollForm DEF HunyuanImage, HunyuanImagePoll
  <1>7. ImageFits("hunyuan_image3")
    <2>1. Images["hunyuan_image3"] = HunyuanImage3
      BY DEF Images
    <2> QED BY <2>1, ImageForm, GenerateForm, GivesForm, PollForm DEF HunyuanImage3, HunyuanImagePoll
  <1>8. ImageFits("ideogram_image")
    <2>1. Images["ideogram_image"] = IdeogramImage
      BY DEF Images
    <2> QED BY <2>1, ImageForm, GenerateForm, GivesForm, PollForm DEF IdeogramImage, AtOnce, NoPoll
  <1>9. ImageFits("kling_image")
    <2>1. Images["kling_image"] = KlingImage
      BY DEF Images
    <2> QED BY <2>1, ImageForm, GenerateForm, GivesForm, PollForm DEF KlingImage, KlingImagePoll
  <1>10. ImageFits("leonardo_image")
    <2>1. Images["leonardo_image"] = LeonardoImage
      BY DEF Images
    <2> QED BY <2>1, ImageForm, GenerateForm, GivesForm, PollForm DEF LeonardoImage, LeonardoImagePoll
  <1>11. ImageFits("luma_image")
    <2>1. Images["luma_image"] = LumaImage
      BY DEF Images
    <2> QED BY <2>1, ImageForm, GenerateForm, GivesForm, PollForm DEF LumaImage, LumaImagePoll
  <1>12. ImageFits("minimax_image")
    <2>1. Images["minimax_image"] = MinimaxImage
      BY DEF Images
    <2> QED BY <2>1, ImageForm, GenerateForm, GivesForm, PollForm DEF MinimaxImage, AtOnce, NoPoll
  <1>13. ImageFits("openai_image")
    <2>1. Images["openai_image"] = OpenaiImage
      BY DEF Images
    <2> QED BY <2>1, ImageForm, GenerateForm, GivesForm, PollForm DEF OpenaiImage, AtOnce, NoPoll
  <1>14. ImageFits("recraft_image")
    <2>1. Images["recraft_image"] = RecraftImage
      BY DEF Images
    <2> QED BY <2>1, ImageForm, GenerateForm, GivesForm, PollForm DEF RecraftImage, AtOnce, NoPoll
  <1>15. ImageFits("replicate_image")
    <2>1. Images["replicate_image"] = ReplicateImage
      BY DEF Images
    <2> QED BY <2>1, ImageForm, GenerateForm, GivesForm, PollForm DEF ReplicateImage, ReplicateImagePoll
  <1>16. ImageFits("runway_image")
    <2>1. Images["runway_image"] = RunwayImage
      BY DEF Images
    <2> QED BY <2>1, ImageForm, GenerateForm, GivesForm, PollForm DEF RunwayImage, RunwayImagePoll
  <1>17. ImageFits("stability_v1")
    <2>1. Images["stability_v1"] = StabilityImage(FALSE)
      BY DEF Images
    <2> QED BY <2>1, ImageForm, GenerateForm, GivesForm, PollForm DEF StabilityImage, AtOnce, NoPoll
  <1>18. ImageFits("stability_v2")
    <2>1. Images["stability_v2"] = StabilityImage(TRUE)
      BY DEF Images
    <2> QED BY <2>1, ImageForm, GenerateForm, GivesForm, PollForm DEF StabilityImage, AtOnce, NoPoll
  <1>19. DOMAIN Images = ImageNames
    BY DEF Images, ImageNames
  <1> QED
    BY <1>1, <1>2, <1>3, <1>4, <1>5, <1>6, <1>7, <1>8, <1>9, <1>10, <1>11, <1>12, <1>13, <1>14, <1>15, <1>16, <1>17, <1>18, <1>19 DEF ImageNames
----------------------------------------------------------------------------
(* What the adapter at work is like, and what it can be answered *)

\* The same of the adapter at work.
Fits ==
  /\ PollFits(Poll)
  /\ IsVideo =>
       /\ Generate.read \in {"json", "busy", "blind"}
       /\ Generate.gives = {"job"}
       /\ Poll.read = "rpc" => who \in Touchy
       /\ Poll.read \in {"parsed", "lenient"} => who \in Deaf
       /\ Poll.then = "content" => who \in Touchy
       /\ Poll.then = "file" => who = "minimax_video"
       /\ who # "bfl_image"
  /\ ~IsVideo =>
       /\ Generate.read \in {"json", "lax", "status", "blind"}
       /\ Generate.read = "lax" => who = "bfl_image"
       /\ Generate.gives \subseteq {"job", "inline", "url"}
       /\ Fetch \in {"checked", "blind"}
       /\ Fetch = "blind" => who \in Trusting

Known == who \in DOMAIN Videos \cup DOMAIN Images

LEMMA AdaptersFit == Known => Fits
  <1>1. "bfl_image" \notin DOMAIN Videos
    BY VideoNamesAre DEF VideoNames
  <1>2. CASE IsVideo
    <2>1. VideoFits(who)
      BY <1>2, VideosFit DEF IsVideo
    <2> QED BY <1>1, <1>2, <2>1 DEF Fits, VideoFits, IsVideo, Generate, Poll, Touchy
  <1>3. CASE Known /\ ~IsVideo
    <2>1. ImageFits(who)
      BY <1>3, ImagesFit DEF Known, IsVideo
    <2> QED BY <1>3, <2>1 DEF Fits, ImageFits, Generate, Poll, Fetch
  <1> QED BY <1>2, <1>3

\* The word of an answer that is no success says nothing of a job, but for BFL's.
Mundane(r) ==
  /\ r.code \in Codes
  /\ r.code \in Lost => r.word = "none"
  /\ r.code \in {"429", "5xx"} => r.word \in {"cut", "error"}
  /\ r.asset \in BOOLEAN
  /\ r.asset => r.code = "2xx"

LEMMA ReplyFields ==
  ASSUME NEW code, NEW word, NEW asset
  PROVE  /\ Reply(code, word, asset).code = code
         /\ Reply(code, word, asset).word = word
         /\ Reply(code, word, asset).asset = asset
  BY DEF Reply

LEMMA UnavailableIs ==
  ASSUME NEW r \in Unavailable
  PROVE  Mundane(r) /\ r.code \in Lost \cup {"429", "5xx"} /\ ~r.asset
  <1>1. ASSUME NEW code \in Lost, r = Reply(code, "none", FALSE)
        PROVE  Mundane(r) /\ r.code \in Lost \cup {"429", "5xx"} /\ ~r.asset
    <2>1. r.code = code /\ r.word = "none" /\ r.asset = FALSE
      BY <1>1 DEF Reply
    <2> QED BY <1>1, <2>1 DEF Mundane, Lost, Codes
  <1>2. ASSUME NEW code \in {"429", "5xx"}, NEW word \in {"cut", "error"},
               r = Reply(code, word, FALSE)
        PROVE  Mundane(r) /\ r.code \in Lost \cup {"429", "5xx"} /\ ~r.asset
    <2>1. r.code = code /\ r.word = word /\ r.asset = FALSE
      BY <1>2 DEF Reply
    <2> QED BY <1>2, <2>1 DEF Mundane, Lost, Codes
  <1>3. r \in Silence \/ \E code \in {"429", "5xx"}, word \in {"cut", "error"} :
          r = Reply(code, word, FALSE)
    BY SMT DEF Unavailable, Reply
  <1> QED BY <1>1, <1>2, <1>3 DEF Silence

LEMMA DenialIs ==
  ASSUME NEW r \in Denial
  PROVE  Mundane(r) /\ r.code = "4xx" /\ r.word \in {"cut", "error"} /\ ~r.asset
  <1>1. PICK word \in {"cut", "error"} : r = Reply("4xx", word, FALSE)
    BY DEF Denial
  <1>2. r.code = "4xx" /\ r.word = word /\ r.asset = FALSE
    BY <1>1 DEF Reply
  <1> QED BY <1>1, <1>2 DEF Mundane, Lost, Codes

LEMMA PostReplyIs ==
  ASSUME NEW r \in PostReplies
  PROVE  /\ Mundane(r)
         /\ r.code = "4xx" => r.word \in {"cut", "error"}
         /\ r.code = "2xx" => /\ r.word \in Generate.gives \cup {"cut", "error"}
                              /\ r.asset <=> r.word \in {"inline", "url"}
  <1>1. CASE r \in Unavailable
    BY <1>1, UnavailableIs DEF Lost
  <1>2. CASE r \in Denial
    BY <1>2, DenialIs
  <1>3. ASSUME NEW word \in Generate.gives \cup {"cut", "error"},
               r = Reply("2xx", word, word \in {"inline", "url"})
        PROVE  /\ Mundane(r) /\ r.code = "2xx"
               /\ r.word \in Generate.gives \cup {"cut", "error"}
               /\ r.asset <=> r.word \in {"inline", "url"}
    <2> DEFINE asset == word \in {"inline", "url"}
    <2>1. asset \in BOOLEAN
      OBVIOUS
    <2>2. r = Reply("2xx", word, asset)
      BY <1>3
    <2> HIDE DEF asset
    <2>3. r.code = "2xx" /\ r.word = word /\ r.asset = asset
      BY <2>2, ReplyFields
    <2> QED BY <1>3, <2>1, <2>3 DEF Mundane, Lost, Codes, asset
  <1>4. \/ r \in Unavailable \/ r \in Denial
        \/ \E word \in Generate.gives \cup {"cut", "error"} :
             r = Reply("2xx", word, word \in {"inline", "url"})
    BY DEF PostReplies
  <1> QED BY <1>1, <1>2, <1>3, <1>4

\* Of a job that is gone a poll hears nothing, of another what has become of it.
Heard(r) ==
  /\ Mundane(r)
  /\ r.code = "4xx" => /\ job \in {"gone", "none"}
                       /\ r.word \in {"cut", "error"} \cup Poll.failed
  /\ r.code = "2xx" => /\ job \notin {"gone", "none"}
                       /\ r.word # "cut" => r.word \in Words /\ r.asset = (job = "done")
                       /\ r.word = "cut" => ~r.asset

LEMMA JobReplyIs ==
  ASSUME Fits, NEW r \in JobReplies
  PROVE  Heard(r)
  <1>1. CASE r \in Unavailable
    BY <1>1, UnavailableIs DEF Lost, Heard
  <1>2. CASE r \in Denial /\ job \in {"gone", "none"}
    BY <1>2, DenialIs DEF Heard
  <1>3. ASSUME NEW word \in Poll.failed \cap {"Task_not_found"},
               r = Reply("4xx", word, FALSE), job \in {"gone", "none"}
        PROVE  Heard(r)
    <2>1. r.code = "4xx" /\ r.word = word /\ r.asset = FALSE
      BY <1>3 DEF Reply
    <2> QED BY <1>3, <2>1 DEF Heard, Mundane, Lost, Codes
  <1>4. ASSUME NEW word \in Words, r = Reply("2xx", word, job = "done"),
               job \notin {"gone", "none"}
        PROVE  Heard(r)
    <2> DEFINE done == job = "done"
    <2>1. done \in BOOLEAN
      OBVIOUS
    <2>2. r = Reply("2xx", word, done)
      BY <1>4
    <2> HIDE DEF done
    <2>3. r.code = "2xx" /\ r.word = word /\ r.asset = done
      BY <2>2, ReplyFields
    <2>4. word # "cut"
      BY DEF Fits, PollFits, Mute, Words
    <2> QED BY <1>4, <2>1, <2>3, <2>4 DEF Heard, Mundane, Lost, Codes, done
  <1>5. CASE r = Reply("2xx", "cut", FALSE) /\ job \notin {"gone", "none"}
    <2>1. r.code = "2xx" /\ r.word = "cut" /\ r.asset = FALSE
      BY <1>5 DEF Reply
    <2> QED BY <1>5, <2>1 DEF Heard, Mundane, Lost, Codes
  <1>6. \/ r \in Unavailable
        \/ job \in {"gone", "none"} /\ r \in Denial
        \/ job \in {"gone", "none"} /\ \E word \in Poll.failed \cap {"Task_not_found"} :
             r = Reply("4xx", word, FALSE)
        \/ job \notin {"gone", "none"} /\ \E word \in Words :
             r = Reply("2xx", word, job = "done")
        \/ job \notin {"gone", "none"} /\ r = Reply("2xx", "cut", FALSE)
    BY DEF JobReplies
  <1> QED BY <1>1, <1>2, <1>3, <1>4, <1>5, <1>6

----------------------------------------------------------------------------
(* How an answer is read *)

LEMMA SubmittedIs ==
  ASSUME Fits, NEW r \in PostReplies
  PROVE  /\ Submitted(Generate.read, r) \in {"again", "fatal", "read"}
         /\ Submitted(Generate.read, r) = "again" => r.code \in Lost \cup {"5xx", "429"}
         /\ Submitted(Generate.read, r) = "read" =>
              r.code = "2xx" /\ (r.word \in Generate.gives
                                 \/ (r.word = "error" /\ who = "bfl_image"))
  <1>1. /\ Mundane(r)
        /\ r.code = "4xx" => r.word \in {"cut", "error"}
        /\ r.code = "2xx" => r.word \in Generate.gives \cup {"cut", "error"}
    BY PostReplyIs
  <1>2. Generate.read \in {"json", "lax", "status", "busy", "blind"}
        /\ (Generate.read = "lax" => who = "bfl_image")
    BY DEF Fits
  <1>3. CASE Generate.read = "json"
    BY <1>1, <1>3 DEF Submitted, SubmitJson, Mundane, Codes, Lost
  <1>4. CASE Generate.read = "lax"
    BY <1>1, <1>2, <1>4 DEF Submitted, SubmitLax, SubmitJson, Mundane, Codes, Lost
  <1>5. CASE Generate.read \in {"status", "busy"}
    BY <1>1, <1>5 DEF Submitted, SubmitStatus, Mundane, Codes, Lost
  <1>6. CASE Generate.read = "blind"
    BY <1>1, <1>6 DEF Submitted, SubmitBlind, Mundane, Codes, Lost
  <1> QED BY <1>2, <1>3, <1>4, <1>5, <1>6

LEMMA PolledIs ==
  ASSUME Fits, NEW r, Heard(r)
  PROVE  /\ Polled(Poll.read, r) \in {"again", "fatal", "read"}
         /\ Polled(Poll.read, r) = "again" => r.code \in Lost \cup {"5xx", "429"}
         /\ Polled(Poll.read, r) = "fatal" =>
              r.word = "cut" \/ r.code = "4xx" \/ Poll.read = "rpc"
         /\ Polled(Poll.read, r) = "read" /\ r.code = "4xx" =>
              Poll.read \in {"parsed", "lenient"} \/ r.word \in Poll.failed
  <1>1. Poll.read \in {"poll_json", "parsed", "lenient", "rpc"}
    BY DEF Fits, PollFits
  <1>2. CASE Poll.read = "poll_json"
    BY <1>2 DEF Polled, ReadPollJson, Heard, Mundane, Codes, Lost
  <1>3. CASE Poll.read = "parsed"
    BY <1>3 DEF Polled, ReadParsed, Heard, Mundane, Codes, Lost
  <1>4. CASE Poll.read = "lenient"
    BY <1>4 DEF Polled, ReadLenient, Heard, Mundane, Codes, Lost
  <1>5. CASE Poll.read = "rpc"
    BY <1>5 DEF Polled, ReadRpc, Heard, Mundane, Codes, Lost
  <1> QED BY <1>1, <1>2, <1>3, <1>4, <1>5

LEMMA FetchedIs ==
  ASSUME Fits, ~IsVideo, NEW r \in FileReplies
  PROVE  /\ Fetched(Fetch, r) \in {"again", "fatal", "read"}
         /\ Fetched(Fetch, r) = "again" => r.code \in Lost
         /\ Fetched(Fetch, r) = "read" => r.code = "2xx" \/ who \in Trusting
  <1>1. Fetch \in {"checked", "blind"} /\ (Fetch = "blind" => who \in Trusting)
    BY DEF Fits
  <1>2. CASE Fetch = "checked"
    BY <1>2 DEF Fetched, FetchChecked
  <1>3. CASE Fetch = "blind"
    BY <1>1, <1>3 DEF Fetched, FetchBlind
  <1> QED BY <1>1, <1>2, <1>3

\* What says how a job ended was said by a provider that knows it.
LEMMA ConclusionIs ==
  ASSUME Fits, NEW r, Heard(r)
  PROVE  /\ Concludes(r) => r.code \in {"2xx", "4xx"}
         /\ r.word \in Poll.done => /\ r.code = "2xx" /\ job \in {"done", "bare"}
                                    /\ r.asset <=> job = "done"
         /\ r.word \in Poll.failed => job \in {"failed", "gone", "none"}
         /\ r.asset => job = "done"
         /\ r.code = "2xx" /\ r.word # "cut" => (r.asset <=> job = "done")
  <1>1. /\ Mute \cap (Poll.done \cup Poll.failed) = {}
        /\ Poll.done \cap Poll.failed = {}
    BY DEF Fits, PollFits
  <1>2. r.code \notin {"2xx", "4xx"} => r.word \in Mute
    BY DEF Heard, Mundane, Codes, Lost, Mute
  <1>3. r.code = "2xx" => r.word = "cut" \/ r.word \in Words
    BY DEF Heard
  <1>4. r.word \in Words /\ r.word \in Poll.done => job \in {"done", "bare"}
    BY <1>1 DEF Words, Mute
  <1>5. r.word \in Words /\ r.word \in Poll.failed => job = "failed"
    BY <1>1 DEF Words, Mute
  <1>6. r.code = "4xx" => job \in {"gone", "none"}
                          /\ r.word \in {"cut", "error"} \cup Poll.failed
    BY DEF Heard
  <1> QED BY <1>1, <1>2, <1>3, <1>4, <1>5, <1>6 DEF Heard, Mundane, Concludes, Mute

----------------------------------------------------------------------------
(* The inductive invariant *)

\* A call is where its adapter can be, has no result before its end, and does not miss an
\* image before there is one; a poll has a request after it if the job is done.
Placed ==
  /\ pc \in {"start", "upload", "post", "poll", "fetch", "row", "then", "over"}
  /\ job \in Live \cup {"none", "bare", "failed", "gone"}
  /\ result \in {"none", "delivered", "gated", "hollow", "failed", "error", "dropped", "reaped"}
  /\ told \in BOOLEAN /\ missed \in BOOLEAN
  /\ pc # "over" => result = "none"
  /\ IsVideo => pc \notin {"poll", "fetch"} /\ ~missed
  /\ ~IsVideo => pc \notin {"row", "then"}
  /\ Poll.then = "content" => job # "bare"
  /\ pc = "then" => Poll.then # "none" /\ job \in {"done", "bare", "gone"}

\* While a call can still buy, no end was told.
Unspent ==
  told /\ pc \in {"start", "upload", "post", "poll"} => missed \/ who = "bfl_image"

AInv == Known /\ Placed /\ Unspent /\ RowsFollowJobs /\ DeliveredIsResult

LEMMA SameAdapter ==
  ASSUME who' = who
  PROVE  /\ Known' <=> Known
         /\ IsVideo' <=> IsVideo
         /\ Poll' = Poll
  BY DEF Known, IsVideo, Poll

LEMMA AdapterStarts == AdapterInit => AInv
  <1>1. AdapterInit => Known
    BY DEF AdapterInit, Known
  <1> QED BY <1>1 DEF AdapterInit, AInv, Placed, Unspent, RowsFollowJobs, DeliveredIsResult

\* The router's retry or error.
LEMMA AgainIs ==
  ASSUME Placed, Again, pc # "over"
  PROVE  /\ pc' \in {"start", "over"}
         /\ pc' = "start" => result' = "none"
         /\ pc' = "over" => result' = "error"
  BY DEF Again, Placed

\* A call that goes on or ends without having delivered leaves the properties of rows be.
LEMMA NothingSaid ==
  ASSUME who' = who, pc' # "row", result' \in {"none", "error"}
  PROVE  RowsFollowJobs' /\ DeliveredIsResult'
  BY DEF RowsFollowJobs, DeliveredIsResult

LEMMA WorkKeeps ==
  ASSUME AInv, Work
  PROVE  AInv'
  <1> USE DEF AInv
  <1>1. who' = who /\ pc' = pc /\ result' = result /\ told' = told /\ missed' = missed
        /\ last' = last /\ pc # "over"
    BY DEF Work, progress, history
  <1>2. Known' /\ (IsVideo' <=> IsVideo) /\ Poll' = Poll
    BY <1>1, SameAdapter
  <1>3. result = "none"
    BY <1>1 DEF Placed
  <1>4. Placed'
    BY <1>1, <1>2 DEF Placed, Work, Live
  <1>5. Unspent'
    BY <1>1 DEF Unspent
  <1>6. RowsFollowJobs' /\ DeliveredIsResult'
    BY <1>1, <1>2, <1>3 DEF RowsFollowJobs, DeliveredIsResult
  <1> QED BY <1>2, <1>4, <1>5, <1>6

LEMMA StartKeeps ==
  ASSUME AInv, StartCall
  PROVE  AInv'
  <1> USE DEF AInv
  <1>1. who' = who /\ job' = job /\ told' = told /\ missed' = missed /\ pc = "start"
    BY DEF StartCall, history
  <1>2. Known' /\ (IsVideo' <=> IsVideo) /\ Poll' = Poll
    BY <1>1, SameAdapter
  <1>3. \/ pc' = "over" /\ result' = "error"
        \/ pc' \in {"upload", "post"} /\ result' = "none"
    BY <1>1 DEF StartCall, Over, MoveTo, Placed
  <1>4. Placed'
    BY <1>1, <1>2, <1>3 DEF Placed
  <1>5. Unspent'
    BY <1>1, <1>3 DEF Unspent
  <1>6. RowsFollowJobs' /\ DeliveredIsResult'
    BY <1>1, <1>3, NothingSaid
  <1> QED BY <1>2, <1>4, <1>5, <1>6

LEMMA UploadKeeps ==
  ASSUME AInv, Upload
  PROVE  AInv'
  <1> USE DEF AInv
  <1>1. who' = who /\ job' = job /\ told' = told /\ missed' = missed /\ pc = "upload"
    BY DEF Upload
  <1>2. Known' /\ (IsVideo' <=> IsVideo) /\ Poll' = Poll
    BY <1>1, SameAdapter
  <1>3. PICK r \in FileReplies :
          CASE Uploaded(r) = "again" -> Again
            [] Uploaded(r) = "fatal" -> Over("error")
            [] Uploaded(r) = "read"  -> MoveTo("upload") \/ MoveTo("post")
    BY DEF Upload
  <1>4. Uploaded(r) \in {"again", "fatal", "read"}
    BY DEF Uploaded
  <1>5. Again \/ Over("error") \/ MoveTo("upload") \/ MoveTo("post")
    BY <1>3, <1>4
  <1>6. \/ pc' = "over" /\ result' = "error"
        \/ pc' \in {"start", "upload", "post"} /\ result' = "none"
    BY <1>1, <1>5, AgainIs DEF Over, MoveTo, Placed
  <1>7. Placed'
    BY <1>1, <1>2, <1>6 DEF Placed
  <1>8. Unspent'
    BY <1>1, <1>6 DEF Unspent
  <1>9. RowsFollowJobs' /\ DeliveredIsResult'
    BY <1>1, <1>6, NothingSaid
  <1> QED BY <1>2, <1>7, <1>8, <1>9

\* A submission that was read is a job, an image or its address, of BFL even an error.
LEMMA PostKeeps ==
  ASSUME AInv, Post
  PROVE  AInv'
  <1> USE DEF AInv
  <1>1. who' = who /\ missed' = missed /\ pc = "post" /\ result = "none"
    BY DEF Post, Placed
  <1>2. Known' /\ (IsVideo' <=> IsVideo) /\ Poll' = Poll
    BY <1>1, SameAdapter
  <1>3. Fits
    BY AdaptersFit
  <1>4. PICK r \in PostReplies :
          /\ last' = r
          /\ told' = (told \/ r.asset \/ r.code = "4xx" \/ (r.code = "2xx" /\ r.word = "error"))
          /\ CASE Submitted(Generate.read, r) = "again" -> Again /\ UNCHANGED job
               [] Submitted(Generate.read, r) = "fatal" -> Over("error") /\ UNCHANGED job
               [] Submitted(Generate.read, r) = "read"  ->
                    /\ job' = CASE r.asset -> "done" [] r.word = "job" -> "running"
                                [] OTHER -> "gone"
                    /\ CASE r.word = "inline" -> Over("delivered")
                         [] r.word = "url"    -> MoveTo("fetch")
                         [] OTHER             -> MoveTo(IF IsVideo THEN "row" ELSE "poll")
    BY Zenon DEF Post
  <1>5. /\ Mundane(r)
        /\ r.code = "2xx" => (r.asset <=> r.word \in {"inline", "url"})
    BY PostReplyIs
  <1>6. told' \in BOOLEAN
    BY <1>4
  <1>7. CASE Submitted(Generate.read, r) = "again"
    <2>1. r.code \in Lost \cup {"5xx", "429"}
      BY <1>3, <1>7, SubmittedIs
    <2>2. told' <=> told
      BY <1>4, <1>5, <2>1 DEF Mundane, Lost
    <2>3. Again /\ job' = job
      BY <1>4, <1>7
    <2>4. \/ pc' = "over" /\ result' = "error"
          \/ pc' = "start" /\ result' = "none"
      BY <1>1, <2>3, AgainIs
    <2>5. Placed'
      BY <1>1, <1>2, <1>6, <2>3, <2>4 DEF Placed
    <2>6. Unspent'
      BY <1>1, <2>2, <2>4 DEF Unspent
    <2>7. RowsFollowJobs' /\ DeliveredIsResult'
      BY <1>1, <2>4, NothingSaid
    <2> QED BY <1>2, <2>5, <2>6, <2>7
  <1>8. CASE Submitted(Generate.read, r) = "fatal"
    <2>1. job' = job /\ pc' = "over" /\ result' = "error"
      BY <1>4, <1>8 DEF Over
    <2>2. Placed' /\ Unspent'
      BY <1>1, <1>2, <1>6, <2>1 DEF Placed, Unspent
    <2>3. RowsFollowJobs' /\ DeliveredIsResult'
      BY <1>1, <2>1, NothingSaid
    <2> QED BY <1>2, <2>2, <2>3
  <1>9. CASE Submitted(Generate.read, r) = "read"
    <2>1. r.code = "2xx" /\ (r.word \in Generate.gives
                             \/ (r.word = "error" /\ who = "bfl_image"))
      BY <1>3, <1>9, SubmittedIs
    <2>2. job' = (CASE r.asset -> "done" [] r.word = "job" -> "running" [] OTHER -> "gone")
      BY <1>4, <1>9
    <2>3. (CASE r.word = "inline" -> Over("delivered")
             [] r.word = "url"    -> MoveTo("fetch")
             [] OTHER             -> MoveTo(IF IsVideo THEN "row" ELSE "poll"))
      BY <1>4, <1>9
    <2>4. job' \in {"done", "running", "gone"}
      BY <2>2
    <2>5. CASE IsVideo
      <3>1. r.word = "job"
        BY <1>3, <2>1, <2>5 DEF Fits
      <3>2. pc' = "row" /\ result' = "none"
        BY <1>1, <2>3, <2>5, <3>1 DEF MoveTo
      <3>3. (told' <=> told) /\ ~told
        BY <1>1, <1>3, <1>4, <1>5, <2>1, <2>5, <3>1 DEF Unspent, Placed, Fits
      <3>4. Placed' /\ Unspent'
        BY <1>1, <1>2, <1>6, <2>4, <2>5, <3>2 DEF Placed, Unspent, Live
      <3>5. last'.code # "4xx"
        BY <1>4, <2>1
      <3>6. RowsFollowJobs' /\ DeliveredIsResult'
        BY <3>2, <3>3, <3>5 DEF RowsFollowJobs, DeliveredIsResult
      <3> QED BY <1>2, <3>4, <3>6
    <2>6. CASE ~IsVideo
      <3>1. \/ pc' = "over" /\ result' = "delivered" /\ r.word = "inline"
            \/ pc' = "fetch" /\ result' = "none" /\ r.word = "url"
            \/ pc' = "poll" /\ result' = "none" /\ r.word \notin {"inline", "url"}
        BY <1>1, <2>3, <2>6 DEF Over, MoveTo
      <3>2. Placed'
        BY <1>1, <1>2, <1>6, <2>4, <2>6, <3>1 DEF Placed, Live
      <3>3. pc' = "poll" => (told' <=> told) \/ who = "bfl_image"
        <4>1. CASE r.word = "error" /\ who = "bfl_image"
          BY <4>1
        <4>2. CASE r.word \in Generate.gives
          <5>1. r.word # "error"
            BY <1>3, <2>6, <4>2 DEF Fits
          <5> QED BY <1>4, <1>5, <2>1, <3>1, <5>1
        <4> QED BY <2>1, <4>1, <4>2
      <3>4. Unspent'
        BY <1>1, <3>1, <3>3 DEF Unspent
      <3>5. last'.code = "2xx"
        BY <1>4, <2>1
      <3>6. RowsFollowJobs' /\ DeliveredIsResult'
        BY <1>2, <2>6, <3>1, <3>5 DEF RowsFollowJobs, DeliveredIsResult
      <3> QED BY <1>2, <3>2, <3>4, <3>6
    <2> QED BY <2>5, <2>6
  <1> QED BY <1>3, <1>7, <1>8, <1>9, SubmittedIs

\* A poll that goes on, or is repeated, was not told of an end.
LEMMA PollKeeps ==
  ASSUME AInv, PollImage
  PROVE  AInv'
  <1> USE DEF AInv
  <1>1. who' = who /\ job' = job /\ missed' = missed /\ pc = "poll" /\ result = "none"
    BY DEF PollImage, Placed
  <1>2. Known' /\ (IsVideo' <=> IsVideo) /\ Poll' = Poll
    BY <1>1, SameAdapter
  <1>3. ~IsVideo /\ Fits
    BY <1>1, AdaptersFit DEF Placed
  <1> DEFINE reading(r) == Polled(Poll.read, r)
             word(r)    == IF reading(r) = "read" THEN r.word ELSE "none"
  <1>4. PICK r \in JobReplies :
          /\ told' = (told \/ Concludes(r))
          /\ CASE reading(r) = "again"                             -> Again
               [] reading(r) = "fatal" \/ word(r) \in Poll.failed  -> Over("error")
               [] word(r) \in Poll.done                            ->
                    IF r.asset THEN MoveTo("fetch") ELSE Over("error")
               [] OTHER                                            ->
                    IF polls + 1 = PollLimit THEN Again
                    ELSE polls' = polls + 1 /\ UNCHANGED <<pc, attempt, result>>
    BY Zenon DEF PollImage
  <1>5. Heard(r)
    BY <1>3, JobReplyIs
  <1>6. told' \in BOOLEAN
    BY <1>4
  <1>7. /\ reading(r) \in {"again", "fatal", "read"}
        /\ reading(r) = "again" => ~Concludes(r)
    BY <1>3, <1>5, PolledIs, ConclusionIs DEF Lost
  <1>8. \/ Over("error") \/ MoveTo("fetch")
        \/ (Again \/ UNCHANGED <<pc, result>>) /\ ~Concludes(r)
    <2>1. CASE reading(r) = "again"
      BY <1>4, <1>7, <2>1
    <2>2. CASE reading(r) = "fatal"
      BY <1>4, <2>2
    <2>3. CASE reading(r) = "read"
      <3>1. word(r) = r.word
        BY <2>3
      <3>2. CASE r.word \in Poll.failed
        BY <1>4, <2>3, <3>1, <3>2
      <3>3. CASE r.word \in Poll.done /\ r.word \notin Poll.failed
        BY <1>4, <2>3, <3>1, <3>3
      <3>4. CASE r.word \notin Poll.done /\ r.word \notin Poll.failed
        BY <1>4, <2>3, <3>1, <3>4 DEF Concludes
      <3> QED BY <3>2, <3>3, <3>4
    <2> QED BY <1>7, <2>1, <2>2, <2>3
  <1>9. \/ pc' = "over" /\ result' = "error"
        \/ pc' = "fetch" /\ result' = "none"
        \/ pc' \in {"start", "poll"} /\ result' = "none" /\ (told' <=> told)
    BY <1>1, <1>4, <1>8, AgainIs DEF Over, MoveTo
  <1>10. Placed'
    BY <1>1, <1>2, <1>3, <1>6, <1>9 DEF Placed
  <1>11. Unspent'
    BY <1>1, <1>9 DEF Unspent
  <1>12. RowsFollowJobs' /\ DeliveredIsResult'
    BY <1>1, <1>9, NothingSaid
  <1> QED BY <1>2, <1>10, <1>11, <1>12

\* A download that is repeated had no answer, which is the one way to buy again.
LEMMA FetchKeeps ==
  ASSUME AInv, FetchImage
  PROVE  AInv'
  <1> USE DEF AInv
  <1>1. who' = who /\ job' = job /\ told' = told /\ pc = "fetch" /\ result = "none"
    BY DEF FetchImage, Placed
  <1>2. Known' /\ (IsVideo' <=> IsVideo) /\ Poll' = Poll
    BY <1>1, SameAdapter
  <1>3. ~IsVideo /\ Fits
    BY <1>1, AdaptersFit DEF Placed
  <1>4. PICK r \in FileReplies :
          /\ last' = r
          /\ missed' = (missed \/ r.code \in Lost)
          /\ CASE Fetched(Fetch, r) = "again" -> Again
               [] Fetched(Fetch, r) = "fatal" -> Over("error")
               [] Fetched(Fetch, r) = "read"  -> Over("delivered")
    BY Zenon DEF FetchImage
  <1>5. missed' \in BOOLEAN
    BY <1>4
  <1>6. \/ pc' = "start" /\ result' = "none" /\ r.code \in Lost
        \/ pc' = "over" /\ result' = "error"
        \/ pc' = "over" /\ result' = "delivered" /\ (r.code = "2xx" \/ who \in Trusting)
    BY <1>1, <1>3, <1>4, AgainIs, FetchedIs DEF Over
  <1>7. Placed'
    BY <1>1, <1>2, <1>3, <1>5, <1>6 DEF Placed
  <1>8. Unspent'
    BY <1>4, <1>6 DEF Unspent
  <1>9. RowsFollowJobs' /\ DeliveredIsResult'
    BY <1>1, <1>2, <1>3, <1>4, <1>6 DEF RowsFollowJobs, DeliveredIsResult
  <1> QED BY <1>2, <1>7, <1>8, <1>9

LEMMA GiveUpKeeps ==
  ASSUME AInv, GiveUp
  PROVE  AInv'
  <1> USE DEF AInv
  <1>1. who' = who /\ job' = job /\ told' = told /\ pc \in {"upload", "poll", "fetch"}
        /\ missed' = (missed \/ pc = "fetch") /\ Again /\ result = "none"
    BY DEF GiveUp, Placed
  <1>2. Known' /\ (IsVideo' <=> IsVideo) /\ Poll' = Poll
    BY <1>1, SameAdapter
  <1>3. \/ pc' = "over" /\ result' = "error"
        \/ pc' = "start" /\ result' = "none"
    BY <1>1, AgainIs
  <1>4. Placed'
    BY <1>1, <1>2, <1>3 DEF Placed
  <1>5. Unspent'
    BY <1>1, <1>3 DEF Unspent
  <1>6. RowsFollowJobs' /\ DeliveredIsResult'
    BY <1>1, <1>3, NothingSaid
  <1> QED BY <1>2, <1>4, <1>5, <1>6

\* The row is judged by what was heard of its job.
LEMMA JudgedIs ==
  ASSUME Fits, NEW r, Heard(r), Poll.then = "content" => job # "bare"
  PROVE  /\ Judged(r) \in {"failed", "hollow", "delivered", "then", "open"}
         /\ Judged(r) = "failed" => job \notin Live
         /\ Judged(r) = "hollow" => job = "bare"
         /\ Judged(r) = "delivered" => job = "done"
         /\ Judged(r) = "then" => Poll.then # "none" /\ job \in {"done", "bare"}
         /\ Judged(r) = "open" => ~Concludes(r)
         /\ Judged(r) # "failed" => r.word \notin Poll.failed
  <1>1. /\ Poll.bare \in {"hollow", "failed"}
        /\ Poll.then \in {"none", "result", "content", "file"}
        /\ Poll.done \cap Poll.failed = {}
    BY DEF Fits, PollFits
  <1>2. /\ r.word \in Poll.done => /\ job \in {"done", "bare"}
                                   /\ r.asset <=> job = "done"
        /\ r.word \in Poll.failed => job \in {"failed", "gone", "none"}
    BY ConclusionIs
  <1>3. CASE r.word \in Poll.failed
    BY <1>2, <1>3 DEF Judged, Live
  <1>4. CASE r.word \in Poll.done /\ r.word \notin Poll.failed
    <2>1. Judged(r) = IF Poll.then \in {"none", "file"} /\ ~r.asset THEN Poll.bare
                      ELSE IF Poll.then = "none" THEN "delivered" ELSE "then"
      BY <1>4 DEF Judged
    <2>2. CASE Poll.then \in {"none", "file"} /\ ~r.asset
      BY <1>1, <1>2, <1>4, <2>1, <2>2 DEF Live
    <2>3. CASE Poll.then = "none" /\ r.asset
      BY <1>2, <1>4, <2>1, <2>3
    <2>4. CASE Poll.then # "none" /\ (Poll.then = "file" => r.asset)
      BY <1>2, <1>4, <2>1, <2>4
    <2> QED BY <2>2, <2>3, <2>4
  <1>5. CASE r.word \notin Poll.done \cup Poll.failed
    BY <1>5 DEF Judged, Concludes
  <1> QED BY <1>3, <1>4, <1>5

\* A row is closed early only by what is over, unread or taken for an end; a row that
\* stays open heard of no end, but from adapters that do not listen.
LEMMA AskKeeps ==
  ASSUME AInv, Ask
  PROVE  AInv'
  <1> USE DEF AInv
  <1>1. who' = who /\ job' = job /\ missed' = missed /\ pc = "row" /\ result = "none"
    BY DEF Ask, Placed
  <1>2. Known' /\ (IsVideo' <=> IsVideo) /\ Poll' = Poll
    BY <1>1, SameAdapter
  <1>3. IsVideo /\ Fits
    BY <1>1, AdaptersFit DEF Placed
  <1> DEFINE reading(r) == Polled(Poll.read, r)
  <1>4. PICK r \in JobReplies :
          /\ last' = r
          /\ told' = (told \/ Concludes(r))
          /\ CASE reading(r) = "again" -> Wait
               [] reading(r) = "fatal" -> Over("dropped")
               [] reading(r) = "read"  ->
                    CASE Judged(r) = "open" -> Wait
                      [] Judged(r) = "then" -> MoveTo("then")
                      [] OTHER              -> Over(Judged(r))
    BY Zenon DEF Ask
  <1>5. Heard(r)
    BY <1>3, JobReplyIs
  <1>6. told' \in BOOLEAN
    BY <1>4
  <1>7. /\ reading(r) \in {"again", "fatal", "read"}
        /\ reading(r) = "again" => ~Concludes(r) /\ r.code # "4xx"
        /\ reading(r) = "fatal" => r.word = "cut" \/ job \notin Live \/ who \in Touchy
        /\ reading(r) = "read" /\ r.code = "4xx" => who \in Deaf \/ r.word \in Poll.failed
    BY <1>3, <1>5, PolledIs, ConclusionIs DEF Lost, Heard, Live, Fits
  <1>8. \/ Wait /\ ~Concludes(r) /\ (r.code = "4xx" => who \in Deaf)
        \/ Over("dropped") /\ (r.word = "cut" \/ job \notin Live \/ who \in Touchy)
        \/ MoveTo("then") /\ Poll.then # "none" /\ job \in {"done", "bare"}
        \/ Over("failed") /\ job \notin Live
        \/ Over("hollow") /\ job = "bare"
        \/ Over("delivered") /\ job = "done"
    <2>1. CASE reading(r) = "again"
      BY <1>4, <1>7, <2>1
    <2>2. CASE reading(r) = "fatal"
      BY <1>4, <1>7, <2>2
    <2>3. CASE reading(r) = "read"
      <3>1. /\ Judged(r) \in {"failed", "hollow", "delivered", "then", "open"}
            /\ Judged(r) = "failed" => job \notin Live
            /\ Judged(r) = "hollow" => job = "bare"
            /\ Judged(r) = "delivered" => job = "done"
            /\ Judged(r) = "then" => Poll.then # "none" /\ job \in {"done", "bare"}
            /\ Judged(r) = "open" => ~Concludes(r) /\ r.word \notin Poll.failed
        BY <1>3, <1>5, JudgedIs DEF Placed
      <3>2. (CASE Judged(r) = "open" -> Wait
               [] Judged(r) = "then" -> MoveTo("then")
               [] OTHER              -> Over(Judged(r)))
        BY <1>4, <2>3
      <3> HIDE DEF reading
      <3> QED BY <1>7, <2>3, <3>1, <3>2
    <2> QED BY <1>7, <2>1, <2>2, <2>3
  <1>9. \/ /\ pc' = "row" /\ result' = "none"
           /\ (told' <=> told) /\ (r.code = "4xx" => who \in Deaf)
        \/ pc' = "over" /\ result' = "reaped"
        \/ pc' = "over" /\ result' = "dropped"
           /\ (r.word = "cut" \/ job \notin Live \/ who \in Touchy)
        \/ pc' = "then" /\ result' = "none" /\ Poll.then # "none" /\ job \in {"done", "bare"}
        \/ pc' = "over" /\ result' = "failed" /\ job \notin Live
        \/ pc' = "over" /\ result' = "hollow" /\ job = "bare"
        \/ pc' = "over" /\ result' = "delivered" /\ job = "done"
    BY <1>1, <1>4, <1>8 DEF Wait, Over, MoveTo
  <1>10. Placed'
    BY <1>1, <1>2, <1>3, <1>6, <1>9 DEF Placed
  <1>11. Unspent'
    BY <1>9 DEF Unspent
  <1>12. RowsFollowJobs'
    BY <1>1, <1>2, <1>4, <1>9 DEF RowsFollowJobs
  <1>13. DeliveredIsResult'
    BY <1>1, <1>2, <1>3, <1>9 DEF DeliveredIsResult
  <1> QED BY <1>2, <1>10, <1>11, <1>12, <1>13

\* What follows a poll that found the job done.
LEMMA ThenKeeps ==
  ASSUME AInv, Then
  PROVE  AInv'
  <1> USE DEF AInv
  <1>1. who' = who /\ job' = job /\ told' = told /\ missed' = missed
        /\ pc = "then" /\ result = "none"
    BY DEF Then, Placed
  <1>2. Known' /\ (IsVideo' <=> IsVideo) /\ Poll' = Poll
    BY <1>1, SameAdapter
  <1>3. /\ IsVideo /\ Fits
        /\ Poll.then # "none" /\ job \in {"done", "bare", "gone"}
        /\ Poll.then = "content" => job # "bare"
    BY <1>1, AdaptersFit DEF Placed
  <1> DEFINE reading(r) == IF Poll.then = "content" THEN ReadContent(r) ELSE ReadPollJson(r)
  <1>4. PICK r \in JobReplies :
          /\ last' = r
          /\ CASE Poll.then = "file" -> Over(IF r.asset THEN "delivered" ELSE "hollow")
               [] Poll.then # "file" /\ reading(r) = "again" -> Wait
               [] Poll.then # "file" /\ reading(r) = "fatal" -> Over("dropped")
               [] Poll.then # "file" /\ reading(r) = "read"  ->
                    Over(CASE Poll.then = "content" -> "gated"
                           [] r.asset               -> "delivered"
                           [] OTHER                 -> Poll.bare)
    BY Zenon DEF Then
  <1>5. Heard(r)
    BY <1>3, JobReplyIs
  <1>6. /\ r.asset => job = "done"
        /\ r.code = "2xx" /\ r.word # "cut" => (r.asset <=> job = "done")
        /\ r.code = "2xx" => job \notin {"gone", "none"}
        /\ r.code = "4xx" => job \in {"gone", "none"}
    BY <1>3, <1>5, ConclusionIs DEF Heard
  <1>7. /\ reading(r) \in {"again", "fatal", "read"}
        /\ reading(r) = "again" => r.code # "4xx"
        /\ reading(r) = "fatal" =>
             r.word = "cut" \/ r.code = "4xx" \/ Poll.then = "content"
        /\ reading(r) = "read" => r.code = "2xx" /\ r.word # "cut"
    BY <1>5 DEF ReadContent, ReadPollJson, Heard, Mundane, Codes, Lost
  <1>8. \/ Wait /\ r.code # "4xx"
        \/ Over("dropped") /\ (r.word = "cut" \/ job \notin Live \/ who \in Touchy)
        \/ Over("gated") /\ job = "done"
        \/ Over("delivered") /\ job = "done"
        \/ Over("hollow") /\ (job = "bare" \/ who = "minimax_video")
        \/ Over("failed") /\ job \notin Live
    <2>1. CASE Poll.then = "file"
      <3>1. Over(IF r.asset THEN "delivered" ELSE "hollow") /\ who = "minimax_video"
        BY <1>3, <1>4, <2>1 DEF Fits
      <3> QED BY <1>6, <3>1
    <2>2. CASE Poll.then # "file" /\ reading(r) = "again"
      BY <1>4, <1>7, <2>2
    <2>3. CASE Poll.then # "file" /\ reading(r) = "fatal"
      <3>1. Over("dropped")
        BY <1>4, <2>3
      <3> QED BY <1>3, <1>6, <1>7, <2>3, <3>1 DEF Fits, Live
    <2>4. CASE Poll.then # "file" /\ reading(r) = "read"
      <3>1. Over(CASE Poll.then = "content" -> "gated"
                   [] r.asset               -> "delivered"
                   [] OTHER                 -> Poll.bare)
        BY <1>4, <2>4
      <3>2. /\ job \in {"done", "bare"} /\ (r.asset <=> job = "done")
            /\ Poll.bare \in {"hollow", "failed"}
        BY <1>3, <1>6, <1>7, <2>4 DEF Fits, PollFits
      <3>3. CASE Poll.then = "content"
        BY <1>3, <3>1, <3>2, <3>3
      <3>4. CASE Poll.then # "content" /\ r.asset
        BY <3>1, <3>2, <3>4
      <3>5. CASE Poll.then # "content" /\ ~r.asset
        <4>1. Over(Poll.bare)
          BY <3>1, <3>5
        <4> QED BY <3>2, <3>5, <4>1 DEF Live
      <3> QED BY <3>3, <3>4, <3>5
    <2> QED BY <1>7, <2>1, <2>2, <2>3, <2>4
  <1>9. \/ pc' = "row" /\ result' = "none" /\ r.code # "4xx"
        \/ pc' = "over" /\ result' = "reaped"
        \/ pc' = "over" /\ result' = "dropped"
           /\ (r.word = "cut" \/ job \notin Live \/ who \in Touchy)
        \/ pc' = "over" /\ result' \in {"gated", "delivered"} /\ job = "done"
        \/ pc' = "over" /\ result' = "hollow" /\ (job = "bare" \/ who = "minimax_video")
        \/ pc' = "over" /\ result' = "failed" /\ job \notin Live
    BY <1>1, <1>8 DEF Wait, Over, MoveTo
  <1>10. Placed'
    BY <1>1, <1>2, <1>3, <1>9 DEF Placed
  <1>11. Unspent'
    BY <1>9 DEF Unspent
  <1>12. RowsFollowJobs'
    BY <1>1, <1>2, <1>3, <1>4, <1>9 DEF RowsFollowJobs
  <1>13. DeliveredIsResult'
    BY <1>1, <1>2, <1>3, <1>9 DEF DeliveredIsResult
  <1> QED BY <1>2, <1>10, <1>11, <1>12, <1>13

LEMMA SameCallKeeps ==
  ASSUME AInv, UNCHANGED <<who, progress, job, history>>
  PROVE  AInv'
  <1>1. /\ who' = who /\ pc' = pc /\ result' = result /\ job' = job
        /\ last' = last /\ told' = told /\ missed' = missed
    BY DEF progress, history
  <1>2. (Known' <=> Known) /\ (IsVideo' <=> IsVideo) /\ Poll' = Poll
    BY <1>1, SameAdapter
  <1> QED
    BY <1>1, <1>2 DEF AInv, Placed, Unspent, RowsFollowJobs, DeliveredIsResult

LEMMA AdapterStepKeeps ==
  ASSUME AInv, [AdapterNext]_adapterVars
  PROVE  AInv'
  <1>1. CASE Age
    BY <1>1, SameCallKeeps DEF Age
  <1>2. CASE UNCHANGED adapterVars
    BY <1>2, SameCallKeeps DEF adapterVars
  <1> QED
    BY <1>1, <1>2, WorkKeeps, StartKeeps, UploadKeeps, PostKeeps, PollKeeps, FetchKeeps,
       GiveUpKeeps, AskKeeps, ThenKeeps DEF AdapterNext

----------------------------------------------------------------------------
(* Counters: a generation is bought at most once in an attempt *)

Unsent == {"start", "upload", "post"}

Counted ==
  /\ attempt \in 0 .. MaxRetries
  /\ polls \in 0 .. PollLimit - 1
  /\ bought \in Nat
  /\ bought <= attempt + 1
  /\ pc \in Unsent => bought <= attempt
  /\ last = Nil \/ last.code \in Codes
  /\ old \in BOOLEAN

\* A step that buys nothing begins a new attempt or goes on with this one.
GoesOn ==
  \/ Again
  \/ /\ attempt' = attempt
     /\ polls' = polls \/ (polls' = polls + 1 /\ polls + 1 # PollLimit)
     /\ pc \in Unsent \/ pc' \notin Unsent

LEMMA CountersStart == AdapterInit => Counted
  <1> SUFFICES ASSUME AdapterInit
               PROVE  Counted
    OBVIOUS
  <1>1. attempt = 0 /\ polls = 0 /\ bought = 0 /\ last = Nil /\ old = FALSE
    BY DEF AdapterInit
  <1>2. attempt \in 0 .. MaxRetries /\ polls \in 0 .. PollLimit - 1
    BY <1>1, AdaptersAssumption
  <1>3. bought \in Nat /\ bought <= attempt + 1 /\ bought <= attempt
    BY <1>1
  <1>4. old \in BOOLEAN
    BY <1>1
  <1> QED BY <1>1, <1>2, <1>3, <1>4, Zenon DEF Counted

LEMMA GoingOnCounts ==
  ASSUME Counted, GoesOn, bought' = bought,
         last' = last \/ last'.code \in Codes, old' \in BOOLEAN
  PROVE  Counted'
  <1>1. CASE Again
    BY <1>1, AdaptersAssumption DEF Counted, Again, Unsent
  <1>2. CASE ~Again
    BY <1>2, AdaptersAssumption DEF Counted, GoesOn, Unsent
  <1> QED BY <1>1, <1>2

LEMMA FileReplyCode ==
  ASSUME NEW r \in FileReplies
  PROVE  r.code \in Codes
  <1>1. CASE r \in Unavailable
    BY <1>1, UnavailableIs DEF Mundane
  <1>2. CASE r \in Denial
    BY <1>2, DenialIs DEF Mundane
  <1>3. CASE r \in {Reply("2xx", "image", TRUE), Reply("2xx", "cut", FALSE)}
    BY <1>3 DEF Reply, Codes
  <1> QED BY <1>1, <1>2, <1>3 DEF FileReplies

LEMMA JobReplyCode ==
  ASSUME Known, NEW r \in JobReplies
  PROVE  r.code \in Codes
  BY AdaptersFit, JobReplyIs DEF Heard, Mundane

LEMMA PostCounts ==
  ASSUME AInv, Counted, Post
  PROVE  Counted'
  <1>1. PICK r \in PostReplies : \E begun \in Begun(r) :
          /\ pc = "post"
          /\ last' = r
          /\ bought' = bought + (IF begun THEN 1 ELSE 0)
          /\ CASE Submitted(Generate.read, r) = "again" -> Again /\ UNCHANGED job
               [] Submitted(Generate.read, r) = "fatal" -> Over("error") /\ UNCHANGED job
               [] Submitted(Generate.read, r) = "read"  ->
                    /\ job' = CASE r.asset -> "done" [] r.word = "job" -> "running"
                                [] OTHER -> "gone"
                    /\ CASE r.word = "inline" -> Over("delivered")
                         [] r.word = "url"    -> MoveTo("fetch")
                         [] OTHER             -> MoveTo(IF IsVideo THEN "row" ELSE "poll")
    BY Zenon DEF Post
  <1>2. /\ pc = "post" /\ bought' \in {bought, bought + 1} /\ last' = r
        /\ old' = old
    <2>1. old' = old
      BY DEF Post
    <2> QED BY <1>1, <2>1 DEF Counted
  <1>3. r.code \in Codes
    BY PostReplyIs DEF Mundane
  <1>4. Submitted(Generate.read, r) \in {"again", "fatal", "read"}
    BY SubmittedIs, AdaptersFit DEF AInv
  <1>5. \/ Again
        \/ attempt' = attempt /\ polls' = polls /\ pc' \notin Unsent
    <2>1. CASE Submitted(Generate.read, r) = "again"
      BY <1>1, <2>1
    <2>2. CASE Submitted(Generate.read, r) = "fatal"
      BY <1>1, <2>2 DEF Over, Unsent
    <2>3. CASE Submitted(Generate.read, r) = "read"
      <3>1. (CASE r.word = "inline" -> Over("delivered")
               [] r.word = "url"    -> MoveTo("fetch")
               [] OTHER             -> MoveTo(IF IsVideo THEN "row" ELSE "poll"))
        BY <1>1, <2>3
      <3> QED BY <3>1 DEF Over, MoveTo, Unsent
    <2> QED BY <1>4, <2>1, <2>2, <2>3
  <1>6. bought' \in Nat /\ bought' <= attempt + 1
    BY <1>2, AdaptersAssumption DEF Counted, Unsent
  <1>7. CASE Again
    BY <1>2, <1>3, <1>6, <1>7, AdaptersAssumption DEF Counted, Again, Unsent
  <1>8. CASE ~Again
    BY <1>2, <1>3, <1>5, <1>6, <1>8 DEF Counted
  <1> QED BY <1>7, <1>8

LEMMA OthersCount ==
  ASSUME AInv, Counted, [AdapterNext]_adapterVars, ~Post
  PROVE  Counted'
  <1> USE DEF AInv
  <1>1. CASE Work \/ Age \/ UNCHANGED adapterVars
    BY <1>1 DEF Work, Age, adapterVars, progress, history, Counted
  <1>2. CASE StartCall
    <2>1. GoesOn
      BY <1>2 DEF StartCall, Over, MoveTo, GoesOn, Unsent
    <2> QED BY <1>2, <2>1, GoingOnCounts DEF StartCall, history, Counted
  <1>3. CASE Upload
    <2>1. PICK r \in FileReplies :
            /\ last' = r
            /\ CASE Uploaded(r) = "again" -> Again
                 [] Uploaded(r) = "fatal" -> Over("error")
                 [] Uploaded(r) = "read"  -> MoveTo("upload") \/ MoveTo("post")
      BY <1>3 DEF Upload
    <2>2. Uploaded(r) \in {"again", "fatal", "read"}
      BY DEF Uploaded
    <2>3. Again \/ Over("error") \/ MoveTo("upload") \/ MoveTo("post")
      BY <2>1, <2>2
    <2>4. GoesOn
      BY <1>3, <2>3 DEF Upload, Over, MoveTo, GoesOn, Unsent
    <2>5. bought' = bought /\ old' = old
      BY <1>3 DEF Upload
    <2> QED BY <2>1, <2>4, <2>5, FileReplyCode, GoingOnCounts DEF Counted
  <1>4. CASE PollImage
    <2> DEFINE reading(r) == Polled(Poll.read, r)
               word(r)    == IF reading(r) = "read" THEN r.word ELSE "none"
    <2>1. PICK r \in JobReplies :
            /\ last' = r
            /\ CASE reading(r) = "again"                             -> Again
                 [] reading(r) = "fatal" \/ word(r) \in Poll.failed  -> Over("error")
                 [] word(r) \in Poll.done                            ->
                      IF r.asset THEN MoveTo("fetch") ELSE Over("error")
                 [] OTHER                                            ->
                      IF polls + 1 = PollLimit THEN Again
                      ELSE polls' = polls + 1 /\ UNCHANGED <<pc, attempt, result>>
      BY <1>4, Zenon DEF PollImage
    <2> HIDE DEF reading, word
    <2>2. \/ Again \/ Over("error") \/ MoveTo("fetch")
          \/ polls + 1 # PollLimit /\ polls' = polls + 1 /\ UNCHANGED <<pc, attempt>>
      BY <2>1
    <2>3. GoesOn
      BY <2>2 DEF Over, MoveTo, GoesOn, Unsent
    <2>4. bought' = bought /\ old' = old
      BY <1>4 DEF PollImage
    <2> QED BY <2>1, <2>3, <2>4, JobReplyCode, GoingOnCounts DEF Counted
  <1>5. CASE FetchImage
    <2>1. PICK r \in FileReplies :
            /\ last' = r
            /\ CASE Fetched(Fetch, r) = "again" -> Again
                 [] Fetched(Fetch, r) = "fatal" -> Over("error")
                 [] Fetched(Fetch, r) = "read"  -> Over("delivered")
      BY <1>5, Zenon DEF FetchImage
    <2>2. ~IsVideo /\ Fits
      BY <1>5, AdaptersFit DEF FetchImage, Placed
    <2>3. Again \/ Over("error") \/ Over("delivered")
      BY <2>1, <2>2, FetchedIs
    <2>4. GoesOn
      BY <2>3 DEF Over, GoesOn, Unsent
    <2>5. bought' = bought /\ old' = old
      BY <1>5 DEF FetchImage
    <2> QED BY <2>1, <2>4, <2>5, FileReplyCode, GoingOnCounts DEF Counted
  <1>6. CASE GiveUp
    BY <1>6, GoingOnCounts DEF GiveUp, GoesOn, Counted
  <1>7. CASE Ask
    <2>1. PICK r \in JobReplies :
            /\ last' = r
            /\ CASE Polled(Poll.read, r) = "again" -> Wait
                 [] Polled(Poll.read, r) = "fatal" -> Over("dropped")
                 [] Polled(Poll.read, r) = "read"  ->
                      CASE Judged(r) = "open" -> Wait
                        [] Judged(r) = "then" -> MoveTo("then")
                        [] OTHER              -> Over(Judged(r))
      BY <1>7, Zenon DEF Ask
    <2>2. Polled(Poll.read, r) \in {"again", "fatal", "read"}
      BY AdaptersFit, JobReplyIs, PolledIs
    <2>3. Wait \/ Over("dropped") \/ MoveTo("then") \/ Over(Judged(r))
      BY <2>1, <2>2
    <2>4. GoesOn
      BY <2>3 DEF Wait, Over, MoveTo, GoesOn, Unsent
    <2>5. bought' = bought /\ old' = old
      BY <1>7 DEF Ask
    <2> QED BY <2>1, <2>4, <2>5, JobReplyCode, GoingOnCounts DEF Counted
  <1>8. CASE Then
    <2> DEFINE reading(r) == IF Poll.then = "content" THEN ReadContent(r) ELSE ReadPollJson(r)
               how(r) == CASE Poll.then = "content" -> "gated"
                           [] r.asset               -> "delivered"
                           [] OTHER                 -> Poll.bare
               file(r) == IF r.asset THEN "delivered" ELSE "hollow"
    <2>1. PICK r \in JobReplies :
            /\ last' = r
            /\ CASE Poll.then = "file" -> Over(file(r))
                 [] Poll.then # "file" /\ reading(r) = "again" -> Wait
                 [] Poll.then # "file" /\ reading(r) = "fatal" -> Over("dropped")
                 [] Poll.then # "file" /\ reading(r) = "read"  -> Over(how(r))
      BY <1>8, Zenon DEF Then
    <2>2. reading(r) \in {"again", "fatal", "read"}
      BY DEF ReadContent, ReadPollJson
    <2> HIDE DEF reading, how, file
    <2>3. Over(file(r)) \/ Wait \/ Over("dropped") \/ Over(how(r))
      BY <2>1, <2>2
    <2>4. GoesOn
      BY <2>3 DEF Wait, Over, MoveTo, GoesOn, Unsent
    <2>5. bought' = bought /\ old' = old
      BY <1>8 DEF Then
    <2> QED BY <2>1, <2>4, <2>5, JobReplyCode, GoingOnCounts DEF Counted
  <1> QED
    BY <1>1, <1>2, <1>3, <1>4, <1>5, <1>6, <1>7, <1>8 DEF AdapterNext

LEMMA AdapterInvariant == AdapterSpec => [](AInv /\ Counted)
  <1>1. AdapterInit => AInv /\ Counted
    BY AdapterStarts, CountersStart
  <1>2. AInv /\ Counted /\ [AdapterNext]_adapterVars => AInv' /\ Counted'
    BY AdapterStepKeeps, PostCounts, OthersCount
  <1> QED BY <1>1, <1>2, PTL DEF AdapterSpec

----------------------------------------------------------------------------
(* The theorems *)

\* Types, and with them the count of generations the router's retries can buy: one more
\* than there are retries.
THEOREM AdapterTypeCorrect == AdapterSpec => []TypeOK
  <1>1. AInv /\ Counted => TypeOK
    BY AdaptersAssumption DEF AInv, Known, Placed, Counted, TypeOK, Live
  <1> QED BY <1>1, AdapterInvariant, PTL

\* poll_once and the adapters' poll_status: the row of a video is failed before its time
\* only if its job has ended without a video, the answer could not be read or the adapter
\* takes errors for ends; it is left open after an end only by adapters that do not listen.
THEOREM VideoRowsFollowJobs == AdapterSpec => []RowsFollowJobs
  <1>1. AInv => RowsFollowJobs
    BY DEF AInv
  <1> QED BY <1>1, AdapterInvariant, PTL

\* What generate, fetch_image_bytes and poll_status report as a result is what the
\* provider made.
THEOREM DeliveriesAreResults == AdapterSpec => []DeliveredIsResult
  <1>1. AInv => DeliveredIsResult
    BY DEF AInv
  <1> QED BY <1>1, AdapterInvariant, PTL

\* The router's retries never buy again what a provider has said the end of, unless the
\* finished image was missed; BFL's adapter is the exception.
THEOREM GenerationsPaidOnce == AdapterSpec => PaidOnce
  <1>1. AInv /\ Counted /\ [AdapterNext]_adapterVars =>
          [bought' > bought /\ told => missed \/ who = "bfl_image"]_adapterVars
    <2> SUFFICES ASSUME AInv, Counted, AdapterNext, bought' > bought, told
                 PROVE  missed \/ who = "bfl_image"
      OBVIOUS
    <2>1. pc = "post"
      <3>1. bought' # bought
        BY DEF Counted
      <3> QED
        BY <3>1 DEF AdapterNext, Work, StartCall, Upload, Post, PollImage, FetchImage, GiveUp,
           Ask, Then, Age, history
    <2> QED BY <2>1 DEF AInv, Unspent
  <1> QED BY <1>1, AdapterInvariant, PTL DEF AdapterSpec, PaidOnce
=============================================================================
