---------------------------- MODULE LimitsAdmin ----------------------------
(***************************************************************************)
(* The other writers of entity_limits, running beside generation requests. *)
(* The management API's limits endpoints (api/handlers/management/         *)
(* limits.rs): PUT and reset read the row, compute a whole new one and     *)
(* write it back in a second statement; GET rolls a lapsed window like a   *)
(* request does; DELETE is one statement.  And begin itself, which gives   *)
(* an end user without a row the gateway's default budget, again in two    *)
(* statements (management/runtime.rs).                                     *)
(***************************************************************************)
EXTENDS Limits

CONSTANTS
  Admins,    \* management calls, each served at most once
  Inputs,    \* the bodies PUT may be called with
  EndUsers,  \* the principals that are end users
  DefaultMax, DefaultDur  \* the gateway's default end-user budget and window

Input == [max : Optional(Nat), soft : Optional(Nat), dur : Optional(Nat \ {0}),
          allowed : SUBSET Models, rpm : BOOLEAN, parallel : Optional(1 .. MaxParallel)]

ASSUME AdminAssumption ==
  /\ Inputs \subseteq Input
  /\ EndUsers \subseteq Principals
  /\ DefaultMax \in Optional(Nat)
  /\ DefaultDur \in Optional(Nat \ {0})

\* The rows at the start were written by PUT or as a default: with a window, an end.
ASSUME RowsAssumption ==
  \A p \in Principals :
    Rows0[p] # NoRow => (Rows0[p].dur = Nil <=> Rows0[p].resetAt = Nil)

VARIABLES
  edit,   \* each management call: its step, principal, the row it read, its draft
  sight   \* each request: the end user it is about to give the default, or Nil,
          \* and the row it computed; Looked once that is behind it

adminVars == <<vars, edit, sight>>

Unseen == [who |-> Nil, draft |-> NoRow]
Looked == [who |-> Nil, draft |-> Nil]

Blank == [step |-> "idle", who |-> Nil, seen |-> NoRow, draft |-> NoRow]

AdminTypeOK ==
  /\ TypeOK
  /\ edit \in [Admins -> [step  : {"idle", "write", "roll", "done"},
                          who   : Optional(Principals),
                          seen  : Row \cup {NoRow},
                          draft : Row \cup {NoRow}]]
  /\ sight \in [Requests -> {Unseen, Looked} \cup [who : EndUsers, draft : Row]]

AdminInit ==
  /\ Init
  /\ edit = [a \in Admins |-> Blank]
  /\ sight = [r \in Requests |-> Unseen]

\* Everything of the requests that a management call leaves alone.
requestVars == <<pc, request, frame, slots, bill, history>>

----------------------------------------------------------------------------
\* validate_input's check across fields; the per-field ones are the type Input.
ValidInput(input) ==
  input.soft # Nil /\ input.max # Nil => input.soft <= input.max

\* initial_reset_at: a window that starts at time t.
InitialReset(dur, t) == IF dur = Nil THEN Nil ELSE t + dur

\* A faulty merged_limits: a changed duration keeps the old window end.
MergedKeepsWindow(old, input, t) ==
  LET new   == old = NoRow
      spend == IF new THEN 0 ELSE old.spend
  IN  [max     |-> input.max,     soft  |-> input.soft,
       dur     |-> input.dur,     spend |-> spend,
       allowed |-> input.allowed, rpm   |-> input.rpm,
       parallel |-> input.parallel,
       resetAt |-> IF new THEN InitialReset(input.dur, t) ELSE old.resetAt,
       alerted |-> ~new /\ old.alerted /\ input.soft # Nil /\ spend >= input.soft]

\* merged_limits: spend survives, a changed duration starts a window at t, and
\* a soft budget above the spend re-arms the alert.
Merged(old, input, t) ==
  LET new   == old = NoRow
      spend == IF new THEN 0 ELSE old.spend
  IN  [max     |-> input.max,     soft  |-> input.soft,
       dur     |-> input.dur,     spend |-> spend,
       allowed |-> input.allowed, rpm   |-> input.rpm,
       parallel |-> input.parallel,
       resetAt |-> IF new \/ old.dur # input.dur THEN InitialReset(input.dur, t)
                                                 ELSE old.resetAt,
       alerted |-> ~new /\ old.alerted /\ input.soft # Nil /\ spend >= input.soft]

\* do_reset: zero spend and a fresh window from t.
Cleared(old, t) ==
  [old EXCEPT !.spend = 0, !.alerted = FALSE, !.resetAt = InitialReset(old.dur, t)]

Draft(a, step, p, row) ==
  edit' = [edit EXCEPT ![a] =
             [step |-> step, who |-> p, seen |-> limits[p], draft |-> row]]

Close(a) == edit' = [edit EXCEPT ![a] = [Blank EXCEPT !.step = "done"]]

\* do_put reads the row and merges the input into it.
PutRead(a, p, input) ==
  /\ edit[a].step = "idle"
  /\ ValidInput(input)
  /\ Draft(a, "write", p, Merged(limits[p], input, now))
  /\ UNCHANGED vars

\* do_reset reads the row; without one it answers 404.
ResetRead(a, p) ==
  /\ edit[a].step = "idle"
  /\ limits[p] # NoRow
  /\ Draft(a, "write", p, Cleared(limits[p], now))
  /\ UNCHANGED vars

\* upsert_limits: every column as given, spend and window end included.
Write(a) ==
  /\ edit[a].step = "write"
  /\ limits' = [limits EXCEPT ![edit[a].who] = edit[a].draft]
  /\ Close(a)
  /\ UNCHANGED <<now, inflight, requestVars>>

\* do_get: load_current finds a lapsed window ...
GetLapsed(a, p) ==
  /\ edit[a].step = "idle"
  /\ limits[p] # NoRow
  /\ Lapsed(limits[p], now)
  /\ Draft(a, "roll", p, Rolled(limits[p], NextReset(limits[p], now)))
  /\ UNCHANGED vars

\* A faulty roll for GET: the window end is not compared.
CanGetRollAnyway(a) == limits[edit[a].who] # NoRow

CanGetRoll(a) ==
  /\ limits[edit[a].who] # NoRow
  /\ limits[edit[a].who].resetAt = edit[a].seen.resetAt

\* ... and rolls it, unless somebody else moved the window first.
GetRoll(a) ==
  LET p == edit[a].who IN
  /\ edit[a].step = "roll"
  /\ IF CanGetRoll(a)
     THEN /\ limits' = [limits EXCEPT ![p] = Rolled(@, edit[a].draft.resetAt)]
          /\ raised' = [raised EXCEPT ![p] = 0]
     ELSE UNCHANGED <<limits, raised>>
  /\ Close(a)
  /\ UNCHANGED <<now, inflight, pc, request, frame, slots, bill, taken, paid, stranded>>

\* do_delete.
Delete(a, p) ==
  /\ edit[a].step = "idle"
  /\ limits[p] # NoRow
  /\ limits' = [limits EXCEPT ![p] = NoRow]
  /\ Close(a)
  /\ UNCHANGED <<now, inflight, requestVars>>

\* A management call is dropped or its statement fails: nothing is written.
AdminFails(a) ==
  /\ edit[a].step \in {"write", "roll"}
  /\ Close(a)
  /\ UNCHANGED vars

----------------------------------------------------------------------------
(* ensure_default_end_user_limits *)

\* The row of a first-seen end user, with a window from t.
DefaultRow(t) ==
  [max |-> DefaultMax, soft |-> Nil, dur |-> DefaultDur, spend |-> 0,
   resetAt |-> InitialReset(DefaultDur, t), alerted |-> FALSE, allowed |-> Models,
   rpm |-> FALSE, parallel |-> Nil]

EndUserOf(r) == EndUsers \cap {route[r][i] : i \in DOMAIN route[r]}

\* begin looks for the end user's row, if there is a default to give it.
Sight(r) ==
  /\ pc[r] = "idle"
  /\ sight[r] = Unseen
  /\ sight' = [sight EXCEPT ![r] =
       IF DefaultMax # Nil /\ \E p \in EndUserOf(r) : limits[p] = NoRow
       THEN [who |-> CHOOSE p \in EndUserOf(r) : limits[p] = NoRow, draft |-> DefaultRow(now)]
       ELSE Looked]
  /\ UNCHANGED <<vars, edit>>

\* It found none: upsert_limits, whatever the table holds by now.
Seed(r) ==
  /\ pc[r] = "idle"
  /\ sight[r].who # Nil
  /\ limits' = [limits EXCEPT ![sight[r].who] = sight[r].draft]
  /\ sight' = [sight EXCEPT ![r] = Looked]
  /\ UNCHANGED <<now, inflight, requestVars, edit>>

\* A handler reads the rows once the end user is taken care of.
SightedHandler(r) ==
  /\ pc[r] = "idle" => TurnedAway(r) \/ sight[r] = Looked
  /\ Handler(r)

----------------------------------------------------------------------------
Put(a) == Write(a) \/ \E p \in Principals, input \in Inputs : PutRead(a, p, input)

Admin(a) ==
  \/ Put(a)
  \/ GetRoll(a)
  \/ AdminFails(a)
  \/ \E p \in Principals : ResetRead(a, p) \/ GetLapsed(a, p) \/ Delete(a, p)

\* A restart ends the management calls as well.
AdminCrash ==
  /\ Crash
  /\ edit' = [a \in Admins |-> IF edit[a].step = "idle" THEN edit[a]
                               ELSE [Blank EXCEPT !.step = "done"]]
  /\ sight' = [r \in Requests |-> IF pc[r] = "idle" THEN Unseen ELSE sight[r]]

AdminNext ==
  \/ \E r \in Requests : Sight(r) \/ Seed(r)
  \/ (\E r \in Requests : SightedHandler(r) \/ Fault(r)) /\ UNCHANGED <<edit, sight>>
  \/ Tick /\ UNCHANGED <<edit, sight>>
  \/ AdminCrash
  \/ \E a \in Admins : Admin(a) /\ UNCHANGED sight

AdminSpec == AdminInit /\ [][AdminNext]_adminVars

\* Requests and PUT calls only, with no fault.
PutSpec ==
  AdminInit /\ [][ \/ \E r \in Requests : Sight(r) \/ Seed(r)
                   \/ (\E r \in Requests : SightedHandler(r)) /\ UNCHANGED <<edit, sight>>
                   \/ \E a \in Admins : Put(a) /\ UNCHANGED sight ]_adminVars

----------------------------------------------------------------------------
(* Properties *)

\* A row has a window end exactly when it has a window length: whatever
\* interleaving of rolls with PUT, reset, DELETE and the default, a roll never gives a
\* lifetime budget a window end and an edit never leaves a windowed budget
\* without one (it would never reset again).
WindowConsistent ==
  \A p \in Principals :
    limits[p] # NoRow => (limits[p].dur = Nil <=> limits[p].resetAt = Nil)

\* The in-flight map stays exact, and below every cap ever configured, while
\* limits are edited, deleted and created under requests that hold slots.
SlotsExactUnderEdits ==
  SlotsExact /\ \A p \in Principals : inflight[p] <= MaxParallel

\* A window that lapsed by time t is followed by one that ends a whole number of lengths
\* later and contains t: "no matter when the next request lands" (management/budget.rs).
EndsFirst(row, end, t) ==
  /\ t < end /\ end <= t + row.dur
  /\ \E k \in 1 .. end : end = row.resetAt + row.dur * k

\* Requests and GET restart a window only once it is over, even when it was
\* edited since they read it; and what they restart it with ends first after the clock
\* they read, also at the very end of a window and when several have lapsed unused.
RollOnlyLapsedUnderEdits ==
  [][/\ \A r \in Requests :
          /\ RollWins(r) => Lapsed(limits[Loading(r)], now)
          /\ LoadLapsed(r) => EndsFirst(limits[Loading(r)], target'[r], now)
     /\ \A a \in Admins :
          /\ GetRoll(a) /\ limits' # limits => Lapsed(limits[edit[a].who], now)
          /\ \A p \in Principals :
               GetLapsed(a, p) => EndsFirst(limits[p], edit'[a].draft.resetAt, now)]_adminVars

\* "Spend survives an edit" (merged_limits, api/handlers/management/limits.rs):
\* a lifetime budget stays an exact ledger when its configuration is replaced.
SpendSurvivesEdit == SpendExact

============================================================================
