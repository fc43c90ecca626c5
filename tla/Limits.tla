------------------------------- MODULE Limits -------------------------------
(***************************************************************************)
(* Limit enforcement around one generation (management/enforce.rs and the  *)
(* image and video handlers that call it).                                 *)
(*                                                                         *)
(* A request loads the limits row of every principal it is billed to       *)
(* (key, org, member, end user, app), rolling lapsed budget windows on the *)
(* way, takes an in-memory parallel slot and a rate-limiter token on each  *)
(* row, reserves the estimated cost on each row, dispatches, and settles   *)
(* every reservation to the actual cost.  Every SQL statement is one step, *)
(* and so is every critical section of the in-flight map: between two of   *)
(* them any other request may run, the clock may move, the client may      *)
(* disconnect (which drops the handler's future) and the process may die.  *)
(*                                                                         *)
(* Money is counted in whole units and time in whole ticks.  The           *)
(* soft-alert timestamp of a row is abstracted to whether it is set.       *)
(***************************************************************************)
EXTENDS Integers, Sequences, FiniteSets, FiniteSetsExt

CONSTANTS
  Principals,   \* (entity_type, entity_id) pairs that may own a limits row
  Requests,     \* generation requests, each served at most once
  Models,       \* model ids
  Routes,       \* the principals a request is billed to, in enforcement order
  Estimate,     \* pricing.base_cost_usd of a model: what is reserved
  Actuals,      \* the costs a successful generation of a model may report
  Rows0,        \* the limits rows at the start, NoRow where there is none
  MaxParallel,  \* a bound on every configured max_parallel_requests
  MaxNow,       \* bound on the clock
  NoRow,        \* absence of a limits row
  Nil           \* absence of an optional field

Optional(S) == S \cup {Nil}

Row == [max      : Optional(Nat),      soft     : Optional(Nat),
        dur      : Optional(Nat \ {0}), spend    : Int,
        resetAt  : Optional(Nat),      alerted  : BOOLEAN,
        allowed  : SUBSET Models,      rpm      : BOOLEAN,
        parallel : Optional(1 .. MaxParallel)]

ASSUME LimitsAssumption ==
  /\ IsFiniteSet(Requests)
  /\ Nil \notin Nat
  /\ NoRow \notin Row
  /\ MaxParallel \in Nat
  /\ MaxNow \in Nat
  /\ Routes \subseteq Seq(Principals)
  /\ Estimate \in [Models -> Nat]
  /\ Actuals \in [Models -> SUBSET Nat]
  /\ Rows0 \in [Principals -> Row \cup {NoRow}]

\* A request is billed to one principal per entity type.
ASSUME RoutesAssumption ==
  \A principals \in Routes : \A i, j \in 1 .. Len(principals) :
    principals[i] = principals[j] => i = j

VARIABLES
  now,       \* the clock
  limits,    \* table entity_limits
  inflight,  \* the process-wide IN_FLIGHT map
  pc,        \* where each request's handler is
  route,     \* the principals of a request
  model,     \* the model it asks for
  snap,      \* the rows `begin` loaded, as it read them
  target,    \* the window end computed for the row being rolled
  at,        \* the position in the handler's current loop
  top,       \* how many rows of snap are in guard.charged
  slots,     \* the parallel slots the guard holds
  bill,      \* the actual cost settle was called with
  taken,     \* history: the principals whose row the request was reserved on
  paid,      \* history: those whose reservation was settled
  stranded,  \* history: those whose reservation nobody will ever settle
  raised     \* history: alerts raised in a principal's current window

shared  == <<limits, inflight>>
request == <<route, model>>
frame   == <<snap, target, at, top>>
history == <<taken, paid, stranded, raised>>
vars    == <<now, shared, pc, request, frame, slots, bill, history>>

Steps == {"idle", "load", "roll", "reload", "check", "admit", "reserve",
          "dispatch", "settle", "mark", "drop", "done"}

Loaded == [who : Principals, row : Row]

TypeOK ==
  /\ now \in 0 .. MaxNow
  /\ limits \in [Principals -> Row \cup {NoRow}]
  /\ inflight \in [Principals -> Nat]
  /\ pc \in [Requests -> Steps]
  /\ route \in [Requests -> Seq(Principals)]
  /\ model \in [Requests -> Models]
  /\ snap \in [Requests -> Seq(Loaded)]
  /\ target \in [Requests -> Nat]
  /\ at \in [Requests -> Nat]
  /\ top \in [Requests -> Nat]
  /\ slots \in [Requests -> SUBSET Principals]
  /\ bill \in [Requests -> Nat]
  /\ taken \in [Requests -> SUBSET Principals]
  /\ paid \in [Requests -> SUBSET Principals]
  /\ stranded \in [Requests -> SUBSET Principals]
  /\ raised \in [Principals -> Nat]

Init ==
  /\ now = 0
  /\ limits = Rows0
  /\ inflight = [p \in Principals |-> 0]
  /\ pc = [r \in Requests |-> "idle"]
  /\ route \in [Requests -> Routes]
  /\ model \in [Requests -> Models]
  /\ snap = [r \in Requests |-> <<>>]
  /\ target = [r \in Requests |-> 0]
  /\ at = [r \in Requests |-> 1]
  /\ top = [r \in Requests |-> 0]
  /\ slots = [r \in Requests |-> {}]
  /\ bill = [r \in Requests |-> 0]
  /\ taken = [r \in Requests |-> {}]
  /\ paid = [r \in Requests |-> {}]
  /\ stranded = [r \in Requests |-> {}]
  /\ raised = [p \in Principals |-> 0]

----------------------------------------------------------------------------
(* Budget windows (management/budget.rs) *)

\* lapsed_window_next_reset: the window of a row is over at time t.
Lapsed(row, t) == row.dur # Nil /\ row.resetAt # Nil /\ row.resetAt <= t

\* next_after for a fixed-length window: the first end after t, in whole steps.
NextReset(row, t) ==
  row.resetAt + row.dur * ((t - row.resetAt) \div row.dur + 1)

\* roll_limits_window: zero spend, clear the alert, move the window end.
Rolled(row, next) == [row EXCEPT !.spend = 0, !.alerted = FALSE, !.resetAt = next]

\* reserve_limits_spend and charge_limits_spend add to the spend.
Charged(row, amount) == [row EXCEPT !.spend = @ + amount]

\* mark_soft_budget_alerted sets the timestamp.
Marked(row) == [row EXCEPT !.alerted = TRUE]

----------------------------------------------------------------------------
(* Control of one handler *)

Goto(r, step) == pc' = [pc EXCEPT ![r] = step]

\* Enter a loop at its first element.
Enter(r, step) == Goto(r, step) /\ at' = [at EXCEPT ![r] = 1]

\* One round of the loop `loop` over len elements is over: the next round, or
\* the step after the loop.
Advance(r, loop, len, step) ==
  IF at[r] < len THEN Goto(r, loop) /\ at' = [at EXCEPT ![r] = @ + 1]
                 ELSE Enter(r, step)

\* The principal a loading request is at, and the row a later loop is at.
Loading(r) == route[r][at[r]]
Entry(r)   == snap[r][at[r]]

\* The row a request is rolling, as it was read.
Stale(r) == snap[r][Len(snap[r])].row

\* The loaded rows with the last one replaced.
Reread(loaded, row) == [loaded EXCEPT ![Len(loaded)].row = row]

\* begin: the amount reserved on every row.
Reserved(r) == Estimate[model[r]]

\* The handler returns: its locals are gone and the guard is dropped, which
\* frees its slots one by one (Free).
Return(r) ==
  /\ Goto(r, IF slots'[r] = {} THEN "done" ELSE "drop")
  /\ snap' = [snap EXCEPT ![r] = <<>>]
  /\ target' = [target EXCEPT ![r] = 0]
  /\ at' = [at EXCEPT ![r] = 1]
  /\ top' = [top EXCEPT ![r] = 0]

----------------------------------------------------------------------------
(* begin: loading the rows (load_current) *)

\* A request of a key, or of an end user the gateway has no default budget for
\* (LimitsAdmin adds that default).  touch_end_user only dates the end user.
Start(r) ==
  /\ pc[r] = "idle"
  /\ Enter(r, IF route[r] = <<>> THEN "check" ELSE "load")
  /\ UNCHANGED <<now, shared, request, snap, target, top, slots, bill, history>>

\* The organization's or application's model pool, or a blocked end user, turns
\* the request away before anything is read or held.
TurnedAway(r) ==
  /\ pc[r] = "idle"
  /\ UNCHANGED slots
  /\ Return(r)
  /\ UNCHANGED <<now, shared, request, bill, history>>

\* get_limits finds no row: the principal is not limited.
LoadNothing(r) ==
  /\ pc[r] = "load"
  /\ limits[Loading(r)] = NoRow
  /\ Advance(r, "load", Len(route[r]), "check")
  /\ UNCHANGED <<now, shared, request, snap, target, top, slots, bill, history>>

Keep(r) ==
  snap' = [snap EXCEPT ![r] =
             Append(@, [who |-> Loading(r), row |-> limits[Loading(r)]])]

\* get_limits finds a row whose window is still open.
LoadOpen(r) ==
  /\ pc[r] = "load"
  /\ limits[Loading(r)] # NoRow
  /\ ~Lapsed(limits[Loading(r)], now)
  /\ Keep(r)
  /\ Advance(r, "load", Len(route[r]), "check")
  /\ UNCHANGED <<now, shared, request, target, top, slots, bill, history>>

\* get_limits finds a lapsed window: the end of the next one is computed here,
\* from this reading of the clock.
LoadLapsed(r) ==
  /\ pc[r] = "load"
  /\ limits[Loading(r)] # NoRow
  /\ Lapsed(limits[Loading(r)], now)
  /\ Keep(r)
  /\ target' = [target EXCEPT ![r] = NextReset(limits[Loading(r)], now)]
  /\ Goto(r, "roll")
  /\ UNCHANGED <<now, shared, request, at, top, slots, bill, history>>

\* A failed statement is a 503; nothing is held yet.
LoadFails(r) ==
  /\ pc[r] \in {"load", "roll", "reload"}
  /\ UNCHANGED slots
  /\ Return(r)
  /\ UNCHANGED <<now, shared, request, bill, history>>

\* roll_limits_window: the update is conditional on the window end still being
\* the one that was read.
CanRoll(r) ==
  /\ limits[Loading(r)] # NoRow
  /\ limits[Loading(r)].resetAt = Stale(r).resetAt

RollWins(r) ==
  /\ pc[r] = "roll"
  /\ CanRoll(r)
  /\ limits' = [limits EXCEPT ![Loading(r)] = Rolled(@, target[r])]
  /\ snap' = [snap EXCEPT ![r] = Reread(@, Rolled(Stale(r), target[r]))]
  /\ target' = [target EXCEPT ![r] = 0]
  /\ raised' = [raised EXCEPT ![Loading(r)] = 0]
  /\ Advance(r, "load", Len(route[r]), "check")
  /\ UNCHANGED <<now, inflight, request, top, slots, bill, taken, paid, stranded>>

\* A faulty load_current: the loser tries the same update again.
RollRetried(r) ==
  /\ pc[r] = "roll"
  /\ ~CanRoll(r)
  /\ UNCHANGED vars

\* Another request rolled it first.
RollLoses(r) ==
  /\ pc[r] = "roll"
  /\ ~CanRoll(r)
  /\ target' = [target EXCEPT ![r] = 0]
  /\ Goto(r, "reload")
  /\ UNCHANGED <<now, shared, request, snap, at, top, slots, bill, history>>

\* The row is read again; if it is gone the stale copy is used.
Reload(r) ==
  /\ pc[r] = "reload"
  /\ snap' = [snap EXCEPT ![r] = IF limits[Loading(r)] = NoRow THEN @
                                 ELSE Reread(@, limits[Loading(r)])]
  /\ Advance(r, "load", Len(route[r]), "check")
  /\ UNCHANGED <<now, shared, request, target, top, slots, bill, history>>

----------------------------------------------------------------------------
(* begin: model allowlists, parallel slots, rate limits, reservations *)

Allowed(r) == \A j \in DOMAIN snap[r] : model[r] \in snap[r][j].row.allowed

Check(r) ==
  /\ pc[r] = "check"
  /\ Allowed(r)
  /\ Enter(r, IF snap[r] = <<>> THEN "dispatch" ELSE "admit")
  /\ UNCHANGED <<now, shared, request, snap, target, top, slots, bill, history>>

\* 403 model_not_allowed.
ModelRefused(r) ==
  /\ pc[r] = "check"
  /\ ~Allowed(r)
  /\ UNCHANGED slots
  /\ Return(r)
  /\ UNCHANGED <<now, shared, request, bill, history>>

\* A faulty try_acquire: one slot too many.
HasRoomPlusOne(r) ==
  Entry(r).row.parallel # Nil => inflight[Entry(r).who] <= Entry(r).row.parallel

\* ParallelSlot::try_acquire finds room (or the row caps nothing).
HasRoom(r) ==
  Entry(r).row.parallel # Nil => inflight[Entry(r).who] < Entry(r).row.parallel

TakeSlot(r) ==
  IF Entry(r).row.parallel = Nil
  THEN UNCHANGED <<inflight, slots>>
  ELSE /\ inflight' = [inflight EXCEPT ![Entry(r).who] = @ + 1]
       /\ slots' = [slots EXCEPT ![r] = @ \cup {Entry(r).who}]

Admit(r) ==
  /\ pc[r] = "admit"
  /\ HasRoom(r)
  /\ TakeSlot(r)
  /\ Advance(r, "admit", Len(snap[r]), "reserve")
  /\ UNCHANGED <<now, limits, request, snap, target, top, bill, history>>

\* 429 parallel_limit_exceeded.
SlotRefused(r) ==
  /\ pc[r] = "admit"
  /\ ~HasRoom(r)
  /\ UNCHANGED slots
  /\ Return(r)
  /\ UNCHANGED <<now, shared, request, bill, history>>

\* 429 rate_limit_exceeded, after the slot of the same row was taken.  Whether
\* a token is left is up to the rate limiter.
RateRefused(r) ==
  /\ pc[r] = "admit"
  /\ HasRoom(r)
  /\ Entry(r).row.rpm
  /\ TakeSlot(r)
  /\ Return(r)
  /\ UNCHANGED <<now, limits, request, bill, history>>

\* A faulty WHERE clause: compares the spend before the addition.
UnderCapBefore(row, amount) == row.max = Nil \/ row.spend <= row.max

\* reserve_limits_spend's WHERE clause.
UnderCap(row, amount) == row.max = Nil \/ row.spend + amount <= row.max

Reservable(r) ==
  /\ limits[Entry(r).who] # NoRow
  /\ UnderCap(limits[Entry(r).who], Reserved(r))

\* A free model reserves nothing and skips the statement.
Reserve(r) ==
  /\ pc[r] = "reserve"
  /\ IF Reserved(r) > 0
     THEN /\ Reservable(r)
          /\ limits' = [limits EXCEPT ![Entry(r).who] = Charged(@, Reserved(r))]
     ELSE UNCHANGED limits
  /\ top' = [top EXCEPT ![r] = at[r]]
  /\ taken' = [taken EXCEPT ![r] = @ \cup {Entry(r).who}]
  /\ Advance(r, "reserve", Len(snap[r]), "dispatch")
  /\ UNCHANGED <<now, inflight, request, snap, target, slots, bill,
                 paid, stranded, raised>>

\* LimitGuard::settle is called: settle every charged row, if any, to amount.
Settle(r, amount) ==
  /\ bill' = [bill EXCEPT ![r] = amount]
  /\ UNCHANGED slots
  /\ IF top[r] = 0 THEN Return(r)
                   ELSE Enter(r, "settle") /\ UNCHANGED <<snap, target, top>>

\* 402 budget_exceeded: what was reserved on earlier rows is settled to nothing.
ReserveRefused(r) ==
  /\ pc[r] = "reserve"
  /\ Reserved(r) > 0
  /\ ~Reservable(r)
  /\ Settle(r, 0)
  /\ UNCHANGED <<now, shared, request, history>>

\* 503: the statement failed, with the same refunds.
ReserveFails(r) ==
  /\ pc[r] = "reserve"
  /\ Reserved(r) > 0
  /\ Settle(r, 0)
  /\ UNCHANGED <<now, shared, request, history>>

----------------------------------------------------------------------------
(* The handler: dispatch, then settle *)

\* The router delivered, at one of the model's actual costs.
Deliver(r) ==
  /\ pc[r] = "dispatch"
  /\ \E cost \in Actuals[model[r]] : Settle(r, cost)
  /\ UNCHANGED <<now, shared, request, history>>

\* Every provider failed: the reservation is released.
DispatchFails(r) ==
  /\ pc[r] = "dispatch"
  /\ Settle(r, 0)
  /\ UNCHANGED <<now, shared, request, history>>

\* A faulty settle: charges the bill on top of the reservation.
DeltaUnreserved(r) == bill[r]

Delta(r) == bill[r] - Reserved(r)

\* The spend settle believes the row has after this request: what
\* charge_limits_spend returned, or, when there is nothing to adjust, the spend
\* begin read plus the reservation.
SpendSeen(r) == IF Delta(r) # 0 THEN limits[Entry(r).who].spend + Delta(r)
                                ELSE Entry(r).row.spend + Reserved(r)

\* settle raises the alert: threshold reached, and not alerted when begin read
\* the row.
Crosses(r) ==
  /\ Delta(r) # 0 => limits[Entry(r).who] # NoRow
  /\ bill[r] > 0
  /\ Entry(r).row.soft # Nil
  /\ SpendSeen(r) >= Entry(r).row.soft
  /\ ~Entry(r).row.alerted

\* A faulty loop: the last charged row is never settled.
NextChargedShort(r) ==
  IF at[r] + 1 < top[r]
  THEN /\ at' = [at EXCEPT ![r] = @ + 1]
       /\ Goto(r, "settle")
       /\ UNCHANGED <<snap, target, top>>
  ELSE Return(r)

\* The next charged row, or the end of the handler.
NextCharged(r) ==
  IF at[r] < top[r]
  THEN /\ at' = [at EXCEPT ![r] = @ + 1]
       /\ Goto(r, "settle")
       /\ UNCHANGED <<snap, target, top>>
  ELSE Return(r)

\* charge_limits_spend, unless there is nothing to adjust.
SettleRow(r) ==
  /\ pc[r] = "settle"
  /\ UNCHANGED slots
  /\ limits' = IF Delta(r) # 0 /\ limits[Entry(r).who] # NoRow
               THEN [limits EXCEPT ![Entry(r).who] = Charged(@, Delta(r))]
               ELSE limits
  /\ paid' = [paid EXCEPT ![r] = @ \cup {Entry(r).who}]
  /\ IF Crosses(r) THEN Goto(r, "mark") /\ UNCHANGED frame ELSE NextCharged(r)
  /\ UNCHANGED <<now, inflight, request, bill, taken, stranded, raised>>

\* The statement failed: logged, and the reservation stays as it is.
SettleFails(r) ==
  /\ pc[r] = "settle"
  /\ Delta(r) # 0
  /\ UNCHANGED slots
  /\ stranded' = [stranded EXCEPT ![r] = @ \cup {Entry(r).who}]
  /\ NextCharged(r)
  /\ UNCHANGED <<now, shared, request, bill, taken, paid, raised>>

\* A faulty mark_soft_budget_alerted: an alerted window is marked again.
CanMarkAgain(p) == limits[p] # NoRow

\* mark_soft_budget_alerted's WHERE clause.
CanMark(p) == limits[p] # NoRow /\ ~limits[p].alerted

\* Only the caller that sets the timestamp alerts.
Mark(r) ==
  LET p == Entry(r).who IN
  /\ pc[r] = "mark"
  /\ UNCHANGED slots
  /\ IF CanMark(p)
     THEN /\ limits' = [limits EXCEPT ![p] = Marked(@)]
          /\ raised' = [raised EXCEPT ![p] = @ + 1]
     ELSE UNCHANGED <<limits, raised>>
  /\ NextCharged(r)
  /\ UNCHANGED <<now, inflight, request, bill, taken, paid, stranded>>

\* The statement failed: logged, no alert.
MarkFails(r) ==
  /\ pc[r] = "mark"
  /\ UNCHANGED slots
  /\ NextCharged(r)
  /\ UNCHANGED <<now, shared, request, bill, history>>

\* A faulty drop: looks up the row, which may have been edited or deleted, to
\* see whether there is anything to free.
FreeIfCapped(r) ==
  /\ pc[r] = "drop"
  /\ \E p \in slots[r] :
       /\ inflight' = IF limits[p] = NoRow \/ inflight[p] = 0 THEN inflight
                      ELSE [inflight EXCEPT ![p] = @ - 1]
       /\ slots' = [slots EXCEPT ![r] = @ \ {p}]
  /\ Goto(r, IF slots'[r] = {} THEN "done" ELSE "drop")
  /\ UNCHANGED <<now, limits, request, frame, bill, history>>

\* ParallelSlot::drop (saturating_sub).
Free(r) ==
  /\ pc[r] = "drop"
  /\ \E p \in slots[r] :
       /\ inflight' = [inflight EXCEPT ![p] = IF @ = 0 THEN 0 ELSE @ - 1]
       /\ slots' = [slots EXCEPT ![r] = @ \ {p}]
  /\ Goto(r, IF slots'[r] = {} THEN "done" ELSE "drop")
  /\ UNCHANGED <<now, limits, request, frame, bill, history>>

----------------------------------------------------------------------------
(* The environment *)

Active(r) == pc[r] \notin {"idle", "drop", "done"}

\* The reservations of r that are still to be settled.
Held(r) == taken[r] \ (paid[r] \cup stranded[r])

\* The client goes away: the handler's future is dropped at an await, which
\* drops the guard.  Nothing settles the reservations.
Disconnect(r) ==
  /\ Active(r)
  /\ UNCHANGED slots
  /\ stranded' = [stranded EXCEPT ![r] = @ \cup Held(r)]
  /\ Return(r)
  /\ UNCHANGED <<now, shared, request, bill, taken, paid, raised>>

\* The process dies and restarts: the in-flight map is empty again, the table
\* stays as it was.
Crash ==
  /\ \E r \in Requests : pc[r] \notin {"idle", "done"}
  /\ inflight' = [p \in Principals |-> 0]
  /\ slots' = [r \in Requests |-> {}]
  /\ pc' = [r \in Requests |-> IF pc[r] = "idle" THEN "idle" ELSE "done"]
  /\ snap' = [r \in Requests |-> <<>>]
  /\ target' = [r \in Requests |-> 0]
  /\ at' = [r \in Requests |-> 1]
  /\ top' = [r \in Requests |-> 0]
  /\ stranded' = [r \in Requests |-> stranded[r] \cup Held(r)]
  /\ UNCHANGED <<now, limits, request, bill, taken, paid, raised>>

Tick ==
  /\ now < MaxNow
  /\ now' = now + 1
  /\ UNCHANGED <<shared, pc, request, frame, slots, bill, history>>

----------------------------------------------------------------------------
Begin(r) ==
  \/ Start(r) \/ TurnedAway(r)
  \/ LoadNothing(r) \/ LoadOpen(r) \/ LoadLapsed(r)
  \/ RollWins(r) \/ RollLoses(r) \/ Reload(r)
  \/ Check(r) \/ ModelRefused(r) \/ Admit(r) \/ SlotRefused(r) \/ RateRefused(r)
  \/ Reserve(r) \/ ReserveRefused(r)

Finish(r) ==
  \/ Deliver(r) \/ DispatchFails(r)
  \/ SettleRow(r) \/ Mark(r) \/ Free(r)

Handler(r) == Begin(r) \/ Finish(r)

\* What the database and the client may do to a handler.
Fault(r) ==
  \/ LoadFails(r) \/ ReserveFails(r) \/ SettleFails(r) \/ MarkFails(r)
  \/ Disconnect(r)

Next ==
  \/ \E r \in Requests : Handler(r) \/ Fault(r)
  \/ Crash
  \/ Tick

Spec == Init /\ [][Next]_vars

\* The runtime keeps polling every handler it has started, and every await in
\* it ends: a statement returns, and the router bounds a dispatch by timeouts.
Served(r) == pc[r] # "idle" /\ Handler(r)

FairSpec == Spec /\ \A r \in Requests : WF_vars(Served(r))

----------------------------------------------------------------------------
(* Properties *)

Holders(p) == {r \in Requests : p \in slots[r]}

\* The in-flight map counts exactly the guards that hold a slot, and a handler
\* that is over holds none: no path through begin, settle, a disconnect or a
\* restart leaks a slot or frees one twice.
SlotsExact ==
  /\ \A p \in Principals : inflight[p] = Cardinality(Holders(p))
  /\ \A r \in Requests : pc[r] \in {"idle", "done"} => slots[r] = {}

\* Never more requests in flight than a principal's max_parallel_requests.
SlotCap ==
  \A p \in Principals :
    limits[p] # NoRow /\ limits[p].parallel # Nil => inflight[p] <= limits[p].parallel

\* What a request owes a principal: its bill once settled, its estimate while
\* only reserved.
Owed(r, p) ==
  IF p \in paid[r] THEN bill[r]
  ELSE IF p \in taken[r] THEN Reserved(r)
  ELSE 0

OwedTo(p) == MapThenSumSet(LAMBDA r : Owed(r, p), Requests)

\* A budget without windows is an exact ledger: the spend is what the requests
\* owe, whatever the interleaving of reservations, refunds and settlements.
SpendExact ==
  \A p \in Principals :
    limits[p] # NoRow /\ limits[p].dur = Nil =>
      limits[p].spend = Rows0[p].spend + OwedTo(p)

\* When a handler is over, every reservation it made was settled, unless a
\* fault took the handler away: a refusal on a late row gives back the early
\* rows, a failed dispatch gives back all of them.
ReservationsSettled ==
  \A r \in Requests :
    pc[r] \in {"drop", "done"} => taken[r] = paid[r] \cup stranded[r]

Overrun(r, p) == IF p \in paid[r] /\ Delta(r) > 0 THEN Delta(r) ELSE 0

OverrunOf(p) == MapThenSumSet(LAMBDA r : Overrun(r, p), Requests)

\* The hard cap of p's row, or the spend it started with if that is higher (an
\* edit may put the cap below what was spent).
Ceiling(p) == IF Rows0[p].spend > limits[p].max THEN Rows0[p].spend ELSE limits[p].max

\* Estimates never pass the hard cap: however requests interleave, spend exceeds
\* max_budget_usd only by what actual costs exceeded their estimates.
CapHolds ==
  \A p \in Principals :
    limits[p] # NoRow /\ limits[p].max # Nil =>
      limits[p].spend <= Ceiling(p) + OverrunOf(p)

\* A window is restarted only once it is over, even by a request that read it
\* long ago: spend in an open window is never zeroed.
RollOnlyLapsed ==
  [][\A r \in Requests : RollWins(r) => Lapsed(limits[Loading(r)], now)]_vars

\* The soft-budget alert fires at most once per window, however many requests
\* cross the threshold together.
AlertOnce ==
  \A p \in Principals :
    raised[p] <= 1 /\ (raised[p] = 1 => limits[p] # NoRow /\ limits[p].alerted)

\* Every request that is let in ends, and so frees its slots.
RequestsEnd == \A r \in Requests : pc[r] # "idle" ~> pc[r] = "done"

============================================================================
