---------------------------- MODULE Limits_proofs ---------------------------
(***************************************************************************)
(* Proofs about limit enforcement, for any number of requests, principals, *)
(* models and rows: types; the in-flight map is exact and capped, only a   *)
(* window that is over is rolled, a window alerts once, a handler that is  *)
(* over has settled what it reserved, a budget without windows is an exact *)
(* ledger of what the requests owe, and a cap is passed only by what bills *)
(* exceeded their estimates by.  The last part is about the management     *)
(* API, with any number of calls beside the requests.                      *)
(***************************************************************************)
EXTENDS LimitsAdmin, FiniteSetTheorems, TLAPS

----------------------------------------------------------------------------
(* Rows and loaded rows *)

\* What the SQL updates of a row leave it with: all of them yield rows.
LEMMA RowUpdates ==
  ASSUME NEW row \in Row, NEW amount \in Int, NEW next \in Nat
  PROVE  /\ Charged(row, amount) \in Row
         /\ Marked(row) \in Row
         /\ Rolled(row, next) \in Row
  <1>1. row.spend + amount \in Int
    BY DEF Row
  <1>2. Charged(row, amount) \in Row
    BY <1>1, Zenon DEF Charged, Row
  <1>3. Marked(row) \in Row
    BY Zenon DEF Marked, Row
  <1>4. [row EXCEPT !.spend = 0] \in Row
    <2>1. 0 \in Int
      OBVIOUS
    <2> QED BY <2>1, Zenon DEF Row
  <1>5. \A x \in Row : [x EXCEPT !.alerted = FALSE] \in Row
    BY Zenon DEF Row
  <1>6. \A x \in Row : [x EXCEPT !.resetAt = next] \in Row
    BY Zenon DEF Row, Optional
  <1>7. Rolled(row, next) = [[[row EXCEPT !.spend = 0] EXCEPT !.alerted = FALSE]
                               EXCEPT !.resetAt = next]
    BY Zenon DEF Rolled, Row
  <1> QED
    BY <1>2, <1>3, <1>4, <1>5, <1>6, <1>7, Zenon

\* The end of the next window is a time.
LEMMA NextResetIsTime ==
  ASSUME NEW row \in Row, NEW t \in Nat, Lapsed(row, t)
  PROVE  NextReset(row, t) \in Nat
  <1>1. /\ row.dur \in Nat \ {0}
        /\ row.resetAt \in Nat
        /\ row.resetAt <= t
    BY DEF Row, Lapsed, Optional
  <1> DEFINE q == (t - row.resetAt) \div row.dur
  <1>2. q \in Nat
    BY <1>1
  <1> HIDE DEF q
  <1>3. \A a, b \in Nat : a * b \in Nat
    OBVIOUS
  <1>4. row.dur * (q + 1) \in Nat
    BY <1>1, <1>2, <1>3
  <1> QED
    BY <1>1, <1>4 DEF NextReset, q

\* Rereading the last loaded row keeps the rest.
LEMMA RereadType ==
  ASSUME NEW s \in Seq(Loaded), Len(s) > 0, NEW row \in Row
  PROVE  /\ Reread(s, row) \in Seq(Loaded)
         /\ Len(Reread(s, row)) = Len(s)
         /\ \A i \in 1 .. Len(s) : Reread(s, row)[i].who = s[i].who
         /\ Reread(s, row)[Len(s)].row = row
  <1> DEFINE n == Len(s)
             e == [s[n] EXCEPT !.row = row]
  <1>1. s[n] \in Loaded
    OBVIOUS
  <1>2. e \in Loaded /\ e.who = s[n].who /\ e.row = row
    BY <1>1, Zenon DEF Loaded
  <1>3. Reread(s, row) = [s EXCEPT ![n] = e]
    BY Zenon DEF Reread
  <1> HIDE DEF e
  <1> QED
    BY <1>2, <1>3

----------------------------------------------------------------------------
(* The type invariant *)

(* Control: where a handler is and what its loops index *)

Placed == pc \in [Requests -> Steps] /\ at \in [Requests -> Nat]
Local == /\ snap \in [Requests -> Seq(Loaded)]
         /\ target \in [Requests -> Nat]
         /\ top \in [Requests -> Nat]

LEMMA EnterMoves ==
  ASSUME NEW r \in Requests, NEW step \in Steps, Placed, Enter(r, step)
  PROVE  /\ Placed'
         /\ pc'[r] = step /\ at'[r] = 1
         /\ \A s \in Requests \ {r} : pc'[s] = pc[s] /\ at'[s] = at[s]
  BY DEF Placed, Enter, Goto, Steps

LEMMA AdvanceMoves ==
  ASSUME NEW r \in Requests, NEW loop \in Steps, NEW step \in Steps, NEW len \in Nat,
         Placed, Advance(r, loop, len, step)
  PROVE  /\ Placed'
         /\ \/ at[r] < len /\ pc'[r] = loop /\ at'[r] = at[r] + 1
            \/ pc'[r] = step /\ at'[r] = 1
         /\ \A s \in Requests \ {r} : pc'[s] = pc[s] /\ at'[s] = at[s]
  <1>1. CASE at[r] < len
    <2>1. pc' = [pc EXCEPT ![r] = loop] /\ at' = [at EXCEPT ![r] = @ + 1]
      BY <1>1 DEF Advance, Goto
    <2> QED BY <1>1, <2>1 DEF Placed
  <1>2. CASE ~(at[r] < len)
    <2>1. Enter(r, step)
      BY <1>2 DEF Advance
    <2> QED BY <2>1, EnterMoves
  <1> QED BY <1>1, <1>2

LEMMA ReturnMoves ==
  ASSUME NEW r \in Requests, Placed, Local, Return(r)
  PROVE  /\ Placed' /\ Local'
         /\ pc'[r] = IF slots'[r] = {} THEN "done" ELSE "drop"
         /\ snap'[r] = <<>> /\ target'[r] = 0 /\ at'[r] = 1 /\ top'[r] = 0
         /\ \A s \in Requests \ {r} :
              /\ pc'[s] = pc[s] /\ at'[s] = at[s]
              /\ snap'[s] = snap[s] /\ target'[s] = target[s] /\ top'[s] = top[s]
  <1> DEFINE end == IF slots'[r] = {} THEN "done" ELSE "drop"
  <1>1. end \in Steps BY DEF Steps
  <1>2. pc' = [pc EXCEPT ![r] = end] BY DEF Return, Goto
  <1> HIDE DEF end
  <1>3. <<>> \in Seq(Loaded) OBVIOUS
  <1>4. Placed' /\ pc'[r] = end BY <1>1, <1>2 DEF Placed, Return
  <1>5. Local' BY <1>3 DEF Local, Return
  <1>6. snap'[r] = <<>> /\ target'[r] = 0 /\ at'[r] = 1 /\ top'[r] = 0
    BY DEF Return, Local, Placed
  <1>7. \A s \in Requests \ {r} :
              /\ pc'[s] = pc[s] /\ at'[s] = at[s]
              /\ snap'[s] = snap[s] /\ target'[s] = target[s] /\ top'[s] = top[s]
    BY <1>2 DEF Return, Local, Placed
  <1> QED BY <1>4, <1>5, <1>6, <1>7 DEF end

LEMMA NextChargedMoves ==
  ASSUME NEW r \in Requests, Placed, Local, NextCharged(r)
  PROVE  /\ Placed' /\ Local'
         /\ \A s \in Requests \ {r} :
              /\ pc'[s] = pc[s] /\ at'[s] = at[s]
              /\ snap'[s] = snap[s] /\ target'[s] = target[s] /\ top'[s] = top[s]
         /\ \/ /\ at[r] < top[r] /\ pc'[r] = "settle" /\ at'[r] = at[r] + 1
               /\ UNCHANGED <<snap, target, top>>
            \/ Return(r)
  <1>1. CASE at[r] < top[r]
    <2>1. /\ at' = [at EXCEPT ![r] = @ + 1]
          /\ pc' = [pc EXCEPT ![r] = "settle"]
          /\ UNCHANGED <<snap, target, top>>
      BY <1>1 DEF NextCharged, Goto
    <2> QED BY <1>1, <2>1 DEF Placed, Local, Steps
  <1>2. CASE ~(at[r] < top[r])
    <2>1. Return(r) BY <1>2 DEF NextCharged
    <2> QED BY <2>1, ReturnMoves
  <1> QED BY <1>1, <1>2

\* Where a handler's loop indices point.
Framed(r) ==
  /\ route[r] \in Routes
  /\ pc[r] \in {"load", "roll", "reload"} => at[r] \in 1 .. Len(route[r])
  /\ pc[r] \in {"roll", "reload"} => Len(snap[r]) > 0
  /\ pc[r] \in {"admit", "reserve"} => at[r] \in 1 .. Len(snap[r])
  /\ pc[r] \in {"settle", "mark"} => at[r] \in 1 .. top[r]
  /\ top[r] <= Len(snap[r])

Control == \A r \in Requests : Framed(r)

TInv == TypeOK /\ Control

\* A step of r leaves the indices of the other handlers alone.
SameFor(s) ==
  pc'[s] = pc[s] /\ at'[s] = at[s] /\ snap'[s] = snap[s] /\ top'[s] = top[s]

LEMMA ControlKept ==
  ASSUME Control, NEW r \in Requests, UNCHANGED route, Framed(r)',
         \A s \in Requests \ {r} : SameFor(s)
  PROVE  Control'
  BY DEF Control, Framed, SameFor

LEMMA TypeInit == Init => TInv
  BY LimitsAssumption DEF Init, TInv, TypeOK, Control, Framed, Steps, Loaded

LEMMA TypeLoad ==
  ASSUME NEW r \in Requests, TInv,
         Start(r) \/ TurnedAway(r) \/ LoadNothing(r) \/ LoadOpen(r) \/ LoadLapsed(r)
  PROVE  TInv'
  <1> USE DEF TInv, shared, request, frame, history
  <1>0. Placed /\ Local /\ route[r] \in Seq(Principals) /\ snap[r] \in Seq(Loaded)
    BY DEF TypeOK, Placed, Local
  <1>1. CASE Start(r)
    <2>1. PICK step \in {"check", "load"} :
            Enter(r, step) /\ (step = "load" => route[r] # <<>>)
      BY <1>1 DEF Start
    <2>2. Placed' /\ pc'[r] = step /\ at'[r] = 1 /\ \A s \in Requests \ {r} : SameFor(s)
      BY <1>0, <1>1, <2>1, EnterMoves DEF Start, Steps, SameFor
    <2>3. TypeOK'
      BY <1>1, <2>2 DEF Start, TypeOK, Placed
    <2>4. Framed(r)'
      BY <1>0, <1>1, <2>1, <2>2 DEF Start, Control, Framed
    <2> QED BY <1>1, <2>2, <2>3, <2>4, ControlKept DEF Start
  <1>2. CASE TurnedAway(r)
    <2>1. Placed' /\ Local' /\ \A s \in Requests \ {r} : SameFor(s)
      BY <1>0, <1>2, ReturnMoves DEF TurnedAway, SameFor
    <2>2. TypeOK'
      BY <1>2, <2>1 DEF TurnedAway, TypeOK, Placed, Local
    <2>3. Framed(r)'
      BY <1>0, <1>2, ReturnMoves DEF TurnedAway, Control, Framed
    <2> QED BY <1>2, <2>1, <2>2, <2>3, ControlKept DEF TurnedAway
  <1>3. CASE LoadNothing(r)
    <2>1. /\ Placed'
          /\ \/ at[r] < Len(route[r]) /\ pc'[r] = "load" /\ at'[r] = at[r] + 1
             \/ pc'[r] = "check" /\ at'[r] = 1
          /\ \A s \in Requests \ {r} : SameFor(s)
      BY <1>0, <1>3, AdvanceMoves DEF LoadNothing, Steps, SameFor
    <2>2. TypeOK'
      BY <1>3, <2>1 DEF LoadNothing, TypeOK, Placed
    <2>3. Framed(r)'
      BY <1>0, <1>3, <2>1 DEF LoadNothing, Control, Framed, Placed
    <2> QED BY <1>3, <2>1, <2>2, <2>3, ControlKept DEF LoadNothing
  <1>4. CASE LoadOpen(r) \/ LoadLapsed(r)
    <2>1. Loading(r) \in Principals /\ limits[Loading(r)] \in Row
      BY <1>0, <1>4 DEF LoadOpen, LoadLapsed, Loading, Control, Framed, TypeOK
    <2>2. [who |-> Loading(r), row |-> limits[Loading(r)]] \in Loaded
      BY <2>1 DEF Loaded
    <2>3. /\ snap' \in [Requests -> Seq(Loaded)]
          /\ Len(snap'[r]) = Len(snap[r]) + 1
          /\ \A s \in Requests \ {r} : snap'[s] = snap[s]
      <3>1. PICK entry \in Loaded : snap' = [snap EXCEPT ![r] = Append(snap[r], entry)]
        BY <1>4, <2>2, Zenon DEF LoadOpen, LoadLapsed, Keep
      <3>2. /\ Append(snap[r], entry) \in Seq(Loaded)
            /\ Len(Append(snap[r], entry)) = Len(snap[r]) + 1
        BY <1>0
      <3> QED BY <1>0, <3>1, <3>2 DEF Local
    <2>4. CASE LoadOpen(r)
      <3>1. /\ Placed'
            /\ \/ at[r] < Len(route[r]) /\ pc'[r] = "load" /\ at'[r] = at[r] + 1
               \/ pc'[r] = "check" /\ at'[r] = 1
            /\ \A s \in Requests \ {r} : SameFor(s)
        BY <1>0, <2>3, <2>4, AdvanceMoves DEF LoadOpen, Steps, SameFor
      <3>2. TypeOK'
        BY <2>3, <2>4, <3>1 DEF LoadOpen, TypeOK, Placed
      <3>3. Framed(r)'
        BY <1>0, <2>3, <2>4, <3>1 DEF LoadOpen, Control, Framed, Placed, Local
      <3> QED BY <2>4, <3>1, <3>2, <3>3, ControlKept DEF LoadOpen
    <2>5. CASE LoadLapsed(r)
      <3>1. NextReset(limits[Loading(r)], now) \in Nat
        BY <2>1, <2>5, NextResetIsTime, LimitsAssumption DEF LoadLapsed, TypeOK
      <3>2. /\ Placed' /\ pc'[r] = "roll" /\ UNCHANGED <<at, top>>
            /\ \A s \in Requests \ {r} : SameFor(s)
        BY <1>0, <2>3, <2>5 DEF LoadLapsed, Goto, Placed, Steps, SameFor
      <3>3. target' \in [Requests -> Nat]
        BY <2>5, <3>1 DEF LoadLapsed, TypeOK
      <3>4. TypeOK'
        BY <2>3, <2>5, <3>2, <3>3 DEF LoadLapsed, TypeOK, Placed
      <3>5. Framed(r)'
        BY <1>0, <2>3, <2>5, <3>2 DEF LoadLapsed, Control, Framed, Placed, Local
      <3> QED BY <2>5, <3>2, <3>4, <3>5, ControlKept DEF LoadLapsed
    <2> QED BY <1>4, <2>4, <2>5
  <1> QED
    BY <1>1, <1>2, <1>3, <1>4

LEMMA TypeRoll ==
  ASSUME NEW r \in Requests, TInv, RollWins(r) \/ RollLoses(r) \/ Reload(r)
  PROVE  TInv'
  <1> USE DEF TInv, shared, request, frame, history
  <1>0. Placed /\ Local /\ route[r] \in Seq(Principals) /\ snap[r] \in Seq(Loaded)
    BY DEF TypeOK, Placed, Local
  <1>1. Loading(r) \in Principals /\ Len(snap[r]) > 0 /\ at[r] \in 1 .. Len(route[r])
    BY <1>0 DEF RollWins, RollLoses, Reload, Loading, Control, Framed
  <1>2. Stale(r) \in Row /\ target[r] \in Nat
    <2>1. snap[r][Len(snap[r])] \in Loaded
      BY <1>0, <1>1
    <2>2. Stale(r) \in Row
      BY <2>1, Zenon DEF Stale, Loaded
    <2> QED BY <1>0, <2>2 DEF Local
  <1>3. CASE RollWins(r)
    <2>1. limits[Loading(r)] \in Row
      BY <1>1, <1>3 DEF RollWins, CanRoll, TypeOK
    <2>2. /\ Rolled(limits[Loading(r)], target[r]) \in Row
          /\ Rolled(Stale(r), target[r]) \in Row
      BY <1>2, <2>1, RowUpdates, 0 \in Int
    <2>3. /\ Reread(snap[r], Rolled(Stale(r), target[r])) \in Seq(Loaded)
          /\ Len(Reread(snap[r], Rolled(Stale(r), target[r]))) = Len(snap[r])
      BY <1>0, <1>1, <2>2, RereadType
    <2>4. /\ snap' \in [Requests -> Seq(Loaded)]
          /\ Len(snap'[r]) = Len(snap[r])
          /\ \A s \in Requests \ {r} : snap'[s] = snap[s]
      BY <1>3, <2>3 DEF RollWins, TypeOK
    <2>5. /\ Placed'
          /\ \/ at[r] < Len(route[r]) /\ pc'[r] = "load" /\ at'[r] = at[r] + 1
             \/ pc'[r] = "check" /\ at'[r] = 1
          /\ \A s \in Requests \ {r} : SameFor(s)
      BY <1>0, <1>3, <2>4, AdvanceMoves, SMTT(30) DEF RollWins, Steps, SameFor
    <2>6. TypeOK'
      BY <1>1, <1>3, <2>2, <2>4, <2>5 DEF RollWins, TypeOK, Placed
    <2>7. Framed(r)'
      BY <1>0, <1>1, <1>3, <2>4, <2>5 DEF RollWins, Control, Framed, Placed, Local
    <2> QED BY <1>3, <2>5, <2>6, <2>7, ControlKept DEF RollWins
  <1>4. CASE RollLoses(r)
    <2>1. /\ Placed' /\ pc'[r] = "reload" /\ UNCHANGED <<at, snap, top>>
          /\ \A s \in Requests \ {r} : SameFor(s)
      BY <1>0, <1>4 DEF RollLoses, Goto, Placed, Steps, SameFor
    <2>2. TypeOK'
      BY <1>4, <2>1 DEF RollLoses, TypeOK, Placed
    <2>3. Framed(r)'
      BY <1>1, <1>4, <2>1 DEF RollLoses, Control, Framed
    <2> QED BY <1>4, <2>1, <2>2, <2>3, ControlKept DEF RollLoses
  <1>5. CASE Reload(r)
    <2>1. limits[Loading(r)] # NoRow =>
            /\ Reread(snap[r], limits[Loading(r)]) \in Seq(Loaded)
            /\ Len(Reread(snap[r], limits[Loading(r)])) = Len(snap[r])
      BY <1>0, <1>1, RereadType DEF TypeOK
    <2>2. PICK loaded \in Seq(Loaded) : /\ snap' = [snap EXCEPT ![r] = loaded]
                                        /\ Len(loaded) = Len(snap[r])
      BY <1>0, <1>5, <2>1 DEF Reload
    <2>3. /\ snap' \in [Requests -> Seq(Loaded)]
          /\ Len(snap'[r]) = Len(snap[r])
          /\ \A s \in Requests \ {r} : snap'[s] = snap[s]
      BY <2>2 DEF TypeOK
    <2>4. /\ Placed'
          /\ \/ at[r] < Len(route[r]) /\ pc'[r] = "load" /\ at'[r] = at[r] + 1
             \/ pc'[r] = "check" /\ at'[r] = 1
          /\ \A s \in Requests \ {r} : SameFor(s)
      BY <1>0, <1>5, <2>3, AdvanceMoves DEF Reload, Steps, SameFor
    <2>5. TypeOK'
      BY <1>5, <2>3, <2>4 DEF Reload, TypeOK, Placed
    <2>6. Framed(r)'
      BY <1>0, <1>1, <1>5, <2>3, <2>4 DEF Reload, Control, Framed, Placed, Local
    <2> QED BY <1>5, <2>4, <2>5, <2>6, ControlKept DEF Reload
  <1> QED
    BY <1>3, <1>4, <1>5

(* The handler returns or is about to settle *)

LEMMA ReturnFrames ==
  ASSUME NEW r \in Requests, TInv, Return(r), UNCHANGED route
  PROVE  Placed' /\ Local' /\ Control'
  <1>1. Placed /\ Local
    BY DEF TInv, TypeOK, Placed, Local
  <1>2. Framed(r)'
    BY <1>1, ReturnMoves DEF TInv, Control, Framed
  <1>3. \A s \in Requests \ {r} : SameFor(s)
    BY <1>1, ReturnMoves DEF SameFor
  <1> QED
    BY <1>1, <1>2, <1>3, ReturnMoves, ControlKept DEF TInv

\* A refusal that holds nothing but slots.
LEMMA TypeRefusal ==
  ASSUME NEW r \in Requests, TInv, Return(r),
         UNCHANGED <<now, shared, request, slots, bill, history>>
  PROVE  TInv'
  <1>1. Placed' /\ Local' /\ Control'
    BY ReturnFrames DEF request
  <1> QED
    BY <1>1 DEF TInv, TypeOK, Placed, Local, shared, request, history

LEMMA TypeSettle ==
  ASSUME NEW r \in Requests, TInv, NEW amount \in Nat, Settle(r, amount),
         UNCHANGED <<now, shared, request, history>>
  PROVE  TInv'
  <1>1. bill' \in [Requests -> Nat] /\ UNCHANGED slots
    BY DEF Settle, TInv, TypeOK
  <1>2. CASE top[r] = 0
    <2>1. Return(r)
      BY <1>2 DEF Settle
    <2>2. Placed' /\ Local' /\ Control'
      BY <2>1, ReturnFrames DEF request
    <2> QED
      BY <1>1, <2>2 DEF TInv, TypeOK, Placed, Local, shared, request, history
  <1>3. CASE top[r] # 0
    <2>1. Enter(r, "settle") /\ UNCHANGED <<snap, target, top>>
      BY <1>3 DEF Settle
    <2>2. /\ Placed' /\ pc'[r] = "settle" /\ at'[r] = 1
          /\ \A s \in Requests \ {r} : SameFor(s)
      BY <2>1, EnterMoves DEF TInv, TypeOK, Placed, Steps, SameFor
    <2>3. TypeOK'
      BY <1>1, <2>1, <2>2 DEF TInv, TypeOK, Placed, shared, request, history
    <2>4. Framed(r)'
      BY <1>3, <2>1, <2>2 DEF TInv, TypeOK, Control, Framed, request
    <2> QED
      BY <2>2, <2>3, <2>4, ControlKept DEF TInv, request
  <1> QED
    BY <1>2, <1>3

(* The row a loop is at *)

LEMMA EntryType ==
  ASSUME NEW r \in Requests, TInv, pc[r] \in {"admit", "reserve", "settle", "mark"}
  PROVE  /\ Entry(r) \in Loaded
         /\ Entry(r).who \in Principals /\ Entry(r).row \in Row
         /\ at[r] \in 1 .. Len(snap[r])
  <1>1. snap[r] \in Seq(Loaded) /\ at[r] \in Nat /\ top[r] \in Nat /\ Framed(r)
    BY DEF TInv, TypeOK, Control
  <1>2. at[r] \in 1 .. Len(snap[r])
    BY <1>1 DEF Framed
  <1>3. Entry(r) \in Loaded
    BY <1>1, <1>2 DEF Entry
  <1> QED
    BY <1>2, <1>3, Zenon DEF Loaded

\* Taking a slot.
LEMMA TakeSlotType ==
  ASSUME NEW r \in Requests, TInv, pc[r] = "admit", TakeSlot(r)
  PROVE  /\ inflight' \in [Principals -> Nat]
         /\ slots' \in [Requests -> SUBSET Principals]
  <1>1. Entry(r).who \in Principals
    BY EntryType
  <1>2. CASE Entry(r).row.parallel = Nil
    BY <1>2 DEF TakeSlot, TInv, TypeOK
  <1>3. CASE Entry(r).row.parallel # Nil
    <2>1. /\ inflight' = [inflight EXCEPT ![Entry(r).who] = @ + 1]
          /\ slots' = [slots EXCEPT ![r] = @ \cup {Entry(r).who}]
      BY <1>3 DEF TakeSlot
    <2> QED
      BY <1>1, <2>1 DEF TInv, TypeOK
  <1> QED
    BY <1>2, <1>3

LEMMA TypeAdmit ==
  ASSUME NEW r \in Requests, TInv,
         Check(r) \/ ModelRefused(r) \/ Admit(r) \/ SlotRefused(r) \/ RateRefused(r)
  PROVE  TInv'
  <1> USE DEF shared, request, frame, history
  <1>0. Placed /\ Local /\ snap[r] \in Seq(Loaded) /\ Framed(r)
    BY DEF TInv, TypeOK, Placed, Local, Control
  <1>1. CASE Check(r)
    <2>1. PICK step \in {"dispatch", "admit"} :
            Enter(r, step) /\ (step = "admit" => snap[r] # <<>>)
      BY <1>1 DEF Check
    <2>2. /\ Placed' /\ pc'[r] = step /\ at'[r] = 1
          /\ \A s \in Requests \ {r} : SameFor(s)
      BY <1>0, <1>1, <2>1, EnterMoves DEF Check, Steps, SameFor
    <2>3. TypeOK'
      BY <1>1, <2>2 DEF Check, TInv, TypeOK, Placed
    <2>4. Framed(r)'
      BY <1>0, <1>1, <2>1, <2>2 DEF Check, Framed
    <2> QED BY <1>1, <2>2, <2>3, <2>4, ControlKept DEF Check, TInv
  <1>2. CASE ModelRefused(r) \/ SlotRefused(r)
    BY <1>2, TypeRefusal DEF ModelRefused, SlotRefused
  <1>3. CASE Admit(r)
    <2>1. /\ Placed'
          /\ \/ at[r] < Len(snap[r]) /\ pc'[r] = "admit" /\ at'[r] = at[r] + 1
             \/ pc'[r] = "reserve" /\ at'[r] = 1
          /\ \A s \in Requests \ {r} : SameFor(s)
      BY <1>0, <1>3, AdvanceMoves DEF Admit, Steps, SameFor
    <2>2. TypeOK'
      BY <1>3, <2>1, TakeSlotType DEF Admit, TInv, TypeOK, Placed
    <2>3. Framed(r)'
      BY <1>0, <1>3, <2>1 DEF Admit, Framed, Placed
    <2> QED BY <1>3, <2>1, <2>2, <2>3, ControlKept DEF Admit, TInv
  <1>4. CASE RateRefused(r)
    <2>1. Placed' /\ Local' /\ Control'
      BY <1>4, ReturnFrames DEF RateRefused
    <2> QED
      BY <1>4, <2>1, TakeSlotType DEF RateRefused, TInv, TypeOK, Placed, Local
  <1> QED
    BY <1>1, <1>2, <1>3, <1>4

LEMMA TypeReserve ==
  ASSUME NEW r \in Requests, TInv, Reserve(r) \/ ReserveRefused(r) \/ ReserveFails(r)
  PROVE  TInv'
  <1> USE DEF shared, request, frame, history
  <1>0. Placed /\ Local /\ snap[r] \in Seq(Loaded) /\ Framed(r)
    BY DEF TInv, TypeOK, Placed, Local, Control
  <1>1. CASE Reserve(r)
    <2>1. Entry(r).who \in Principals /\ at[r] \in 1 .. Len(snap[r])
      BY <1>1, EntryType DEF Reserve
    <2>2. Reserved(r) \in Nat
      BY LimitsAssumption DEF Reserved, TInv, TypeOK
    <2>3. limits' \in [Principals -> Row \cup {NoRow}]
      <3>1. CASE Reserved(r) > 0
        <4>1. /\ limits[Entry(r).who] # NoRow
              /\ limits' = [limits EXCEPT ![Entry(r).who] =
                              Charged(limits[Entry(r).who], Reserved(r))]
          BY <1>1, <3>1, Zenon DEF Reserve, Reservable
        <4>2. limits[Entry(r).who] \in Row
          BY <2>1, <4>1 DEF TInv, TypeOK
        <4>3. Reserved(r) \in Int
          BY <2>2
        <4>4. Charged(limits[Entry(r).who], Reserved(r)) \in Row
          BY <4>2, <4>3, RowUpdates, 0 \in Nat
        <4> QED BY <4>1, <4>4 DEF TInv, TypeOK
      <3>2. CASE ~(Reserved(r) > 0)
        <4>1. UNCHANGED limits
          BY <1>1, <3>2, Zenon DEF Reserve
        <4> QED BY <4>1 DEF TInv, TypeOK
      <3> QED BY <3>1, <3>2
    <2>4. /\ top' \in [Requests -> Nat] /\ top'[r] = at[r]
          /\ \A s \in Requests \ {r} : top'[s] = top[s]
      BY <1>0, <1>1 DEF Reserve, Placed, Local
    <2>5. /\ Placed'
          /\ \/ at[r] < Len(snap[r]) /\ pc'[r] = "reserve" /\ at'[r] = at[r] + 1
             \/ pc'[r] = "dispatch" /\ at'[r] = 1
          /\ \A s \in Requests \ {r} : SameFor(s)
      BY <1>0, <1>1, <2>4, AdvanceMoves DEF Reserve, Steps, SameFor
    <2>6. taken' \in [Requests -> SUBSET Principals]
      BY <1>1, <2>1 DEF Reserve, TInv, TypeOK
    <2>7. TypeOK'
      BY <1>1, <2>3, <2>4, <2>5, <2>6 DEF Reserve, TInv, TypeOK, Placed
    <2>8. Framed(r)'
      <3>1. UNCHANGED <<route, snap>> /\ pc[r] = "reserve"
        BY <1>1 DEF Reserve
      <3> QED BY <1>0, <2>1, <2>4, <2>5, <3>1 DEF Framed, Placed
    <2> QED BY <1>1, <2>5, <2>7, <2>8, ControlKept DEF Reserve, TInv
  <1>2. CASE ReserveRefused(r) \/ ReserveFails(r)
    BY <1>2, TypeSettle, 0 \in Nat DEF ReserveRefused, ReserveFails
  <1> QED
    BY <1>1, <1>2

(* Settling *)

\* The end of one round of the settle loop.
LEMMA NextChargedFrames ==
  ASSUME NEW r \in Requests, TInv, NextCharged(r), UNCHANGED route
  PROVE  Placed' /\ Local' /\ Control'
  <1>1. Placed /\ Local /\ Framed(r)
    BY DEF TInv, TypeOK, Placed, Local, Control
  <1>2. CASE Return(r)
    BY <1>2, ReturnFrames
  <1>3. CASE /\ at[r] < top[r] /\ pc'[r] = "settle" /\ at'[r] = at[r] + 1
             /\ UNCHANGED <<snap, target, top>>
    <2>1. Framed(r)'
      BY <1>1, <1>3 DEF Framed, Placed, Local
    <2>2. \A s \in Requests \ {r} : SameFor(s)
      BY <1>1, NextChargedMoves DEF SameFor
    <2> QED
      BY <1>1, <2>1, <2>2, NextChargedMoves, ControlKept DEF TInv
  <1> QED
    BY <1>1, <1>2, <1>3, NextChargedMoves

LEMMA TypeSettleLoop ==
  ASSUME NEW r \in Requests, TInv,
         SettleRow(r) \/ SettleFails(r) \/ Mark(r) \/ MarkFails(r)
  PROVE  TInv'
  <1> USE DEF shared, request, frame, history
  <1>0. Placed /\ Local /\ Framed(r)
    BY DEF TInv, TypeOK, Placed, Local, Control
  <1> DEFINE p == Entry(r).who
  <1>1. p \in Principals
    BY EntryType DEF SettleRow, SettleFails, Mark, MarkFails
  <1> HIDE DEF p
  <1>2. CASE SettleRow(r)
    <2>1. Delta(r) \in Int
      BY LimitsAssumption DEF Delta, Reserved, TInv, TypeOK
    <2>2. limits' \in [Principals -> Row \cup {NoRow}]
      <3>1. CASE Delta(r) # 0 /\ limits[p] # NoRow
        <4>1. limits' = [limits EXCEPT ![p] = Charged(limits[p], Delta(r))]
          BY <1>2, <3>1, Zenon DEF SettleRow, p
        <4>2. limits[p] \in Row
          BY <1>1, <3>1 DEF TInv, TypeOK
        <4>3. Charged(limits[p], Delta(r)) \in Row
          BY <2>1, <4>2, RowUpdates, 0 \in Nat
        <4> QED BY <4>1, <4>3 DEF TInv, TypeOK
      <3>2. CASE ~(Delta(r) # 0 /\ limits[p] # NoRow)
        <4>1. limits' = limits
          BY <1>2, <3>2, Zenon DEF SettleRow, p
        <4> QED BY <4>1 DEF TInv, TypeOK
      <3> QED BY <3>1, <3>2
    <2>3. paid' \in [Requests -> SUBSET Principals]
      BY <1>1, <1>2 DEF SettleRow, TInv, TypeOK, p
    <2>4. Placed' /\ Local' /\ Control'
      <3>1. CASE Crosses(r)
        <4>1. Goto(r, "mark") /\ UNCHANGED <<snap, target, at, top>>
          BY <1>2, <3>1, Zenon DEF SettleRow
        <4>2. pc' \in [Requests -> Steps] /\ pc'[r] = "mark" /\ \A s \in Requests \ {r} : SameFor(s)
          BY <1>0, <4>1 DEF Goto, Placed, Steps, SameFor
        <4>3. Framed(r)'
          BY <1>0, <1>2, <4>1, <4>2 DEF SettleRow, Framed
        <4> QED BY <1>0, <1>2, <4>1, <4>2, <4>3, ControlKept DEF SettleRow, TInv, Placed, Local
      <3>2. CASE ~Crosses(r)
        <4>1. NextCharged(r) /\ UNCHANGED route
          BY <1>2, <3>2, Zenon DEF SettleRow
        <4> QED BY <4>1, NextChargedFrames
      <3> QED BY <3>1, <3>2
    <2>5. UNCHANGED <<now, inflight, route, model, slots, bill, taken, stranded, raised>>
      BY <1>2, Zenon DEF SettleRow
    <2> QED
      BY <2>2, <2>3, <2>4, <2>5 DEF TInv, TypeOK, Placed, Local
  <1>3. CASE SettleFails(r)
    <2>1. stranded' \in [Requests -> SUBSET Principals]
      BY <1>1, <1>3 DEF SettleFails, TInv, TypeOK, p
    <2>2. /\ UNCHANGED <<now, limits, inflight, route, model, slots, bill, taken, paid, raised>>
          /\ NextCharged(r)
      BY <1>3, Zenon DEF SettleFails
    <2>3. Placed' /\ Local' /\ Control'
      BY <2>2, NextChargedFrames
    <2> QED
      BY <2>1, <2>2, <2>3 DEF TInv, TypeOK, Placed, Local
  <1>4. CASE Mark(r)
    <2>1. /\ limits' \in [Principals -> Row \cup {NoRow}]
          /\ raised' \in [Principals -> Nat]
      <3>1. CASE CanMark(p)
        <4>1. /\ limits' = [limits EXCEPT ![p] = Marked(limits[p])]
              /\ raised' = [raised EXCEPT ![p] = @ + 1]
          BY <1>4, <3>1, Zenon DEF Mark, p
        <4>2. limits[p] \in Row
          BY <1>1, <3>1 DEF CanMark, TInv, TypeOK
        <4>3. Marked(limits[p]) \in Row
          BY <4>2, RowUpdates, 0 \in Nat
        <4> QED BY <1>1, <4>1, <4>3 DEF TInv, TypeOK
      <3>2. CASE ~CanMark(p)
        <4>1. UNCHANGED <<limits, raised>>
          BY <1>4, <3>2, Zenon DEF Mark, p
        <4> QED BY <4>1 DEF TInv, TypeOK
      <3> QED BY <3>1, <3>2
    <2>2. /\ UNCHANGED <<now, inflight, route, model, slots, bill, taken, paid, stranded>>
          /\ NextCharged(r)
      BY <1>4, Zenon DEF Mark
    <2>3. Placed' /\ Local' /\ Control'
      BY <2>2, NextChargedFrames
    <2> QED
      BY <2>1, <2>2, <2>3 DEF TInv, TypeOK, Placed, Local
  <1>5. CASE MarkFails(r)
    <2>1. Placed' /\ Local' /\ Control'
      BY <1>5, NextChargedFrames DEF MarkFails
    <2> QED
      BY <1>5, <2>1 DEF MarkFails, TInv, TypeOK, Placed, Local
  <1> QED
    BY <1>2, <1>3, <1>4, <1>5

(* Dropping the guard, faults and the environment *)

LEMMA TypeFree ==
  ASSUME NEW r \in Requests, TInv, Free(r)
  PROVE  TInv'
  <1> USE DEF shared, request, frame, history
  <1>1. PICK p \in slots[r] :
          /\ inflight' = [inflight EXCEPT ![p] = IF @ = 0 THEN 0 ELSE @ - 1]
          /\ slots' = [slots EXCEPT ![r] = @ \ {p}]
    BY Zenon DEF Free
  <1>2. p \in Principals /\ inflight[p] \in Nat
    BY DEF TInv, TypeOK
  <1>3. (IF inflight[p] = 0 THEN 0 ELSE inflight[p] - 1) \in Nat
    BY <1>2
  <1>4. inflight' \in [Principals -> Nat]
    BY <1>1, <1>3 DEF TInv, TypeOK
  <1>5. slots' \in [Requests -> SUBSET Principals]
    BY <1>1 DEF TInv, TypeOK
  <1>6. PICK step \in {"done", "drop"} : pc' = [pc EXCEPT ![r] = step]
    BY Zenon DEF Free, Goto
  <1>7. /\ pc' \in [Requests -> Steps] /\ pc'[r] = step
        /\ UNCHANGED <<now, limits, route, model, snap, target, at, top, bill,
                      taken, paid, stranded, raised>>
    BY <1>6 DEF Free, TInv, TypeOK, Steps
  <1>8. \A s \in Requests \ {r} : SameFor(s)
    BY <1>6, <1>7 DEF SameFor, TInv, TypeOK
  <1>9. Framed(r)'
    BY <1>7 DEF Framed, TInv, Control
  <1> QED
    BY <1>4, <1>5, <1>7, <1>8, <1>9, ControlKept DEF TInv, TypeOK

LEMMA TypeDisconnect ==
  ASSUME NEW r \in Requests, TInv, Disconnect(r)
  PROVE  TInv'
  <1>1. stranded' \in [Requests -> SUBSET Principals]
    BY DEF Disconnect, Held, TInv, TypeOK
  <1>2. Placed' /\ Local' /\ Control'
    BY ReturnFrames DEF Disconnect, request
  <1> QED
    BY <1>1, <1>2 DEF Disconnect, TInv, TypeOK, Placed, Local, shared, request

LEMMA TypeEnvironment ==
  ASSUME TInv, Crash \/ Tick \/ UNCHANGED vars
  PROVE  TInv'
  <1> USE DEF shared, request, frame, history
  <1>1. CASE Crash
    <2>1. pc' \in [Requests -> Steps] /\ \A r \in Requests : pc'[r] \in {"idle", "done"}
      BY <1>1 DEF Crash, Steps
    <2>2. /\ snap' \in [Requests -> Seq(Loaded)] /\ target' \in [Requests -> Nat]
          /\ at' \in [Requests -> Nat] /\ top' \in [Requests -> Nat]
          /\ \A r \in Requests : snap'[r] = <<>> /\ top'[r] = 0
      BY <1>1 DEF Crash
    <2>3. stranded' \in [Requests -> SUBSET Principals]
      BY <1>1 DEF Crash, Held, TInv, TypeOK
    <2>4. TypeOK'
      BY <1>1, <2>1, <2>2, <2>3 DEF Crash, TInv, TypeOK
    <2>5. Control'
      BY <1>1, <2>1, <2>2 DEF Crash, TInv, Control, Framed
    <2> QED BY <2>4, <2>5 DEF TInv
  <1>2. CASE Tick
    <2>1. now' \in 0 .. MaxNow
      BY <1>2, LimitsAssumption DEF Tick, TInv, TypeOK
    <2> QED BY <1>2, <2>1 DEF Tick, TInv, TypeOK, Control, Framed
  <1>3. CASE UNCHANGED vars
    BY <1>3 DEF vars, TInv, TypeOK, Control, Framed
  <1> QED
    BY <1>1, <1>2, <1>3

LEMMA TypeHandler ==
  ASSUME NEW r \in Requests, TInv, Handler(r) \/ Fault(r)
  PROVE  TInv'
  <1>1. CASE Begin(r)
    BY <1>1, TypeLoad, TypeRoll, TypeAdmit, TypeReserve DEF Begin
  <1>2. CASE Deliver(r) \/ DispatchFails(r)
    <2>1. Actuals[model[r]] \subseteq Nat
      BY LimitsAssumption DEF TInv, TypeOK
    <2> QED
      BY <1>2, <2>1, TypeSettle, 0 \in Nat DEF Deliver, DispatchFails
  <1>3. CASE SettleRow(r) \/ Mark(r) \/ Free(r)
    BY <1>3, TypeSettleLoop, TypeFree
  <1>4. CASE Fault(r)
    <2>1. LoadFails(r) => TInv'
      BY TypeRefusal DEF LoadFails
    <2> QED
      BY <1>4, <2>1, TypeReserve, TypeSettleLoop, TypeDisconnect DEF Fault
  <1> QED
    BY <1>1, <1>2, <1>3, <1>4 DEF Handler, Finish

\* Whatever the interleaving of handlers, faults, crashes and the clock, every
\* variable keeps its type and every loop index of a handler stays within the
\* rows its loop is over: no step of enforce.rs indexes past a vector.
THEOREM TypeCorrect == Spec => [](TypeOK /\ Control)
  <1>1. TInv /\ [Next]_vars => TInv'
    BY TypeHandler, TypeEnvironment DEF Next
  <1> QED
    BY <1>1, TypeInit, PTL DEF Spec, TInv

----------------------------------------------------------------------------
(* The inductive invariant *)

\* Every row a handler loaded is that of a principal of its own.
Apart(r) ==
  \A i, j \in 1 .. Len(snap[r]) : snap[r][i].who = snap[r][j].who => i = j

\* The first n loaded rows are those of principals the load loop has passed.
Passed(r, n) ==
  \A i \in 1 .. n : \E k \in 1 .. at[r] - 1 : snap[r][i].who = route[r][k]

\* What a handler has loaded, step by step.
Sound(r) ==
  /\ Apart(r)
  /\ pc[r] = "idle" => snap[r] = <<>>
  /\ pc[r] = "load" => Passed(r, Len(snap[r]))
  /\ pc[r] \in {"roll", "reload"} =>
       Passed(r, Len(snap[r]) - 1) /\ snap[r][Len(snap[r])].who = Loading(r)
  /\ pc[r] = "roll" => Lapsed(Stale(r), now)

Early == {"idle", "load", "roll", "reload", "check"}

\* The slots a handler holds: none before the admission loop and none at the
\* end; inside the loop, only those of rows it has passed.
Grip(r) ==
  /\ pc[r] \in Early \cup {"done"} => slots[r] = {}
  /\ pc[r] = "admit" =>
       \A p \in slots[r] : \E j \in 1 .. at[r] - 1 : snap[r][j].who = p

Counted == \A p \in Principals : inflight[p] = Cardinality(Holders(p))

HInv == TInv /\ Counted /\ \A r \in Requests : Sound(r) /\ Grip(r)

\* A row of p as it was configured: no statement of enforce.rs changes these.
Configured(p, row) ==
  /\ Rows0[p] # NoRow
  /\ row.parallel = Rows0[p].parallel
  /\ row.dur = Rows0[p].dur

\* The table, and what handlers loaded from it.
Table == \A p \in Principals : limits[p] # NoRow => Configured(p, limits[p])

Agreed(r) ==
  \A i \in 1 .. Len(snap[r]) : Configured(snap[r][i].who, snap[r][i].row)

SInv == HInv /\ Table /\ SlotCap /\ \A r \in Requests : Agreed(r)

LEMMA SafetyInit == Init => SInv
  <1> SUFFICES ASSUME Init PROVE SInv
    OBVIOUS
  <1>1. TInv
    BY TypeInit
  <1>2. Table
    BY DEF Init, Table, Configured
  <1>3. \A r \in Requests : Sound(r) /\ Grip(r) /\ Agreed(r)
    BY DEF Init, Sound, Grip, Apart, Early, Agreed
  <1>4. \A p \in Principals : Holders(p) = {}
    BY DEF Init, Holders
  <1>5. Counted
    BY <1>4, FS_EmptySet DEF Init, Counted
  <1>6. SlotCap
    <2>1. SUFFICES ASSUME NEW p \in Principals, limits[p] # NoRow, limits[p].parallel # Nil
                   PROVE  inflight[p] <= limits[p].parallel
      BY DEF SlotCap
    <2>2. limits[p].parallel \in 1 .. MaxParallel
      BY <1>1, <2>1 DEF TInv, TypeOK, Row, Optional
    <2> QED BY <2>2, LimitsAssumption DEF Init
  <1> QED
    BY <1>1, <1>2, <1>3, <1>5, <1>6 DEF SInv, HInv

----------------------------------------------------------------------------
(* What steps leave alone *)

\* Rows may be updated but keep their configuration.
SameConfig ==
  \A p \in Principals : limits'[p] # NoRow =>
    /\ limits[p] # NoRow
    /\ limits'[p].parallel = limits[p].parallel
    /\ limits'[p].dur = limits[p].dur

LEMMA UpdatesKeepConfig ==
  ASSUME NEW row \in Row, NEW amount, NEW next
  PROVE  /\ Charged(row, amount).parallel = row.parallel /\ Charged(row, amount).dur = row.dur
         /\ Marked(row).parallel = row.parallel /\ Marked(row).dur = row.dur
         /\ Rolled(row, next).parallel = row.parallel /\ Rolled(row, next).dur = row.dur
         /\ Charged(row, amount).resetAt = row.resetAt
         /\ Marked(row).resetAt = row.resetAt /\ Rolled(row, next).resetAt = next
  BY Zenon DEF Row, Charged, Marked, Rolled

LEMMA StoreKeepsConfig ==
  ASSUME TypeOK, NEW p \in Principals, NEW row, limits[p] # NoRow,
         row.parallel = limits[p].parallel, row.dur = limits[p].dur,
         limits' = [limits EXCEPT ![p] = row]
  PROVE  SameConfig
  BY DEF TypeOK, SameConfig

\* The statements of a handler: a row is charged, marked or rolled.
Stored(r, p) ==
  /\ limits[p] # NoRow
  /\ \/ \E amount \in Int : limits' = [limits EXCEPT ![p] = Charged(limits[p], amount)]
     \/ limits' = [limits EXCEPT ![p] = Marked(limits[p])]
     \/ /\ RollWins(r) /\ p = Loading(r)
        /\ limits' = [limits EXCEPT ![p] = Rolled(limits[p], target[r])]

LEMMA StoreStep ==
  ASSUME NEW r \in Requests, TInv, Handler(r) \/ Fault(r)
  PROVE  UNCHANGED limits \/ \E p \in Principals : Stored(r, p)
  <1>1. CASE RollWins(r)
    <2>1. /\ limits[Loading(r)] # NoRow
          /\ limits' = [limits EXCEPT ![Loading(r)] = Rolled(limits[Loading(r)], target[r])]
      BY <1>1, Zenon DEF RollWins, CanRoll
    <2>2. Loading(r) \in Principals
      BY <1>1 DEF RollWins, Loading, TInv, TypeOK, Control, Framed
    <2> QED
      BY <1>1, <2>1, <2>2, Zenon DEF Stored
  <1> DEFINE p == Entry(r).who
  <1>2. Reserved(r) \in Int /\ Delta(r) \in Int
    <2>1. Reserved(r) \in Nat
      BY LimitsAssumption DEF TInv, TypeOK, Reserved
    <2>2. bill[r] \in Nat
      BY DEF TInv, TypeOK
    <2> QED BY <2>1, <2>2 DEF Delta
  <1>3. CASE Reserve(r)
    <2>1. CASE Reserved(r) > 0
      <3>1. /\ limits[p] # NoRow
            /\ limits' = [limits EXCEPT ![p] = Charged(limits[p], Reserved(r))]
        BY <1>3, <2>1, Zenon DEF Reserve, Reservable
      <3>2. p \in Principals
        BY <1>3, EntryType DEF Reserve
      <3> QED
        BY <1>2, <3>1, <3>2, Zenon DEF Stored
    <2>2. CASE ~(Reserved(r) > 0)
      BY <1>3, <2>2, Zenon DEF Reserve
    <2> QED BY <2>1, <2>2
  <1>4. CASE SettleRow(r)
    <2>1. CASE Delta(r) # 0 /\ limits[p] # NoRow
      <3>1. limits' = [limits EXCEPT ![p] = Charged(limits[p], Delta(r))]
        BY <1>4, <2>1, Zenon DEF SettleRow
      <3>2. p \in Principals
        BY <1>4, EntryType DEF SettleRow
      <3> QED
        BY <1>2, <2>1, <3>1, <3>2, Zenon DEF Stored
    <2>2. CASE ~(Delta(r) # 0 /\ limits[p] # NoRow)
      BY <1>4, <2>2, Zenon DEF SettleRow
    <2> QED BY <2>1, <2>2
  <1>5. CASE Mark(r)
    <2>1. CASE CanMark(p)
      <3>1. limits[p] # NoRow /\ limits' = [limits EXCEPT ![p] = Marked(limits[p])]
        BY <1>5, <2>1, Zenon DEF Mark, CanMark
      <3>2. p \in Principals
        BY <1>5, EntryType DEF Mark
      <3> QED
        BY <3>1, <3>2, Zenon DEF Stored
    <2>2. CASE ~CanMark(p)
      BY <1>5, <2>2, Zenon DEF Mark
    <2> QED BY <2>1, <2>2
  <1>6. CASE ~RollWins(r) /\ ~Reserve(r) /\ ~SettleRow(r) /\ ~Mark(r)
    <2>1. Begin(r) => UNCHANGED limits
      BY <1>6, Zenon DEF Begin, Start, TurnedAway, LoadNothing, LoadOpen, LoadLapsed,
        RollLoses, Reload, Check, ModelRefused, Admit, SlotRefused, RateRefused,
        ReserveRefused, shared
    <2>2. Finish(r) => UNCHANGED limits
      BY <1>6, Zenon DEF Finish, Deliver, DispatchFails, Free, shared
    <2>3. Fault(r) => UNCHANGED limits
      BY Zenon DEF Fault, LoadFails, ReserveFails, SettleFails, MarkFails, Disconnect, shared
    <2> QED BY <2>1, <2>2, <2>3 DEF Handler
  <1> QED
    BY <1>1, <1>3, <1>4, <1>5, <1>6

LEMMA ConfigStep ==
  ASSUME NEW r \in Requests, TInv, Handler(r) \/ Fault(r)
  PROVE  SameConfig
  <1>1. CASE UNCHANGED limits
    BY <1>1 DEF SameConfig
  <1>2. CASE \E p \in Principals : Stored(r, p)
    <2>1. PICK p \in Principals : Stored(r, p)
      BY <1>2
    <2>2. limits[p] \in Row /\ limits[p] # NoRow
      BY <2>1 DEF Stored, TInv, TypeOK
    <2>3. PICK row :
            /\ row.parallel = limits[p].parallel /\ row.dur = limits[p].dur
            /\ limits' = [limits EXCEPT ![p] = row]
      BY <2>1, <2>2, UpdatesKeepConfig, Zenon DEF Stored
    <2> QED BY <2>2, <2>3, StoreKeepsConfig DEF TInv
  <1> QED
    BY <1>1, <1>2, StoreStep

LEMMA ConfigKept ==
  ASSUME TypeOK, Table, SameConfig
  PROVE  /\ Table'
         /\ SlotCap /\ UNCHANGED inflight => SlotCap'
  BY DEF TypeOK, Table, SameConfig, Configured, SlotCap

\* A step of r leaves another handler's frame and slots alone.
LEMMA OtherKept ==
  ASSUME NEW s \in Requests, Sound(s), Grip(s), SameFor(s), slots'[s] = slots[s],
         UNCHANGED <<now, route>>
  PROVE  Sound(s)' /\ Grip(s)'
  BY DEF Sound, Grip, SameFor, Apart, Passed, Loading, Stale

\* The in-flight map moves only when a slot is taken or freed.
Slotted(r) == Admit(r) \/ RateRefused(r) \/ Free(r)

LEMMA Untouched ==
  ASSUME NEW r \in Requests, Handler(r) \/ Fault(r)
  PROVE  /\ UNCHANGED <<now, route>>
         /\ ~Slotted(r) => UNCHANGED <<inflight, slots>>
  <1>1. CASE Begin(r)
    BY <1>1, Zenon DEF Begin, Slotted, Start, TurnedAway, LoadNothing, LoadOpen, LoadLapsed,
      RollWins, RollLoses, Reload, Check, ModelRefused, Admit, SlotRefused, RateRefused,
      Reserve, ReserveRefused, Settle, shared, request
  <1>2. CASE Finish(r)
    BY <1>2, Zenon DEF Finish, Slotted, Deliver, DispatchFails, SettleRow, Mark, Free,
      Settle, shared, request
  <1>3. CASE Fault(r)
    BY <1>3, Zenon DEF Fault, LoadFails, ReserveFails, SettleFails, MarkFails, Disconnect,
      Settle, shared, request
  <1> QED
    BY <1>1, <1>2, <1>3 DEF Handler

----------------------------------------------------------------------------
(* Steps after admission, and returns *)

\* A step of r that ends after the admission loop.
Later(r) ==
  /\ pc'[r] \in {"reserve", "dispatch", "settle", "mark", "drop", "done"}
  /\ pc'[r] = "done" => slots'[r] = {}
  /\ snap'[r] = snap[r] \/ snap'[r] = <<>>
  /\ \A s \in Requests \ {r} : SameFor(s)

LEMMA LaterKept ==
  ASSUME NEW r \in Requests, Sound(r), Later(r)
  PROVE  Sound(r)' /\ Grip(r)'
  BY DEF Sound, Grip, Later, Apart, Early

LEMMA ReturnIsLater ==
  ASSUME NEW r \in Requests, TInv, Return(r)
  PROVE  Later(r)
  BY ReturnMoves DEF TInv, TypeOK, Placed, Local, Later, SameFor

LEMMA SettleIsLater ==
  ASSUME NEW r \in Requests, TInv, NEW amount, Settle(r, amount)
  PROVE  Later(r)
  <1>1. CASE top[r] = 0
    <2>1. Return(r)
      BY <1>1 DEF Settle
    <2> QED BY <2>1, ReturnIsLater
  <1>2. CASE top[r] # 0
    <2>1. Enter(r, "settle") /\ UNCHANGED <<snap, target, top>>
      BY <1>2 DEF Settle
    <2> QED
      BY <2>1, EnterMoves DEF TInv, TypeOK, Placed, Steps, Later, SameFor
  <1> QED BY <1>1, <1>2

LEMMA NextChargedIsLater ==
  ASSUME NEW r \in Requests, TInv, NextCharged(r)
  PROVE  Later(r)
  <1>1. CASE Return(r)
    BY <1>1, ReturnIsLater
  <1>2. CASE /\ at[r] < top[r] /\ pc'[r] = "settle" /\ at'[r] = at[r] + 1
             /\ UNCHANGED <<snap, target, top>>
    BY <1>2, NextChargedMoves DEF TInv, TypeOK, Placed, Local, Later, SameFor
  <1> QED
    BY <1>1, <1>2, NextChargedMoves DEF TInv, TypeOK, Placed, Local

LEMMA LaterSteps ==
  ASSUME NEW r \in Requests, TInv,
         \/ TurnedAway(r) \/ ModelRefused(r) \/ SlotRefused(r) \/ RateRefused(r)
         \/ Reserve(r) \/ ReserveRefused(r) \/ Finish(r) \/ Fault(r)
  PROVE  Later(r)
  <1>0. Placed /\ Local
    BY DEF TInv, TypeOK, Placed, Local
  <1>1. CASE \/ TurnedAway(r) \/ ModelRefused(r) \/ SlotRefused(r) \/ RateRefused(r)
             \/ LoadFails(r) \/ Disconnect(r)
    BY <1>1, ReturnIsLater, Zenon DEF TurnedAway, ModelRefused, SlotRefused, RateRefused,
      LoadFails, Disconnect
  <1>2. CASE ReserveRefused(r) \/ ReserveFails(r) \/ Deliver(r) \/ DispatchFails(r)
    BY <1>2, SettleIsLater, Zenon DEF ReserveRefused, ReserveFails, Deliver, DispatchFails
  <1>3. CASE SettleFails(r) \/ Mark(r) \/ MarkFails(r)
    BY <1>3, NextChargedIsLater, Zenon DEF SettleFails, Mark, MarkFails
  <1>4. CASE Reserve(r)
    <2>1. /\ Advance(r, "reserve", Len(snap[r]), "dispatch") /\ UNCHANGED snap
          /\ top' = [top EXCEPT ![r] = at[r]]
      BY <1>4, Zenon DEF Reserve
    <2>2. Len(snap[r]) \in Nat
      BY <1>0 DEF Local
    <2> QED
      BY <1>0, <2>1, <2>2, AdvanceMoves DEF Later, SameFor, Steps, Local
  <1>5. CASE SettleRow(r)
    <2>1. CASE Crosses(r)
      <3>1. Goto(r, "mark") /\ UNCHANGED <<snap, target, at, top>>
        BY <1>5, <2>1, Zenon DEF SettleRow, frame
      <3> QED
        BY <1>0, <3>1 DEF Goto, Placed, Later, SameFor
    <2>2. CASE ~Crosses(r)
      <3>1. NextCharged(r)
        BY <1>5, <2>2, Zenon DEF SettleRow
      <3> QED BY <3>1, NextChargedIsLater
    <2> QED BY <2>1, <2>2
  <1>6. CASE Free(r)
    <2>1. /\ pc' = [pc EXCEPT ![r] = IF slots'[r] = {} THEN "done" ELSE "drop"]
          /\ UNCHANGED <<snap, at, top>>
      BY <1>6, Zenon DEF Free, Goto, frame
    <2> QED
      BY <1>0, <2>1 DEF Placed, Later, SameFor
  <1> QED
    BY <1>1, <1>2, <1>3, <1>4, <1>5, <1>6 DEF Finish, Fault

----------------------------------------------------------------------------
(* Steps up to admission *)

\* A step of r that keeps its frame sound and touches no other handler.
Kept(r) == Sound(r)' /\ Grip(r)' /\ \A s \in Requests \ {r} : SameFor(s)

\* What a round of the load loop leads to.
LoadRound(r) ==
  /\ \/ at[r] < Len(route[r]) /\ pc'[r] = "load" /\ at'[r] = at[r] + 1
     \/ pc'[r] = "check" /\ at'[r] = 1
  /\ \A s \in Requests \ {r} : pc'[s] = pc[s] /\ at'[s] = at[s]

LEMMA LoadRounds ==
  ASSUME NEW r \in Requests, TInv, Advance(r, "load", Len(route[r]), "check")
  PROVE  LoadRound(r)
  <1>1. Placed /\ Len(route[r]) \in Nat
    BY DEF TInv, TypeOK, Placed
  <1> QED
    BY <1>1, AdvanceMoves DEF Steps, LoadRound

\* The principal being loaded is none of those passed.
LEMMA LoadingIsNew ==
  ASSUME NEW r \in Requests, TInv, pc[r] \in {"load", "roll", "reload"},
         NEW k \in 1 .. at[r] - 1
  PROVE  Loading(r) # route[r][k]
  <1>1. /\ route[r] \in Routes /\ at[r] \in 1 .. Len(route[r])
        /\ Len(route[r]) \in Nat
    BY LimitsAssumption DEF TInv, TypeOK, Control, Framed
  <1>2. k \in 1 .. Len(route[r]) /\ k # at[r]
    BY <1>1
  <1> QED
    BY <1>1, <1>2, RoutesAssumption DEF Loading

LEMMA StartKept ==
  ASSUME NEW r \in Requests, HInv, Start(r)
  PROVE  Kept(r)
  <1>1. PICK step \in {"check", "load"} : Enter(r, step)
    BY DEF Start
  <1>2. /\ pc'[r] = step /\ \A s \in Requests \ {r} : SameFor(s)
    BY <1>1, EnterMoves DEF Start, HInv, TInv, TypeOK, Placed, Steps, SameFor
  <1>3. snap[r] = <<>> /\ slots[r] = {} /\ UNCHANGED <<snap, slots>>
    BY DEF Start, HInv, Sound, Grip, Early
  <1> QED
    BY <1>2, <1>3 DEF Kept, Sound, Grip, Apart, Passed

LEMMA LoadNothingKept ==
  ASSUME NEW r \in Requests, HInv, LoadNothing(r)
  PROVE  Kept(r)
  <1>1. LoadRound(r)
    BY LoadRounds DEF LoadNothing, HInv
  <1>2. /\ UNCHANGED <<snap, route, top, slots>> /\ pc[r] = "load"
        /\ Sound(r) /\ slots[r] = {} /\ at[r] \in Nat
    BY DEF LoadNothing, HInv, TInv, TypeOK, Grip, Early, request
  <1>3. pc'[r] = "load" => Passed(r, Len(snap[r]))'
    BY <1>1, <1>2 DEF LoadRound, Sound, Passed
  <1>4. Sound(r)'
    BY <1>1, <1>2, <1>3 DEF LoadRound, Sound, Apart
  <1> QED
    BY <1>1, <1>2, <1>4 DEF LoadRound, Kept, Grip, SameFor

\* A row is loaded: it is that of a new principal.
LEMMA KeepSound ==
  ASSUME NEW r \in Requests, HInv, pc[r] = "load", limits[Loading(r)] # NoRow, Keep(r)
  PROVE  /\ Len(snap'[r]) = Len(snap[r]) + 1
         /\ \A i \in 1 .. Len(snap[r]) : snap'[r][i] = snap[r][i]
         /\ snap'[r][Len(snap[r]) + 1].who = Loading(r)
         /\ snap'[r][Len(snap[r]) + 1].row = limits[Loading(r)]
         /\ Apart(r)'
         /\ \A s \in Requests \ {r} : snap'[s] = snap[s]
  <1> DEFINE n == Len(snap[r])
             entry == [who |-> Loading(r), row |-> limits[Loading(r)]]
  <1>1. /\ snap \in [Requests -> Seq(Loaded)] /\ snap[r] \in Seq(Loaded)
        /\ n \in Nat /\ at[r] \in Nat
    BY DEF HInv, TInv, TypeOK
  <1>2. Loading(r) \in Principals /\ limits[Loading(r)] \in Row
    BY DEF HInv, TInv, TypeOK, Control, Framed, Loading
  <1>3. entry.who = Loading(r) /\ entry.row = limits[Loading(r)] /\ entry \in Loaded
    BY <1>2 DEF Loaded
  <1>4. snap' = [snap EXCEPT ![r] = Append(snap[r], entry)]
    BY Zenon DEF Keep
  <1> HIDE DEF entry
  <1>5. /\ Len(snap'[r]) = n + 1
        /\ \A i \in 1 .. n : snap'[r][i] = snap[r][i]
        /\ snap'[r][n + 1] = entry
        /\ \A s \in Requests \ {r} : snap'[s] = snap[s]
    BY <1>1, <1>3, <1>4
  <1>6. \A i \in 1 .. n : snap[r][i].who # Loading(r)
    <2>1. \A i \in 1 .. n : \E k \in 1 .. at[r] - 1 : snap[r][i].who = route[r][k]
      BY DEF HInv, Sound, Passed
    <2> QED BY <2>1, LoadingIsNew DEF HInv
  <1>7. Apart(r)'
    <2>1. \A i, j \in 1 .. n : snap[r][i].who = snap[r][j].who => i = j
      BY DEF HInv, Sound, Apart
    <2>2. SUFFICES ASSUME NEW i \in 1 .. n + 1, NEW j \in 1 .. n + 1,
                          snap'[r][i].who = snap'[r][j].who
                   PROVE  i = j
      BY <1>5 DEF Apart
    <2>3. \A k \in 1 .. n + 1 : k \in 1 .. n \/ k = n + 1
      BY <1>1
    <2>4. snap'[r][n + 1].who = Loading(r)
      BY <1>3, <1>5
    <2>5. \A k \in 1 .. n : snap'[r][k].who = snap[r][k].who
      BY <1>5
    <2> QED BY <1>6, <2>1, <2>2, <2>3, <2>4, <2>5, Zenon
  <1> QED
    BY <1>3, <1>5, <1>7

LEMMA LoadOpenKept ==
  ASSUME NEW r \in Requests, HInv, LoadOpen(r)
  PROVE  Kept(r)
  <1>1. LoadRound(r)
    BY LoadRounds DEF LoadOpen, HInv
  <1>2. /\ UNCHANGED <<route, top, slots>> /\ pc[r] = "load"
        /\ Sound(r) /\ slots[r] = {} /\ at[r] \in Nat /\ at[r] > 0 /\ Len(snap[r]) \in Nat
    BY DEF LoadOpen, HInv, TInv, TypeOK, Grip, Early, request, Control, Framed
  <1>3. /\ Len(snap'[r]) = Len(snap[r]) + 1
        /\ \A i \in 1 .. Len(snap[r]) : snap'[r][i] = snap[r][i]
        /\ snap'[r][Len(snap[r]) + 1].who = Loading(r)
        /\ Apart(r)'
        /\ \A s \in Requests \ {r} : snap'[s] = snap[s]
    BY KeepSound DEF LoadOpen
  <1>4. ASSUME pc'[r] = "load"
        PROVE  Passed(r, Len(snap[r]))'
    <2>1. at'[r] - 1 = at[r] /\ route' = route
      BY <1>1, <1>2, <1>4 DEF LoadRound
    <2>2. \A i \in 1 .. Len(snap[r]) : \E k \in 1 .. at[r] - 1 : snap[r][i].who = route[r][k]
      BY <1>2 DEF Sound, Passed
    <2>3. SUFFICES ASSUME NEW i \in 1 .. Len(snap[r]) + 1
                   PROVE  \E k \in 1 .. at[r] : snap'[r][i].who = route[r][k]
      BY <1>3, <2>1, Zenon DEF Passed
    <2>4. CASE i \in 1 .. Len(snap[r])
      BY <1>2, <1>3, <2>2, <2>4
    <2>5. CASE i = Len(snap[r]) + 1
      BY <1>2, <1>3, <2>5 DEF Loading
    <2> QED BY <1>2, <2>3, <2>4, <2>5
  <1>5. Sound(r)'
    BY <1>1, <1>3, <1>4 DEF LoadRound, Sound
  <1> QED
    BY <1>1, <1>2, <1>3, <1>5 DEF LoadRound, Kept, Grip, SameFor

LEMMA LoadLapsedKept ==
  ASSUME NEW r \in Requests, HInv, LoadLapsed(r)
  PROVE  Kept(r)
  <1>1. /\ pc'[r] = "roll" /\ UNCHANGED <<now, at, top, route, slots>> /\ pc[r] = "load"
        /\ \A s \in Requests \ {r} : pc'[s] = pc[s]
    BY DEF LoadLapsed, Goto, HInv, TInv, TypeOK, request
  <1>2. /\ Sound(r) /\ slots[r] = {} /\ Len(snap[r]) \in Nat
    BY <1>1 DEF HInv, TInv, TypeOK, Grip, Early
  <1>3. /\ Len(snap'[r]) = Len(snap[r]) + 1
        /\ \A i \in 1 .. Len(snap[r]) : snap'[r][i] = snap[r][i]
        /\ snap'[r][Len(snap[r]) + 1].who = Loading(r)
        /\ snap'[r][Len(snap[r]) + 1].row = limits[Loading(r)]
        /\ Apart(r)'
        /\ \A s \in Requests \ {r} : snap'[s] = snap[s]
    BY KeepSound DEF LoadLapsed
  <1>4. Passed(r, Len(snap[r]) - 1)'
    BY <1>1, <1>2, <1>3, SMTT(30) DEF Sound, Passed
  <1>5. snap'[r][Len(snap'[r])].who = Loading(r)'
    BY <1>1, <1>3 DEF Loading
  <1>6. Lapsed(Stale(r), now)'
    <2>1. Stale(r)' = limits[Loading(r)]
      BY <1>3 DEF Stale
    <2> QED BY <1>1, <2>1 DEF LoadLapsed, Lapsed
  <1>7. Sound(r)'
    BY <1>1, <1>3, <1>4, <1>5, <1>6 DEF Sound
  <1> QED
    BY <1>1, <1>2, <1>3, <1>7 DEF Kept, Grip, SameFor

\* The last loaded row is read again, or replaced by what the roll wrote.
LEMMA RereadSound ==
  ASSUME NEW r \in Requests, HInv, pc[r] \in {"roll", "reload"},
         NEW row \in Row,
         snap' = [snap EXCEPT ![r] = Reread(snap[r], row)]
  PROVE  /\ Len(snap'[r]) = Len(snap[r])
         /\ \A i \in 1 .. Len(snap[r]) : snap'[r][i].who = snap[r][i].who
         /\ \A i \in 1 .. Len(snap[r]) : i # Len(snap[r]) => snap'[r][i] = snap[r][i]
         /\ snap'[r][Len(snap[r])].row = row
         /\ \A s \in Requests \ {r} : snap'[s] = snap[s]
  <1>1. /\ snap \in [Requests -> Seq(Loaded)] /\ snap[r] \in Seq(Loaded) /\ Len(snap[r]) > 0
        /\ Sound(r)
    BY DEF HInv, TInv, TypeOK, Control, Framed
  <1>2. /\ Len(snap'[r]) = Len(snap[r])
        /\ \A i \in 1 .. Len(snap[r]) : snap'[r][i].who = snap[r][i].who
        /\ snap'[r][Len(snap[r])].row = row
        /\ \A s \in Requests \ {r} : snap'[s] = snap[s]
    BY <1>1, RereadType
  <1>3. \A i \in 1 .. Len(snap[r]) : i # Len(snap[r]) => snap'[r][i] = snap[r][i]
    BY <1>1 DEF Reread
  <1> QED
    BY <1>1, <1>2, <1>3 DEF Sound

\* Going on from a row that has been read again.
LEMMA ResumeKept ==
  ASSUME NEW r \in Requests, HInv, pc[r] \in {"roll", "reload"}, LoadRound(r),
         UNCHANGED <<route, top, slots>>,
         Len(snap'[r]) = Len(snap[r]),
         \A i \in 1 .. Len(snap[r]) : snap'[r][i].who = snap[r][i].who,
         \A s \in Requests \ {r} : snap'[s] = snap[s]
  PROVE  Kept(r)
  <1>1. /\ Sound(r) /\ slots[r] = {} /\ at[r] \in Nat /\ at[r] > 0
        /\ Len(snap[r]) \in Nat /\ Len(snap[r]) > 0
    BY DEF HInv, TInv, TypeOK, Grip, Early, Control, Framed
  <1>2. Apart(r)'
    BY <1>1 DEF Sound, Apart
  <1>3. ASSUME pc'[r] = "load"
        PROVE  Passed(r, Len(snap[r]))'
    <2>1. at'[r] = at[r] + 1
      BY <1>3 DEF LoadRound
    <2>2. \A i \in 1 .. Len(snap[r]) - 1 :
            \E k \in 1 .. at[r] - 1 : snap[r][i].who = route[r][k]
      BY <1>1 DEF Sound, Passed
    <2>3. snap[r][Len(snap[r])].who = route[r][at[r]]
      BY <1>1 DEF Sound, Loading
    <2>4. SUFFICES ASSUME NEW i \in 1 .. Len(snap[r])
                   PROVE  \E k \in 1 .. at[r] : snap[r][i].who = route[r][k]
      BY <1>1, <2>1 DEF Passed
    <2>5. CASE i \in 1 .. Len(snap[r]) - 1
      BY <1>1, <2>2, <2>5, SMTT(30)
    <2>6. CASE i = Len(snap[r])
      BY <1>1, <2>3, <2>6
    <2> QED BY <1>1, <2>4, <2>5, <2>6
  <1>4. Sound(r)'
    BY <1>2, <1>3 DEF LoadRound, Sound
  <1> QED
    BY <1>1, <1>4 DEF LoadRound, Kept, Grip, SameFor

LEMMA RollKept ==
  ASSUME NEW r \in Requests, HInv, RollWins(r) \/ RollLoses(r) \/ Reload(r)
  PROVE  Kept(r)
  <1>1. /\ Sound(r) /\ slots[r] = {} /\ snap[r] \in Seq(Loaded) /\ Len(snap[r]) > 0
        /\ Loading(r) \in Principals /\ snap[r][Len(snap[r])] \in Loaded
        /\ snap[r][Len(snap[r])].who = Loading(r)
        /\ target[r] \in Nat
    BY DEF RollWins, RollLoses, Reload, HInv, TInv, TypeOK, Grip, Early, Control, Framed,
      Loading, Sound
  <1>2. Stale(r) \in Row
    BY <1>1, Zenon DEF Stale, Loaded
  <1>3. CASE RollWins(r)
    <2>2. Rolled(Stale(r), target[r]) \in Row
      BY <1>1, <1>2, RowUpdates, 0 \in Int
    <2>3. /\ pc[r] = "roll" /\ UNCHANGED <<route, top, slots>>
          /\ Advance(r, "load", Len(route[r]), "check")
          /\ snap' = [snap EXCEPT ![r] = Reread(snap[r], Rolled(Stale(r), target[r]))]
      BY <1>3, Zenon DEF RollWins, request
    <2>4. LoadRound(r)
      BY <2>3, LoadRounds DEF HInv
    <2> QED
      BY <2>2, <2>3, <2>4, RereadSound, ResumeKept
  <1>4. CASE RollLoses(r)
    <2>1. /\ pc'[r] = "reload" /\ UNCHANGED <<now, snap, at, top, route, slots>> /\ pc[r] = "roll"
          /\ \A s \in Requests \ {r} : pc'[s] = pc[s]
      BY <1>4 DEF RollLoses, Goto, HInv, TInv, TypeOK, request
    <2>2. Sound(r)'
      BY <1>1, <2>1 DEF Sound, Apart, Passed, Loading
    <2> QED
      BY <1>1, <2>1, <2>2 DEF Kept, Grip, SameFor
  <1>5. CASE Reload(r)
    <2>1. /\ pc[r] = "reload" /\ UNCHANGED <<route, top, slots>>
          /\ Advance(r, "load", Len(route[r]), "check")
      BY <1>5, Zenon DEF Reload, request
    <2>2. LoadRound(r)
      BY <2>1, LoadRounds DEF HInv
    <2>3. CASE limits[Loading(r)] = NoRow
      <3>1. UNCHANGED snap
        BY <1>5, <2>3 DEF Reload, HInv, TInv, TypeOK
      <3> QED BY <1>1, <2>1, <2>2, <3>1, ResumeKept DEF Sound
    <2>4. CASE limits[Loading(r)] # NoRow
      <3>1. snap' = [snap EXCEPT ![r] = Reread(snap[r], limits[Loading(r)])]
        BY <1>5, <2>4, Zenon DEF Reload
      <3>2. limits[Loading(r)] \in Row
        BY <1>1, <2>4 DEF HInv, TInv, TypeOK
      <3> QED BY <2>1, <2>2, <3>1, <3>2, RereadSound, ResumeKept
    <2> QED BY <2>3, <2>4
  <1> QED
    BY <1>3, <1>4, <1>5

LEMMA CheckKept ==
  ASSUME NEW r \in Requests, HInv, Check(r)
  PROVE  Kept(r)
  <1>1. PICK step \in {"dispatch", "admit"} : Enter(r, step)
    BY DEF Check
  <1>2. /\ pc'[r] = step /\ UNCHANGED <<snap, slots, top>>
        /\ \A s \in Requests \ {r} : SameFor(s)
    BY <1>1, EnterMoves DEF Check, HInv, TInv, TypeOK, Placed, Steps, SameFor
  <1>3. Sound(r) /\ slots[r] = {}
    BY DEF Check, HInv, Grip, Early
  <1> QED
    BY <1>2, <1>3 DEF Kept, Sound, Grip, Apart, Early

\* Admission takes a slot that the handler does not hold yet.
LEMMA SlotIsNew ==
  ASSUME NEW r \in Requests, HInv, pc[r] = "admit"
  PROVE  Entry(r).who \notin slots[r]
  <1>1. at[r] \in 1 .. Len(snap[r]) /\ Len(snap[r]) \in Nat /\ Apart(r)
    BY DEF HInv, TInv, TypeOK, Control, Framed, Sound
  <1>2. \A p \in slots[r] : \E j \in 1 .. at[r] - 1 : snap[r][j].who = p
    BY DEF HInv, Grip
  <1>3. \A j \in 1 .. at[r] - 1 : snap[r][j].who # snap[r][at[r]].who
    BY <1>1 DEF Apart
  <1> QED
    BY <1>2, <1>3 DEF Entry

LEMMA AdmitKept ==
  ASSUME NEW r \in Requests, HInv, Admit(r)
  PROVE  Kept(r)
  <1>1. /\ Placed /\ Len(snap[r]) \in Nat /\ UNCHANGED <<snap, top>>
        /\ Advance(r, "admit", Len(snap[r]), "reserve") /\ Sound(r)
    BY DEF Admit, HInv, TInv, TypeOK, Placed
  <1>2. /\ \/ at[r] < Len(snap[r]) /\ pc'[r] = "admit" /\ at'[r] = at[r] + 1
           \/ pc'[r] = "reserve" /\ at'[r] = 1
        /\ \A s \in Requests \ {r} : SameFor(s)
    BY <1>1, AdvanceMoves DEF Steps, SameFor
  <1>3. slots'[r] \subseteq slots[r] \cup {Entry(r).who}
    <2>1. CASE Entry(r).row.parallel = Nil
      <3>1. UNCHANGED slots
        BY <2>1, Zenon DEF Admit, TakeSlot
      <3> QED BY <3>1
    <2>2. CASE Entry(r).row.parallel # Nil
      <3>1. slots' = [slots EXCEPT ![r] = slots[r] \cup {Entry(r).who}]
        BY <2>2, Zenon DEF Admit, TakeSlot
      <3> QED BY <3>1 DEF HInv, TInv, TypeOK
    <2> QED BY <2>1, <2>2
  <1>4. \A p \in slots[r] : \E j \in 1 .. at[r] - 1 : snap[r][j].who = p
    BY DEF Admit, HInv, Grip
  <1>5. at[r] \in Nat /\ at[r] > 0
    BY DEF Admit, HInv, TInv, TypeOK, Control, Framed
  <1>6. \A p \in slots'[r] : \E j \in 1 .. at[r] : snap[r][j].who = p
    BY <1>3, <1>4, <1>5 DEF Entry
  <1>7. Sound(r)'
    BY <1>1, <1>2 DEF Sound, Apart
  <1>8. Grip(r)'
    <2>1. CASE pc'[r] = "admit" /\ at'[r] = at[r] + 1
      <3>1. at'[r] - 1 = at[r]
        BY <1>5, <2>1
      <3>2. \A p \in slots'[r] : \E j \in 1 .. at'[r] - 1 : snap'[r][j].who = p
        BY <1>1, <1>6, <3>1
      <3> QED BY <2>1, <3>2, Zenon DEF Grip, Early
    <2>2. CASE pc'[r] = "reserve"
      BY <2>2, Zenon DEF Grip, Early
    <2> QED BY <1>2, <2>1, <2>2
  <1> QED
    BY <1>2, <1>7, <1>8 DEF Kept

LEMMA FramesKept ==
  ASSUME NEW r \in Requests, HInv, Handler(r) \/ Fault(r)
  PROVE  Kept(r)
  <1>1. CASE Later(r)
    BY <1>1, LaterKept DEF Later, Kept, HInv
  <1>2. CASE ~Later(r)
    BY <1>2, LaterSteps, StartKept, LoadNothingKept, LoadOpenKept, LoadLapsedKept,
       RollKept, CheckKept, AdmitKept DEF HInv, Handler, Begin
  <1> QED
    BY <1>1, <1>2

----------------------------------------------------------------------------
(* The in-flight map *)

\* Who holds a slot of p after r's own slots changed.
LEMMA HoldersTake ==
  ASSUME NEW r \in Requests, HInv, NEW p \in Principals, p \notin slots[r],
         slots' = [slots EXCEPT ![r] = slots[r] \cup {p}],
         inflight' = [inflight EXCEPT ![p] = inflight[p] + 1]
  PROVE  Counted'
  <1>1. SUFFICES ASSUME NEW q \in Principals
                 PROVE  inflight'[q] = Cardinality(Holders(q)')
    BY DEF Counted
  <1>2. inflight[q] = Cardinality(Holders(q)) /\ IsFiniteSet(Holders(q)) /\ inflight[q] \in Nat
    <2>1. Holders(q) \subseteq Requests
      BY DEF Holders
    <2> QED BY <2>1, FS_Subset, LimitsAssumption DEF HInv, Counted, TInv, TypeOK
  <1>3. CASE q = p
    <2>1. Holders(q)' = Holders(q) \cup {r} /\ r \notin Holders(q)
      BY <1>3 DEF Holders, HInv, TInv, TypeOK
    <2>2. inflight'[q] = inflight[q] + 1
      BY <1>3 DEF HInv, TInv, TypeOK
    <2>3. Cardinality(Holders(q) \cup {r}) = Cardinality(Holders(q)) + 1
      BY <1>2, <2>1, FS_AddElement
    <2> QED
      BY <1>2, <2>1, <2>2, <2>3
  <1>4. CASE q # p
    <2>1. Holders(q)' = Holders(q)
      BY <1>4 DEF Holders, HInv, TInv, TypeOK
    <2> QED
      BY <1>2, <1>4, <2>1 DEF HInv, TInv, TypeOK
  <1> QED
    BY <1>3, <1>4

LEMMA HoldersFree ==
  ASSUME NEW r \in Requests, HInv, NEW p \in slots[r],
         slots' = [slots EXCEPT ![r] = slots[r] \ {p}],
         inflight' = [inflight EXCEPT ![p] = IF inflight[p] = 0 THEN 0 ELSE inflight[p] - 1]
  PROVE  Counted' /\ \A q \in Principals : inflight'[q] <= inflight[q]
  <1>0. p \in Principals
    BY DEF HInv, TInv, TypeOK
  <1>1. \A q \in Principals :
          /\ inflight[q] = Cardinality(Holders(q)) /\ IsFiniteSet(Holders(q))
          /\ inflight[q] \in Nat
    <2>1. \A q \in Principals : Holders(q) \subseteq Requests
      BY DEF Holders
    <2> QED BY <2>1, FS_Subset, LimitsAssumption DEF HInv, Counted, TInv, TypeOK
  <1>2. r \in Holders(p) /\ Holders(p)' = Holders(p) \ {r}
    BY <1>0 DEF Holders, HInv, TInv, TypeOK
  <1>3. /\ Cardinality(Holders(p)') = Cardinality(Holders(p)) - 1
        /\ inflight[p] # 0
    <2>1. Holders(p) # {}
      BY <1>2
    <2>2. Cardinality(Holders(p)) # 0
      BY <1>0, <1>1, <2>1, FS_EmptySet
    <2> QED BY <1>0, <1>1, <1>2, <2>2, FS_RemoveElement
  <1>4. \A q \in Principals \ {p} : Holders(q)' = Holders(q) /\ inflight'[q] = inflight[q]
    BY DEF Holders, HInv, TInv, TypeOK
  <1>5. inflight'[p] = inflight[p] - 1
    <2>1. inflight' = [inflight EXCEPT ![p] = inflight[p] - 1]
      BY <1>3
    <2> QED BY <1>0, <2>1 DEF HInv, TInv, TypeOK
  <1>6. Counted'
    BY <1>0, <1>1, <1>3, <1>4, <1>5 DEF Counted
  <1> QED
    BY <1>0, <1>1, <1>4, <1>5, <1>6

\* What a step of a handler does to the map: nothing, take a slot that HasRoom found
\* below the cap of the row as it was read, or free one.
Takes(r) ==
  LET p == Entry(r).who IN
  /\ pc[r] = "admit" /\ UNCHANGED limits
  /\ Entry(r).row.parallel # Nil /\ inflight[p] < Entry(r).row.parallel
  /\ inflight' = [inflight EXCEPT ![p] = inflight[p] + 1]

Frees == UNCHANGED limits /\ \A q \in Principals : inflight'[q] <= inflight[q]

LEMMA TakeCounts ==
  ASSUME NEW r \in Requests, HInv, pc[r] = "admit", HasRoom(r), TakeSlot(r),
         UNCHANGED limits
  PROVE  /\ Counted' /\ (UNCHANGED inflight \/ Takes(r))
         /\ \A s \in Requests \ {r} : slots'[s] = slots[s]
  <1> DEFINE p == Entry(r).who
  <1>1. p \in Principals /\ p \notin slots[r] /\ Entry(r).row \in Row
    BY EntryType, SlotIsNew DEF HInv
  <1>2. CASE Entry(r).row.parallel = Nil
    <2>1. UNCHANGED <<inflight, slots>>
      BY <1>2, Zenon DEF TakeSlot
    <2> QED BY <2>1 DEF HInv, Counted, Holders
  <1>3. CASE Entry(r).row.parallel # Nil
    <2>1. /\ inflight' = [inflight EXCEPT ![p] = inflight[p] + 1]
          /\ slots' = [slots EXCEPT ![r] = slots[r] \cup {p}]
      BY <1>3, Zenon DEF TakeSlot
    <2>2. Counted'
      BY <1>1, <2>1, HoldersTake
    <2>3. Takes(r)
      BY <1>3, <2>1, Zenon DEF Takes, HasRoom
    <2>4. \A s \in Requests \ {r} : slots'[s] = slots[s]
      BY <2>1 DEF HInv, TInv, TypeOK
    <2> QED BY <2>2, <2>3, <2>4
  <1> QED
    BY <1>2, <1>3

LEMMA MapKept ==
  ASSUME NEW r \in Requests, HInv, Handler(r) \/ Fault(r)
  PROVE  /\ Counted' /\ (UNCHANGED inflight \/ Takes(r) \/ Frees)
         /\ \A s \in Requests \ {r} : slots'[s] = slots[s]
  <1>1. CASE ~Slotted(r)
    <2>1. UNCHANGED <<inflight, slots>>
      BY <1>1, Untouched
    <2> QED BY <2>1 DEF HInv, Counted, Holders
  <1>2. CASE Admit(r) \/ RateRefused(r)
    <2>1. pc[r] = "admit" /\ HasRoom(r) /\ TakeSlot(r) /\ UNCHANGED limits
      BY <1>2, Zenon DEF Admit, RateRefused
    <2> QED BY <2>1, TakeCounts
  <1>3. CASE Free(r)
    <2>1. PICK p \in slots[r] :
            /\ inflight' = [inflight EXCEPT ![p] = IF inflight[p] = 0 THEN 0 ELSE inflight[p] - 1]
            /\ slots' = [slots EXCEPT ![r] = slots[r] \ {p}]
      BY <1>3, Zenon DEF Free
    <2>2. UNCHANGED limits
      BY <1>3, Zenon DEF Free
    <2>3. Counted' /\ \A q \in Principals : inflight'[q] <= inflight[q]
      BY <2>1, HoldersFree
    <2>4. \A s \in Requests \ {r} : slots'[s] = slots[s]
      BY <2>1 DEF HInv, TInv, TypeOK
    <2> QED BY <2>2, <2>3, <2>4 DEF Frees
  <1> QED
    BY <1>1, <1>2, <1>3 DEF Slotted

----------------------------------------------------------------------------
(* What handlers hold *)

LEMMA HoldHandler ==
  ASSUME NEW r \in Requests, HInv, Handler(r) \/ Fault(r)
  PROVE  HInv'
  <1>1. TInv'
    BY TypeHandler DEF HInv
  <1>2. Counted' /\ \A s \in Requests \ {r} : slots'[s] = slots[s]
    BY MapKept
  <1>3. ASSUME NEW s \in Requests
        PROVE  Sound(s)' /\ Grip(s)'
    <2>1. CASE s = r
      BY <2>1, FramesKept DEF Kept
    <2>2. CASE s # r
      BY <1>2, <2>2, FramesKept, Untouched, OtherKept DEF Kept, HInv
    <2> QED BY <2>1, <2>2
  <1> QED
    BY <1>1, <1>2, <1>3 DEF HInv

LEMMA HoldEnvironment ==
  ASSUME HInv, Crash \/ Tick \/ UNCHANGED vars
  PROVE  HInv'
  <1>0. TInv'
    BY TypeEnvironment DEF HInv
  <1>1. CASE Crash
    <2>1. /\ inflight' = [p \in Principals |-> 0]
          /\ \A r \in Requests :
               slots'[r] = {} /\ snap'[r] = <<>> /\ pc'[r] \in {"idle", "done"}
      BY <1>1 DEF Crash
    <2>2. \A r \in Requests : Sound(r)' /\ Grip(r)'
      BY <2>1 DEF Sound, Grip, Apart, Early
    <2>3. \A p \in Principals : Holders(p)' = {}
      BY <2>1 DEF Holders
    <2>4. Counted'
      BY <2>1, <2>3, FS_EmptySet DEF Counted
    <2> QED BY <1>0, <2>2, <2>4 DEF HInv
  <1>2. CASE Tick
    <2>1. /\ now' = now + 1
          /\ UNCHANGED <<inflight, pc, route, snap, at, slots>>
      BY <1>2 DEF Tick, shared, request, frame
    <2>2. Counted'
      BY <2>1 DEF HInv, Counted, Holders
    <2>3. ASSUME NEW r \in Requests
          PROVE  Sound(r)' /\ Grip(r)'
      <3>1. Grip(r)'
        BY <2>1 DEF HInv, Grip
      <3>2. pc[r] = "roll" => Lapsed(Stale(r), now)'
        <4>1. SUFFICES ASSUME pc[r] = "roll" PROVE Lapsed(Stale(r), now)'
          OBVIOUS
        <4>2. Stale(r)' = Stale(r)
          BY <2>1 DEF Stale
        <4>3. Lapsed(Stale(r), now) /\ Stale(r) \in Row /\ now \in Nat
          <5>1. snap[r][Len(snap[r])] \in Loaded
            BY <4>1 DEF HInv, TInv, TypeOK, Control, Framed
          <5>2. Stale(r) \in Row
            BY <5>1, Zenon DEF Stale, Loaded
          <5> QED BY <4>1, <5>2 DEF HInv, Sound, TInv, TypeOK
        <4>4. Stale(r).resetAt \in Nat
          BY <4>3 DEF Lapsed, Row, Optional
        <4> QED BY <2>1, <4>2, <4>3, <4>4 DEF Lapsed
      <3> QED BY <2>1, <3>1, <3>2 DEF HInv, Sound, Apart, Passed, Loading
    <2> QED BY <1>0, <2>2, <2>3 DEF HInv
  <1>3. CASE UNCHANGED vars
    <2>1. UNCHANGED <<now, inflight, pc, route, snap, at, slots>>
      BY <1>3 DEF vars, shared, request, frame
    <2>2. Counted'
      BY <2>1 DEF HInv, Counted, Holders
    <2>3. \A r \in Requests : Sound(r)' /\ Grip(r)'
      BY <2>1 DEF HInv, Sound, Grip, Apart, Passed, Loading, Stale
    <2> QED BY <1>0, <2>2, <2>3 DEF HInv
  <1> QED
    BY <1>1, <1>2, <1>3

----------------------------------------------------------------------------
(* Caps *)

\* A step that loads no row leaves r with rows that agree.
LEMMA SameAgreed ==
  ASSUME NEW r \in Requests, Agreed(r), snap'[r] = snap[r] \/ snap'[r] = <<>>
  PROVE  Agreed(r)'
  <1>1. CASE snap'[r] = snap[r]
    BY <1>1 DEF Agreed, Configured
  <1>2. CASE snap'[r] = <<>>
    BY <1>2 DEF Agreed
  <1> QED
    BY <1>1, <1>2

LEMMA LoadAgreed ==
  ASSUME NEW r \in Requests, SInv, LoadOpen(r) \/ LoadLapsed(r)
  PROVE  Agreed(r)'
  <1>1. pc[r] = "load" /\ limits[Loading(r)] # NoRow /\ Keep(r)
    BY DEF LoadOpen, LoadLapsed
  <1>2. /\ Len(snap'[r]) = Len(snap[r]) + 1 /\ Len(snap[r]) \in Nat
        /\ \A i \in 1 .. Len(snap[r]) : snap'[r][i] = snap[r][i]
        /\ snap'[r][Len(snap[r]) + 1].who = Loading(r)
        /\ snap'[r][Len(snap[r]) + 1].row = limits[Loading(r)]
    <2>1. HInv /\ Len(snap[r]) \in Nat
      BY DEF SInv, HInv, TInv, TypeOK
    <2> QED BY <1>1, <2>1, KeepSound
  <1>3. Loading(r) \in Principals
    BY <1>1 DEF SInv, HInv, TInv, TypeOK, Control, Framed, Loading
  <1>4. Configured(Loading(r), limits[Loading(r)])
    BY <1>1, <1>3 DEF SInv, Table
  <1>5. \A i \in 1 .. Len(snap[r]) : Configured(snap[r][i].who, snap[r][i].row)
    BY DEF SInv, Agreed
  <1>6. \A i \in 1 .. Len(snap[r]) + 1 : i \in 1 .. Len(snap[r]) \/ i = Len(snap[r]) + 1
    BY <1>2
  <1>7. \A i \in 1 .. Len(snap[r]) + 1 : Configured(snap'[r][i].who, snap'[r][i].row)
    BY <1>2, <1>4, <1>5, <1>6
  <1> QED
    BY <1>2, <1>7 DEF Agreed, Configured

LEMMA RereadAgreed ==
  ASSUME NEW r \in Requests, SInv, RollWins(r) \/ Reload(r)
  PROVE  Agreed(r)'
  <1>1. /\ pc[r] \in {"roll", "reload"} /\ snap[r] \in Seq(Loaded) /\ Len(snap[r]) > 0
        /\ Loading(r) \in Principals /\ snap[r][Len(snap[r])] \in Loaded
        /\ snap[r][Len(snap[r])].who = Loading(r)
        /\ target[r] \in Nat
    BY DEF RollWins, Reload, SInv, HInv, TInv, TypeOK, Control, Framed, Loading, Sound
  <1>2. Stale(r) \in Row
    BY <1>1, Zenon DEF Stale, Loaded
  <1>3. Configured(Loading(r), Stale(r))
    BY <1>1 DEF SInv, Agreed, Stale
  <1>4. ASSUME NEW row \in Row, Configured(Loading(r), row),
               snap' = [snap EXCEPT ![r] = Reread(snap[r], row)]
        PROVE  Agreed(r)'
    <2>1. /\ Len(snap'[r]) = Len(snap[r])
          /\ \A i \in 1 .. Len(snap[r]) : snap'[r][i].who = snap[r][i].who
          /\ \A i \in 1 .. Len(snap[r]) : i # Len(snap[r]) => snap'[r][i] = snap[r][i]
          /\ snap'[r][Len(snap[r])].row = row
      BY <1>1, <1>4, RereadSound DEF SInv
    <2>2. \A i \in 1 .. Len(snap[r]) : Configured(snap[r][i].who, snap[r][i].row)
      BY DEF SInv, Agreed
    <2>3. \A i \in 1 .. Len(snap[r]) : Configured(snap'[r][i].who, snap'[r][i].row)
      BY <1>1, <1>4, <2>1, <2>2
    <2> QED
      BY <2>1, <2>3 DEF Agreed, Configured
  <1>5. CASE RollWins(r)
    <2>1. Configured(Loading(r), Rolled(Stale(r), target[r]))
      BY <1>2, <1>3, UpdatesKeepConfig DEF Configured
    <2>2. Rolled(Stale(r), target[r]) \in Row
      BY <1>1, <1>2, RowUpdates, 0 \in Int
    <2>3. snap' = [snap EXCEPT ![r] = Reread(snap[r], Rolled(Stale(r), target[r]))]
      BY <1>5, Zenon DEF RollWins
    <2> QED BY <1>4, <2>1, <2>2, <2>3
  <1>6. CASE Reload(r)
    <2>1. CASE limits[Loading(r)] = NoRow
      <3>1. snap'[r] = snap[r]
        BY <1>6, <2>1 DEF Reload, SInv, HInv, TInv, TypeOK
      <3> QED BY <3>1, SameAgreed DEF SInv
    <2>2. CASE limits[Loading(r)] # NoRow
      <3>1. snap' = [snap EXCEPT ![r] = Reread(snap[r], limits[Loading(r)])]
        BY <1>6, <2>2, Zenon DEF Reload
      <3>2. limits[Loading(r)] \in Row /\ Configured(Loading(r), limits[Loading(r)])
        BY <1>1, <2>2 DEF SInv, Table, HInv, TInv, TypeOK
      <3> QED BY <1>4, <3>1, <3>2
    <2> QED BY <2>1, <2>2
  <1> QED
    BY <1>5, <1>6

LEMMA AgreedKept ==
  ASSUME NEW r \in Requests, SInv, Handler(r) \/ Fault(r)
  PROVE  Agreed(r)'
  <1>1. CASE Later(r)
    BY <1>1, SameAgreed DEF Later, SInv
  <1>2. CASE \/ Start(r) \/ LoadNothing(r) \/ RollLoses(r) \/ Check(r) \/ Admit(r)
    <2>1. UNCHANGED snap
      BY <1>2, Zenon DEF Start, LoadNothing, RollLoses, Check, Admit
    <2> QED BY <2>1, SameAgreed DEF SInv
  <1>3. CASE LoadOpen(r) \/ LoadLapsed(r)
    BY <1>3, LoadAgreed
  <1>4. CASE RollWins(r) \/ Reload(r)
    BY <1>4, RereadAgreed
  <1> QED
    BY <1>1, <1>2, <1>3, <1>4, LaterSteps DEF SInv, HInv, Handler, Begin

LEMMA CapKept ==
  ASSUME NEW r \in Requests, SInv, Handler(r) \/ Fault(r)
  PROVE  SlotCap'
  <1>1. CASE UNCHANGED inflight
    BY <1>1, ConfigStep, ConfigKept DEF SInv, HInv, TInv
  <1>2. CASE Takes(r)
    <2> DEFINE p == Entry(r).who
    <2>1. /\ p \in Principals /\ Entry(r).row \in Row /\ UNCHANGED limits
          /\ Entry(r).row.parallel # Nil /\ inflight[p] < Entry(r).row.parallel
          /\ inflight' = [inflight EXCEPT ![p] = inflight[p] + 1]
      BY <1>2, EntryType DEF Takes, SInv, HInv
    <2>2. Configured(p, Entry(r).row)
      <3>1. at[r] \in 1 .. Len(snap[r])
        BY <1>2, EntryType DEF Takes, SInv, HInv
      <3> QED BY <3>1 DEF SInv, Agreed, Entry
    <2>3. Entry(r).row.parallel \in Nat
      BY <2>1, LimitsAssumption DEF Row, Optional
    <2>4. SUFFICES ASSUME NEW q \in Principals, limits[q] # NoRow, limits[q].parallel # Nil
                   PROVE  inflight'[q] <= limits[q].parallel
      BY <2>1 DEF SlotCap
    <2>5. CASE q = p
      <3>1. limits[q].parallel = Entry(r).row.parallel
        BY <2>1, <2>2, <2>4, <2>5 DEF SInv, Table, Configured
      <3>2. inflight'[q] = inflight[p] + 1 /\ inflight[p] \in Nat
        BY <2>1, <2>5 DEF SInv, HInv, TInv, TypeOK
      <3> QED BY <2>1, <2>3, <3>1, <3>2
    <2>6. CASE q # p
      BY <2>1, <2>4, <2>6 DEF SInv, HInv, SlotCap, TInv, TypeOK
    <2> QED BY <2>5, <2>6
  <1>3. CASE Frees
    <2>1. SUFFICES ASSUME NEW q \in Principals, limits[q] # NoRow, limits[q].parallel # Nil
                   PROVE  inflight'[q] <= limits[q].parallel
      BY <1>3 DEF SlotCap, Frees
    <2>2. inflight[q] <= limits[q].parallel /\ inflight'[q] <= inflight[q]
      BY <1>3, <2>1 DEF SInv, SlotCap, Frees
    <2>3. inflight[q] \in Nat /\ inflight'[q] \in Nat
      BY TypeHandler DEF SInv, HInv, TInv, TypeOK
    <2>4. limits[q].parallel \in Nat
      BY <2>1, LimitsAssumption DEF SInv, HInv, TInv, TypeOK, Row, Optional
    <2> QED BY <2>2, <2>3, <2>4
  <1> QED
    BY <1>1, <1>2, <1>3, MapKept DEF SInv

----------------------------------------------------------------------------
(* The theorems *)

LEMMA SafetyHandler ==
  ASSUME NEW r \in Requests, SInv, Handler(r) \/ Fault(r)
  PROVE  SInv'
  <1>1. HInv'
    BY HoldHandler DEF SInv
  <1>2. Table'
    BY ConfigStep, ConfigKept DEF SInv, HInv, TInv
  <1>3. SlotCap'
    BY CapKept
  <1>4. ASSUME NEW s \in Requests
        PROVE  Agreed(s)'
    <2>1. CASE s = r
      BY <2>1, AgreedKept
    <2>2. CASE s # r
      <3>1. snap'[s] = snap[s]
        BY <2>2, FramesKept DEF Kept, SameFor, SInv
      <3> QED BY <3>1, SameAgreed DEF SInv
    <2> QED BY <2>1, <2>2
  <1> QED
    BY <1>1, <1>2, <1>3, <1>4 DEF SInv

LEMMA SafetyEnvironment ==
  ASSUME SInv, Crash \/ Tick \/ UNCHANGED vars
  PROVE  SInv'
  <1>0. HInv'
    BY HoldEnvironment DEF SInv
  <1>1. CASE Crash
    <2>1. /\ limits' = limits
          /\ inflight' = [p \in Principals |-> 0]
          /\ \A r \in Requests : snap'[r] = <<>>
      BY <1>1 DEF Crash
    <2>2. Table' /\ \A r \in Requests : Agreed(r)'
      BY <2>1 DEF SInv, Table, Agreed
    <2>3. SlotCap'
      <3>1. SUFFICES ASSUME NEW p \in Principals, limits[p] # NoRow, limits[p].parallel # Nil
                     PROVE  inflight'[p] <= limits[p].parallel
        BY <2>1 DEF SlotCap
      <3>2. limits[p].parallel \in 1 .. MaxParallel
        BY <3>1 DEF SInv, HInv, TInv, TypeOK, Row, Optional
      <3> QED BY <2>1, <3>2, LimitsAssumption
    <2> QED BY <1>0, <2>2, <2>3 DEF SInv
  <1>2. CASE Tick \/ UNCHANGED vars
    <2>1. UNCHANGED <<limits, inflight, snap>>
      BY <1>2 DEF Tick, vars, shared, frame
    <2> QED BY <1>0, <2>1 DEF SInv, Table, SlotCap, Agreed
  <1> QED
    BY <1>1, <1>2

\* The inductive invariant holds throughout.
LEMMA Safety == Spec => []SInv
  <1>1. SInv /\ [Next]_vars => SInv'
    BY SafetyHandler, SafetyEnvironment DEF Next
  <1> QED
    BY <1>1, SafetyInit, PTL DEF Spec

\* No path through begin, settle, a refusal, a disconnect or a restart leaks a
\* parallel slot or frees one twice: the map counts exactly the guards' slots.
THEOREM SlotsAreExact == Spec => []SlotsExact
  <1>1. SInv => SlotsExact
    BY DEF SInv, HInv, SlotsExact, Counted, Grip, Early
  <1> QED
    BY <1>1, Safety, PTL

\* However many requests are admitted together, no principal ever has more in
\* flight than its max_parallel_requests.
THEOREM SlotsAreCapped == Spec => []SlotCap
  <1>1. SInv => SlotCap
    BY DEF SInv
  <1> QED
    BY <1>1, Safety, PTL

\* A window is rolled on the strength of a stale row only when it is over.
LEMMA WinnersRollLapsed ==
  ASSUME SInv, NEW r \in Requests, RollWins(r)
  PROVE  Lapsed(limits[Loading(r)], now)
  <1>1. /\ pc[r] = "roll" /\ limits[Loading(r)] # NoRow
        /\ limits[Loading(r)].resetAt = Stale(r).resetAt
    BY Zenon DEF RollWins, CanRoll
  <1>2. Lapsed(Stale(r), now) /\ Sound(r)
    BY <1>1 DEF SInv, HInv, Sound
  <1>3. /\ Loading(r) \in Principals
        /\ Len(snap[r]) \in 1 .. Len(snap[r])
        /\ snap[r][Len(snap[r])].who = Loading(r)
    BY <1>1, <1>2 DEF SInv, HInv, TInv, TypeOK, Control, Framed, Loading, Sound
  <1>4. Configured(Loading(r), limits[Loading(r)]) /\ Configured(Loading(r), Stale(r))
    BY <1>1, <1>2, <1>3 DEF SInv, Table, Agreed, Stale
  <1> QED
    BY <1>1, <1>2, <1>4 DEF Configured, Lapsed

\* Whoever read the row, and however long ago, the conditional update restarts a
\* budget window only when the window in the table is over.
THEOREM RollsAreTimely == Spec => RollOnlyLapsed
  <1>1. SInv => [\A r \in Requests : RollWins(r) => Lapsed(limits[Loading(r)], now)]_vars
    BY WinnersRollLapsed
  <1> QED
    BY <1>1, Safety, PTL DEF RollOnlyLapsed

----------------------------------------------------------------------------
(* One alert per window *)

AInv == TInv /\ AlertOnce

\* An update that leaves the alert as it is, or clears it with the count.
LEMMA AlertStored ==
  ASSUME AInv, NEW p \in Principals, NEW row, row # NoRow,
         limits' = [limits EXCEPT ![p] = row],
         \/ raised' = raised /\ (limits[p] # NoRow /\ limits[p].alerted => row.alerted)
         \/ raised' = [raised EXCEPT ![p] = 0]
  PROVE  AlertOnce'
  BY DEF AInv, TInv, TypeOK, AlertOnce

LEMMA UpdatesAndAlerts ==
  ASSUME NEW row \in Row, NEW amount \in Int, NEW next \in Nat
  PROVE  /\ Charged(row, amount).alerted = row.alerted
         /\ Marked(row).alerted
         /\ Charged(row, amount) # NoRow /\ Marked(row) # NoRow /\ Rolled(row, next) # NoRow
  <1>1. Charged(row, amount).alerted = row.alerted
    BY Zenon DEF Row, Charged
  <1>2. Marked(row).alerted
    BY Zenon DEF Row, Marked
  <1> QED
    BY <1>1, <1>2, RowUpdates, LimitsAssumption

\* Only rolling, reserving, settling and marking touch a row.
LEMMA Unalerted ==
  ASSUME NEW r \in Requests, Handler(r) \/ Fault(r),
         ~RollWins(r), ~Reserve(r), ~SettleRow(r), ~Mark(r)
  PROVE  limits' = limits /\ raised' = raised
  <1>1. CASE Begin(r)
    BY <1>1, Zenon DEF Begin, Start, TurnedAway, LoadNothing, LoadOpen, LoadLapsed,
      RollLoses, Reload, Check, ModelRefused, Admit, SlotRefused, RateRefused,
      ReserveRefused, shared, history
  <1>2. CASE Finish(r)
    BY <1>2, Zenon DEF Finish, Deliver, DispatchFails, Free, shared, history
  <1>3. CASE Fault(r)
    BY <1>3, Zenon DEF Fault, LoadFails, ReserveFails, SettleFails, MarkFails, Disconnect,
      shared, history
  <1> QED
    BY <1>1, <1>2, <1>3 DEF Handler

LEMMA AlertRoll ==
  ASSUME NEW r \in Requests, AInv, RollWins(r)
  PROVE  AlertOnce'
  <1> DEFINE p == Loading(r)
  <1>1. /\ limits[p] # NoRow
        /\ limits' = [limits EXCEPT ![p] = Rolled(limits[p], target[r])]
        /\ raised' = [raised EXCEPT ![p] = 0]
    BY Zenon DEF RollWins, CanRoll
  <1>2. p \in Principals /\ target[r] \in Nat
    BY DEF RollWins, Loading, AInv, TInv, TypeOK, Control, Framed
  <1>3. limits[p] \in Row
    BY <1>1, <1>2 DEF AInv, TInv, TypeOK
  <1>4. Rolled(limits[p], target[r]) # NoRow
    BY <1>2, <1>3, UpdatesAndAlerts, 0 \in Int
  <1> HIDE DEF p
  <1> QED
    BY <1>1, <1>2, <1>4, AlertStored

LEMMA AlertCharge ==
  ASSUME NEW r \in Requests, AInv, Reserve(r) \/ SettleRow(r)
  PROVE  AlertOnce'
  <1> DEFINE p == Entry(r).who
  <1>1. p \in Principals /\ raised' = raised
    BY EntryType, Zenon DEF Reserve, SettleRow, AInv
  <1>2. Reserved(r) \in Int /\ Delta(r) \in Int
    BY LimitsAssumption DEF Reserved, Delta, AInv, TInv, TypeOK
  <1>3. \/ UNCHANGED limits
        \/ \E amount \in Int :
             /\ limits[p] # NoRow
             /\ limits' = [limits EXCEPT ![p] = Charged(limits[p], amount)]
    BY <1>2, Zenon DEF Reserve, Reservable, SettleRow
  <1>4. CASE UNCHANGED limits
    BY <1>1, <1>4 DEF AInv, AlertOnce
  <1>5. ASSUME NEW amount \in Int, limits[p] # NoRow,
               limits' = [limits EXCEPT ![p] = Charged(limits[p], amount)]
        PROVE  AlertOnce'
    <2>1. limits[p] \in Row
      BY <1>1, <1>5 DEF AInv, TInv, TypeOK
    <2>2. /\ Charged(limits[p], amount).alerted = limits[p].alerted
          /\ Charged(limits[p], amount) # NoRow
      BY <2>1, UpdatesAndAlerts, 0 \in Nat
    <2> HIDE DEF p
    <2> QED
      BY <1>1, <1>5, <2>2, AlertStored
  <1> QED
    BY <1>3, <1>4, <1>5

LEMMA AlertMark ==
  ASSUME NEW r \in Requests, AInv, Mark(r)
  PROVE  AlertOnce'
  <1> DEFINE p == Entry(r).who
  <1>1. p \in Principals
    BY EntryType DEF Mark, AInv
  <1>2. CASE ~CanMark(p)
    <2>1. UNCHANGED <<limits, raised>>
      BY <1>2, Zenon DEF Mark
    <2> QED BY <2>1 DEF AInv, AlertOnce
  <1>3. CASE CanMark(p)
    <2>1. /\ limits' = [limits EXCEPT ![p] = Marked(limits[p])]
          /\ raised' = [raised EXCEPT ![p] = raised[p] + 1]
      BY <1>3, Zenon DEF Mark
    <2>2. limits[p] \in Row /\ ~limits[p].alerted
      BY <1>1, <1>3 DEF CanMark, AInv, TInv, TypeOK
    <2>3. Marked(limits[p]).alerted /\ Marked(limits[p]) # NoRow
      BY <2>2, UpdatesAndAlerts, 0 \in Nat, 0 \in Int
    <2>4. raised[p] = 0
      <3>1. raised[p] # 1
        BY <1>1, <2>2, Zenon DEF AInv, AlertOnce
      <3>2. raised[p] \in Nat /\ raised[p] <= 1
        BY <1>1 DEF AInv, AlertOnce, TInv, TypeOK
      <3> QED BY <3>1, <3>2
    <2> HIDE DEF p
    <2> QED
      <3>1. /\ raised'[p] = 1 /\ limits'[p] = Marked(limits[p])
            /\ \A q \in Principals \ {p} : raised'[q] = raised[q] /\ limits'[q] = limits[q]
        BY <1>1, <2>1, <2>4 DEF AInv, TInv, TypeOK
      <3> QED
        BY <2>3, <3>1 DEF AInv, AlertOnce
  <1> QED
    BY <1>2, <1>3

\* However many requests cross a soft budget together, and however stale the
\* rows they decide on, the alert of one window is raised at most once: the
\* conditional update lets one of them through.
THEOREM AlertsOnce == Spec => []AlertOnce
  <1>1. Init => AInv
    BY TypeInit DEF Init, AInv, AlertOnce
  <1>2. AInv /\ [Next]_vars => AInv'
    <2>1. SUFFICES ASSUME AInv, [Next]_vars PROVE AInv'
      OBVIOUS
    <2>2. TInv'
      BY <2>1, TypeHandler, TypeEnvironment DEF Next, AInv
    <2>3. ASSUME limits' = limits, raised' = raised PROVE AlertOnce'
      BY <2>1, <2>3 DEF AInv, AlertOnce
    <2>4. CASE Crash \/ Tick \/ UNCHANGED vars
      <3>1. limits' = limits /\ raised' = raised
        BY <2>4, Zenon DEF Crash, Tick, vars, shared, history
      <3> QED BY <2>2, <2>3, <3>1 DEF AInv
    <2>5. ASSUME NEW r \in Requests, Handler(r) \/ Fault(r) PROVE AlertOnce'
      BY <2>1, <2>3, <2>5, Unalerted, AlertRoll, AlertCharge, AlertMark
    <2> QED
      BY <2>1, <2>2, <2>4, <2>5 DEF Next, AInv
  <1>3. AInv => AlertOnce
    BY DEF AInv
  <1> QED
    BY <1>1, <1>2, <1>3, PTL DEF Spec

----------------------------------------------------------------------------
(* Reservations are settled *)

\* The principals of the first n rows a handler loaded.
Names(r, n) == {snap[r][i].who : i \in 1 .. n}

Fresh == {"idle", "load", "roll", "reload", "check", "admit"}

Accounted(r) == paid[r] \cup stranded[r]

\* What is reserved and settled at each step: the reservations are those of the
\* charged rows, and the settle loop has dealt with the ones it has passed.
Book(r) ==
  /\ pc[r] \in Fresh => top[r] = 0 /\ taken[r] = {}
  /\ pc[r] \in Fresh \cup {"reserve", "dispatch"} => Accounted(r) = {}
  /\ pc[r] = "reserve" => top[r] = at[r] - 1
  /\ pc[r] \in {"reserve", "dispatch", "settle", "mark"} => taken[r] = Names(r, top[r])
  /\ pc[r] = "settle" => Accounted(r) = Names(r, at[r] - 1)
  /\ pc[r] = "mark" => Accounted(r) = Names(r, at[r])
  /\ pc[r] \in {"drop", "done"} => taken[r] = Accounted(r)

BInv == TInv /\ \A r \in Requests : Book(r)

\* What a step of r owes: its book kept, and the other handlers left alone.
SameBook(s) ==
  /\ SameFor(s)
  /\ taken'[s] = taken[s] /\ paid'[s] = paid[s] /\ stranded'[s] = stranded[s]

BookKept(r) == Book(r)' /\ \A s \in Requests \ {r} : SameBook(s)

LEMMA OthersKept ==
  ASSUME NEW s \in Requests, Book(s), SameBook(s)
  PROVE  Book(s)'
  BY DEF Book, SameBook, SameFor, Accounted, Names

\* No row is added to an account.
Unbooked == taken' = taken /\ paid' = paid /\ stranded' = stranded

\* Returning before anything is reserved, or with everything settled.
LEMMA BookReturn ==
  ASSUME NEW r \in Requests, TInv, Return(r), taken'[r] = Accounted(r)',
         \A s \in Requests \ {r} :
           taken'[s] = taken[s] /\ paid'[s] = paid[s] /\ stranded'[s] = stranded[s]
  PROVE  BookKept(r)
  <1>1. /\ pc'[r] \in {"drop", "done"}
        /\ \A s \in Requests \ {r} : SameFor(s)
    BY ReturnMoves DEF TInv, TypeOK, Placed, Local, SameFor
  <1> QED
    BY <1>1 DEF BookKept, Book, SameBook, Fresh

LEMMA NamesGrow ==
  ASSUME NEW r \in Requests, NEW n \in Nat
  PROVE  Names(r, n + 1) = Names(r, n) \cup {snap[r][n + 1].who}
  <1>1. 1 .. n + 1 = (1 .. n) \cup {n + 1}
    OBVIOUS
  <1> QED
    BY <1>1 DEF Names

\* A step of begin before the reservations: where it leads.
LEMMA BeginMoves ==
  ASSUME NEW r \in Requests, TInv, Begin(r) \/ LoadFails(r), ~Return(r), top' = top,
         ~Reserve(r), ~ReserveRefused(r)
  PROVE  /\ pc'[r] \in Fresh \cup {"reserve", "dispatch"}
         /\ pc'[r] = "reserve" => at'[r] = 1
         /\ \A s \in Requests \ {r} : SameFor(s)
  <1> DEFINE Goes == /\ pc'[r] \in Fresh \cup {"reserve", "dispatch"}
                     /\ pc'[r] = "reserve" => at'[r] = 1
                     /\ \A s \in Requests \ {r} : pc'[s] = pc[s] /\ at'[s] = at[s]
  <1>0. Placed /\ Len(route[r]) \in Nat /\ Len(snap[r]) \in Nat
    BY DEF TInv, TypeOK, Placed
  <1>1. \A s \in Requests \ {r} : snap'[s] = snap[s]
    <2>1. \/ snap' = snap
          \/ \E loaded : snap' = [snap EXCEPT ![r] = loaded]
      BY Zenon DEF Begin, LoadFails, Start, TurnedAway, LoadNothing, LoadOpen, LoadLapsed, Keep,
        RollWins, RollLoses, Reload, Check, ModelRefused, Admit, SlotRefused, RateRefused
    <2> QED BY <2>1 DEF TInv, TypeOK
  <1>2. CASE Start(r) \/ Check(r)
    <2>1. PICK step \in {"load", "check", "dispatch", "admit"} : Enter(r, step)
      BY <1>2 DEF Start, Check
    <2>2. Goes
      BY <1>0, <2>1, EnterMoves DEF Steps, Fresh
    <2> QED BY <1>1, <2>2 DEF SameFor
  <1>3. CASE LoadNothing(r) \/ LoadOpen(r) \/ RollWins(r) \/ Reload(r)
    <2>1. Advance(r, "load", Len(route[r]), "check")
      BY <1>3, Zenon DEF LoadNothing, LoadOpen, RollWins, Reload
    <2>2. Goes
      BY <1>0, <2>1, AdvanceMoves DEF Steps, Fresh
    <2> QED BY <1>1, <2>2 DEF SameFor
  <1>4. CASE LoadLapsed(r) \/ RollLoses(r)
    <2>1. PICK step \in {"roll", "reload"} : Goto(r, step) /\ at' = at
      BY <1>4 DEF LoadLapsed, RollLoses
    <2>2. Goes
      BY <1>0, <2>1 DEF Goto, Placed, Fresh
    <2> QED BY <1>1, <2>2 DEF SameFor
  <1>5. CASE Admit(r)
    <2>1. Advance(r, "admit", Len(snap[r]), "reserve")
      BY <1>5, Zenon DEF Admit
    <2>2. Goes
      BY <1>0, <2>1, AdvanceMoves DEF Steps, Fresh
    <2> QED BY <1>1, <2>2 DEF SameFor
  <1>6. ~TurnedAway(r) /\ ~ModelRefused(r) /\ ~SlotRefused(r) /\ ~RateRefused(r) /\ ~LoadFails(r)
    BY Zenon DEF TurnedAway, ModelRefused, SlotRefused, RateRefused, LoadFails
  <1> HIDE DEF Goes
  <1> QED
    BY <1>2, <1>3, <1>4, <1>5, <1>6, Zenon DEF Begin

LEMMA BookBegin ==
  ASSUME NEW r \in Requests, BInv, Begin(r) \/ LoadFails(r),
         ~Reserve(r), ~ReserveRefused(r)
  PROVE  BookKept(r)
  <1>1. /\ Unbooked /\ pc[r] \in Fresh
        /\ Return(r) \/ top' = top
    BY Zenon DEF Begin, LoadFails, Start, TurnedAway, LoadNothing, LoadOpen, LoadLapsed,
      RollWins, RollLoses, Reload, Check, ModelRefused, Admit, SlotRefused, RateRefused,
      history, Unbooked, Fresh
  <1>2. top[r] = 0 /\ taken[r] = {} /\ Accounted(r) = {} /\ paid[r] = {} /\ stranded[r] = {}
    BY <1>1 DEF BInv, Book, Accounted
  <1>3. CASE Return(r)
    BY <1>1, <1>2, <1>3, BookReturn DEF BInv, Unbooked, Accounted
  <1>4. CASE ~Return(r)
    <2>1. /\ pc'[r] \in Fresh \cup {"reserve", "dispatch"}
          /\ pc'[r] = "reserve" => at'[r] = 1
          /\ \A s \in Requests \ {r} : SameFor(s)
      BY <1>1, <1>4, BeginMoves DEF BInv
    <2>2. /\ top'[r] = 0 /\ taken'[r] = {} /\ Accounted(r)' = {}
          /\ \A s \in Requests \ {r} : SameBook(s)
      BY <1>1, <1>2, <1>4, <2>1 DEF SameBook, Unbooked, Accounted
    <2>3. Names(r, 0)' = {}
      BY DEF Names
    <2>4. Book(r)'
      BY <2>1, <2>2, <2>3 DEF Book, Fresh
    <2> QED
      BY <2>2, <2>4 DEF BookKept
  <1> QED
    BY <1>3, <1>4

LEMMA BookReserve ==
  ASSUME NEW r \in Requests, BInv, Reserve(r)
  PROVE  BookKept(r)
  <1>1. /\ pc[r] = "reserve" /\ UNCHANGED <<snap, paid, stranded>>
        /\ top' = [top EXCEPT ![r] = at[r]]
        /\ taken' = [taken EXCEPT ![r] = taken[r] \cup {Entry(r).who}]
        /\ Advance(r, "reserve", Len(snap[r]), "dispatch")
    BY Zenon DEF Reserve
  <1>2. /\ top'[r] = at[r] /\ taken'[r] = taken[r] \cup {Entry(r).who}
        /\ \A s \in Requests \ {r} : top'[s] = top[s] /\ taken'[s] = taken[s]
    BY <1>1 DEF BInv, TInv, TypeOK
  <1>3. /\ at[r] \in Nat \ {0} /\ Accounted(r) = {}
        /\ taken[r] = Names(r, at[r] - 1)
    BY <1>1, EntryType DEF BInv, Book, TInv, TypeOK
  <1>4. taken'[r] = Names(r, at[r])
    <2>1. Names(r, (at[r] - 1) + 1) = Names(r, at[r] - 1) \cup {snap[r][(at[r] - 1) + 1].who}
      BY <1>3, NamesGrow, SMTT(30)
    <2>2. (at[r] - 1) + 1 = at[r]
      BY <1>3
    <2> QED BY <1>2, <1>3, <2>1, <2>2 DEF Entry
  <1>5. Names(r, at[r]) = Names(r, top[r])'
    BY <1>1, <1>2 DEF Names
  <1>6. /\ \/ pc'[r] = "reserve" /\ at'[r] = at[r] + 1
           \/ pc'[r] = "dispatch"
        /\ \A s \in Requests \ {r} : SameFor(s)
    <2>1. Placed /\ Len(snap[r]) \in Nat
      BY DEF BInv, TInv, TypeOK, Placed
    <2>2. /\ \/ pc'[r] = "reserve" /\ at'[r] = at[r] + 1
             \/ pc'[r] = "dispatch"
          /\ \A s \in Requests \ {r} : pc'[s] = pc[s] /\ at'[s] = at[s]
      BY <1>1, <2>1, AdvanceMoves DEF Steps
    <2> QED BY <1>1, <1>2, <2>2 DEF SameFor
  <1>7. Accounted(r)' = {}
    BY <1>1, <1>3 DEF Accounted
  <1>8. Book(r)'
    BY <1>2, <1>3, <1>4, <1>5, <1>6, <1>7 DEF Book, Fresh
  <1> QED
    BY <1>1, <1>2, <1>6, <1>8 DEF BookKept, SameBook

\* settle is called: nothing was charged, or its loop begins.
LEMMA BookSettle ==
  ASSUME NEW r \in Requests, BInv, NEW amount, Settle(r, amount), Unbooked,
         pc[r] \in {"reserve", "dispatch"}
  PROVE  BookKept(r)
  <1>1. taken[r] = Names(r, top[r]) /\ Accounted(r) = {} /\ Accounted(r)' = {}
    BY DEF BInv, Book, Unbooked, Accounted
  <1>2. Names(r, 0) = {} /\ Names(r, 0)' = {}
    BY DEF Names
  <1>3. CASE top[r] = 0
    <2>1. Return(r)
      BY <1>3 DEF Settle
    <2> QED
      BY <1>1, <1>2, <1>3, <2>1, BookReturn DEF BInv, Unbooked
  <1>4. CASE top[r] # 0
    <2>1. Enter(r, "settle") /\ UNCHANGED <<snap, target, top>>
      BY <1>4 DEF Settle
    <2>2. /\ pc'[r] = "settle" /\ at'[r] = 1
          /\ \A s \in Requests \ {r} : SameFor(s)
      BY <2>1, EnterMoves DEF BInv, TInv, TypeOK, Placed, Steps, SameFor
    <2>3. taken'[r] = Names(r, top[r])'
      BY <1>1, <2>1 DEF Unbooked, Names
    <2>4. Book(r)'
      BY <1>1, <1>2, <2>2, <2>3 DEF Book, Fresh
    <2> QED
      BY <2>2, <2>4 DEF BookKept, SameBook, Unbooked
  <1> QED
    BY <1>3, <1>4

\* A charged row is dealt with: the loop goes on, or every row has been.
LEMMA BookNext ==
  ASSUME NEW r \in Requests, TInv, NextCharged(r), pc[r] \in {"settle", "mark"},
         taken[r] = Names(r, top[r]), Accounted(r)' = Names(r, at[r]), taken' = taken,
         \A s \in Requests \ {r} : paid'[s] = paid[s] /\ stranded'[s] = stranded[s]
  PROVE  BookKept(r)
  <1>1. at[r] \in 1 .. top[r] /\ at[r] \in Nat /\ top[r] \in Nat
    BY DEF TInv, TypeOK, Control, Framed
  <1>2. CASE at[r] < top[r]
    <2>1. /\ pc' = [pc EXCEPT ![r] = "settle"] /\ at' = [at EXCEPT ![r] = @ + 1]
          /\ UNCHANGED <<snap, top>>
      BY <1>2 DEF NextCharged, Goto
    <2>2. /\ pc'[r] = "settle" /\ at'[r] = at[r] + 1
          /\ \A s \in Requests \ {r} : SameFor(s)
      BY <2>1 DEF TInv, TypeOK, SameFor
    <2>3. at'[r] - 1 = at[r]
      BY <1>1, <2>2
    <2>4. taken'[r] = Names(r, top[r])' /\ Accounted(r)' = Names(r, at[r] - 1)'
      BY <2>1, <2>3 DEF Names
    <2>5. Book(r)'
      BY <2>2, <2>4 DEF Book, Fresh
    <2> QED
      BY <2>2, <2>5 DEF BookKept, SameBook
  <1>3. CASE ~(at[r] < top[r])
    <2>1. Return(r) /\ at[r] = top[r]
      BY <1>1, <1>3 DEF NextCharged
    <2> QED
      BY <2>1, BookReturn
  <1> QED
    BY <1>2, <1>3

LEMMA BookSettleLoop ==
  ASSUME NEW r \in Requests, BInv, SettleRow(r) \/ SettleFails(r) \/ Mark(r) \/ MarkFails(r)
  PROVE  BookKept(r)
  <1> USE DEF BInv
  <1>1. pc[r] \in {"settle", "mark"} /\ taken' = taken
    BY Zenon DEF SettleRow, SettleFails, Mark, MarkFails, history
  <1>2. taken[r] = Names(r, top[r]) /\ at[r] \in Nat \ {0}
    <2>1. taken[r] = Names(r, top[r])
      BY <1>1 DEF Book
    <2>2. at[r] \in 1 .. Len(snap[r])
      BY <1>1, EntryType
    <2> QED BY <2>1, <2>2
  <1>3. Names(r, at[r]) = Names(r, at[r] - 1) \cup {Entry(r).who}
    <2>1. Names(r, (at[r] - 1) + 1) = Names(r, at[r] - 1) \cup {snap[r][(at[r] - 1) + 1].who}
      BY <1>2, NamesGrow
    <2>2. (at[r] - 1) + 1 = at[r]
      BY <1>2
    <2> QED BY <2>1, <2>2 DEF Entry
  <1>4. CASE SettleRow(r)
    <2>1. /\ pc[r] = "settle" /\ stranded' = stranded
          /\ paid' = [paid EXCEPT ![r] = paid[r] \cup {Entry(r).who}]
      BY <1>4, Zenon DEF SettleRow
    <2>2. /\ paid'[r] = paid[r] \cup {Entry(r).who}
          /\ \A s \in Requests \ {r} : paid'[s] = paid[s] /\ stranded'[s] = stranded[s]
      BY <2>1 DEF TInv, TypeOK
    <2>3. Accounted(r)' = Names(r, at[r])
      BY <1>3, <2>1, <2>2 DEF Book, Accounted
    <2>4. CASE Crosses(r)
      <3>1. pc' = [pc EXCEPT ![r] = "mark"] /\ UNCHANGED <<snap, at, top>>
        BY <1>4, <2>4, Zenon DEF SettleRow, Goto, frame
      <3>2. pc'[r] = "mark" /\ \A s \in Requests \ {r} : SameFor(s)
        BY <3>1 DEF TInv, TypeOK, SameFor
      <3>3. taken'[r] = Names(r, top[r])' /\ Accounted(r)' = Names(r, at[r])'
        BY <1>1, <1>2, <2>3, <3>1 DEF Names
      <3>4. Book(r)'
        BY <3>2, <3>3 DEF Book, Fresh
      <3> QED BY <1>1, <2>2, <3>2, <3>4 DEF BookKept, SameBook
    <2>5. CASE ~Crosses(r)
      <3>1. NextCharged(r)
        BY <1>4, <2>5, Zenon DEF SettleRow
      <3> QED BY <1>1, <1>2, <2>2, <2>3, <3>1, BookNext
    <2> QED BY <2>4, <2>5
  <1>5. CASE SettleFails(r)
    <2>1. /\ pc[r] = "settle" /\ paid' = paid /\ NextCharged(r)
          /\ stranded' = [stranded EXCEPT ![r] = stranded[r] \cup {Entry(r).who}]
      BY <1>5, Zenon DEF SettleFails
    <2>2. /\ stranded'[r] = stranded[r] \cup {Entry(r).who}
          /\ \A s \in Requests \ {r} : paid'[s] = paid[s] /\ stranded'[s] = stranded[s]
      BY <2>1 DEF TInv, TypeOK
    <2>3. Accounted(r)' = Names(r, at[r])
      BY <1>3, <2>1, <2>2 DEF Book, Accounted
    <2> QED BY <1>1, <1>2, <2>1, <2>2, <2>3, BookNext
  <1>6. CASE Mark(r) \/ MarkFails(r)
    <2>1. pc[r] = "mark" /\ NextCharged(r) /\ paid' = paid /\ stranded' = stranded
      BY <1>6, Zenon DEF Mark, MarkFails, history
    <2>2. Accounted(r)' = Names(r, at[r])
      BY <2>1 DEF Book, Accounted
    <2> QED BY <1>1, <1>2, <2>1, <2>2, BookNext
  <1> QED
    BY <1>4, <1>5, <1>6

\* Only what was reserved is settled or lost.
LEMMA AccountedTaken ==
  ASSUME NEW r \in Requests, BInv
  PROVE  Accounted(r) \subseteq taken[r]
  <1>1. pc[r] \in {"settle", "mark"} => at[r] \in 1 .. top[r] /\ top[r] \in Nat
    BY DEF BInv, TInv, TypeOK, Control, Framed
  <1>2. pc[r] \in {"settle", "mark"} =>
          Names(r, at[r]) \subseteq Names(r, top[r]) /\ Names(r, at[r] - 1) \subseteq Names(r, top[r])
    BY <1>1 DEF Names
  <1> QED
    BY <1>2 DEF BInv, Book, TInv, TypeOK, Steps, Fresh

\* What a fault leaves unsettled is counted as stranded.
LEMMA Stranding ==
  ASSUME NEW r \in Requests, BInv, taken'[r] = taken[r], paid'[r] = paid[r],
         stranded'[r] = stranded[r] \cup Held(r)
  PROVE  taken'[r] = Accounted(r)'
  BY AccountedTaken DEF Accounted, Held

LEMMA BookFinish ==
  ASSUME NEW r \in Requests, BInv, Free(r) \/ Disconnect(r)
  PROVE  BookKept(r)
  <1>1. CASE Free(r)
    <2>1. /\ pc[r] = "drop" /\ Unbooked /\ UNCHANGED <<snap, at, top>>
          /\ \E step \in {"done", "drop"} : pc' = [pc EXCEPT ![r] = step]
      BY <1>1, Zenon DEF Free, Goto, history, frame, Unbooked
    <2>2. /\ pc'[r] \in {"done", "drop"}
          /\ \A s \in Requests \ {r} : SameFor(s)
      BY <2>1 DEF BInv, TInv, TypeOK, SameFor
    <2>3. taken'[r] = Accounted(r)'
      BY <2>1 DEF BInv, Book, Unbooked, Accounted
    <2>4. Book(r)'
      BY <2>2, <2>3 DEF Book, Fresh
    <2> QED BY <2>1, <2>2, <2>4 DEF BookKept, SameBook, Unbooked
  <1>2. CASE Disconnect(r)
    <2>1. /\ taken' = taken /\ paid' = paid /\ Return(r)
          /\ stranded' = [stranded EXCEPT ![r] = stranded[r] \cup Held(r)]
      BY <1>2, Zenon DEF Disconnect
    <2>2. /\ stranded'[r] = stranded[r] \cup Held(r)
          /\ \A s \in Requests \ {r} : stranded'[s] = stranded[s]
      BY <2>1 DEF BInv, TInv, TypeOK
    <2>3. taken'[r] = Accounted(r)'
      BY <2>1, <2>2, Stranding
    <2> QED BY <2>1, <2>2, <2>3, BookReturn DEF BInv
  <1> QED
    BY <1>1, <1>2

LEMMA BookHandler ==
  ASSUME NEW r \in Requests, BInv, Handler(r) \/ Fault(r)
  PROVE  BookKept(r)
  <1>1. CASE (Begin(r) /\ ~Reserve(r) /\ ~ReserveRefused(r)) \/ LoadFails(r)
    <2>1. LoadFails(r) => ~Reserve(r) /\ ~ReserveRefused(r)
      BY DEF LoadFails, Reserve, ReserveRefused
    <2> QED BY <1>1, <2>1, BookBegin
  <1>2. CASE ReserveRefused(r) \/ ReserveFails(r) \/ Deliver(r) \/ DispatchFails(r)
    <2>1. /\ pc[r] \in {"reserve", "dispatch"} /\ Unbooked
          /\ \E amount : Settle(r, amount)
      BY <1>2, Zenon DEF ReserveRefused, ReserveFails, Deliver, DispatchFails, history, Unbooked
    <2> QED BY <2>1, BookSettle
  <1>3. CASE Reserve(r) \/ SettleRow(r) \/ SettleFails(r) \/ Mark(r) \/ MarkFails(r)
    BY <1>3, BookReserve, BookSettleLoop
  <1>4. CASE Free(r) \/ Disconnect(r)
    BY <1>4, BookFinish
  <1> QED
    BY <1>1, <1>2, <1>3, <1>4, Zenon DEF Handler, Finish, Fault

LEMMA BookEnvironment ==
  ASSUME BInv, Crash \/ Tick \/ UNCHANGED vars, NEW r \in Requests
  PROVE  Book(r)'
  <1>1. CASE Crash
    <2>1. /\ pc'[r] = IF pc[r] = "idle" THEN "idle" ELSE "done"
          /\ top'[r] = 0 /\ taken'[r] = taken[r] /\ paid'[r] = paid[r]
          /\ stranded'[r] = stranded[r] \cup Held(r)
      BY <1>1 DEF Crash
    <2>2. CASE pc[r] = "idle"
      <3>1. taken[r] = {} /\ Accounted(r) = {} /\ Held(r) = {}
        BY <2>2 DEF BInv, Book, Fresh, Held
      <3> QED BY <2>1, <2>2, <3>1 DEF Book, Fresh, Accounted
    <2>3. CASE pc[r] # "idle"
      <3>1. taken'[r] = Accounted(r)'
        BY <2>1, Stranding
      <3> QED BY <2>1, <2>3, <3>1 DEF Book, Fresh
    <2> QED BY <2>2, <2>3
  <1>2. CASE Tick \/ UNCHANGED vars
    <2>1. UNCHANGED <<pc, snap, at, top, taken, paid, stranded>>
      BY <1>2, Zenon DEF Tick, vars, frame, history
    <2> QED BY <2>1 DEF BInv, Book, Accounted, Names
  <1> QED
    BY <1>1, <1>2

LEMMA BookInit == Init => BInv
  BY TypeInit DEF Init, BInv, Book, Fresh, Accounted

LEMMA BookStep == BInv /\ [Next]_vars => BInv'
  <1>1. SUFFICES ASSUME BInv, [Next]_vars PROVE BInv'
    OBVIOUS
  <1>2. TInv'
    BY <1>1, TypeHandler, TypeEnvironment DEF Next, BInv
  <1>3. CASE Crash \/ Tick \/ UNCHANGED vars
    BY <1>1, <1>2, <1>3, BookEnvironment DEF BInv
  <1>4. ASSUME NEW r \in Requests, Handler(r) \/ Fault(r) PROVE BInv'
    <2>1. BookKept(r)
      BY <1>1, <1>4, BookHandler
    <2>2. ASSUME NEW s \in Requests PROVE Book(s)'
      BY <1>1, <2>1, OthersKept DEF BookKept, BInv
    <2> QED BY <1>2, <2>2 DEF BInv
  <1> QED
    BY <1>1, <1>3, <1>4 DEF Next

\* When a handler is over, every reservation it made was settled, unless a fault
\* took the handler (or the statement) away: whichever row refuses or fails, and
\* however the dispatch ends, the settle loop covers exactly the charged rows.
THEOREM EveryReservationSettled == Spec => []ReservationsSettled
  <1>1. BInv => ReservationsSettled
    BY DEF BInv, Book, Accounted, ReservationsSettled
  <1> QED
    BY <1>1, BookInit, BookStep, PTL DEF Spec

----------------------------------------------------------------------------
(* Sums over a finite set.  MapThenSumSet folds a recursive function over    *)
(* the subsets; the library's facts about it take operators as parameters,   *)
(* which the provers cannot instantiate, so what the ledger needs is proved  *)
(* here for functions, from the well-foundedness of inclusion.               *)

\* A set of naturals has a least member.
LEMMA LeastNatural ==
  ASSUME NEW T, T \subseteq Nat, T # {}
  PROVE  \E n \in T : \A m \in T : n <= m
  <1> DEFINE U == {1 .. n : n \in T}
  <1>1. U \subseteq FiniteSubsetsOf(Nat)
    <2>1. \A n \in T : 1 .. n \in SUBSET Nat /\ IsFiniteSet(1 .. n)
      BY FS_Interval
    <2> QED BY <2>1 DEF FiniteSubsetsOf
  <1>2. PICK u \in U : \A v \in U : <<v, u>> \notin StrictSubsetOrdering(Nat)
    <2>1. U # {}
      OBVIOUS
    <2> HIDE DEF U
    <2> QED BY <1>1, <2>1, WFMin, FS_StrictSubsetOrderingWellFounded
  <1>3. PICK n \in T : u = 1 .. n
    OBVIOUS
  <1>4. ASSUME NEW m \in T, m < n PROVE FALSE
    <2>1. 1 .. m \in U /\ 1 .. m \subseteq 1 .. n /\ n \in 1 .. n /\ n \notin 1 .. m
      BY <1>4
    <2>2. 1 .. m # 1 .. n /\ 1 .. m \in SUBSET Nat /\ 1 .. n \in SUBSET Nat
      BY <2>1
    <2> HIDE DEF U
    <2>3. <<1 .. m, u>> \in StrictSubsetOrdering(Nat)
      BY <1>3, <2>1, <2>2 DEF StrictSubsetOrdering
    <2> QED BY <1>2, <2>1, <2>3
  <1> QED BY <1>4

\* Induction over the subsets of a finite set: a smallest counterexample.
LEMMA SmallestSubset ==
  ASSUME NEW S, IsFiniteSet(S), NEW Bad, Bad \subseteq SUBSET S, Bad # {}
  PROVE  \E s \in Bad : \A x \in s : s \ {x} \notin Bad
  <1>1. Bad \subseteq FiniteSubsetsOf(S)
    BY FS_Subset DEF FiniteSubsetsOf
  <1>2. PICK s \in Bad : \A v \in Bad : <<v, s>> \notin StrictSubsetOrdering(S)
    BY <1>1, WFMin, FS_StrictSubsetOrderingWellFounded
  <1>3. ASSUME NEW x \in s PROVE <<s \ {x}, s>> \in StrictSubsetOrdering(S)
    BY <1>3 DEF StrictSubsetOrdering
  <1> QED BY <1>2, <1>3

Pick(s) == CHOOSE x \in s : TRUE

\* g[s] is the sum of f over s, for every subset s of S, added in Pick's order.
Folds(f, S, g) ==
  g = [s \in SUBSET S |-> IF s = {} THEN 0 ELSE f[Pick(s)] + g[s \ {Pick(s)}]]

\* A chosen member is a member.
LEMMA PickIn ==
  ASSUME NEW s, s # {}
  PROVE  Pick(s) \in s
  BY DEF Pick

\* The recursion has a solution: one for the subsets of at most n elements
\* extends to those of n + 1.
LEMMA FoldExists ==
  ASSUME NEW S, IsFiniteSet(S), NEW f
  PROVE  \E g : Folds(f, S, g)
  <1> DEFINE Upto(n) == {s \in SUBSET S : Cardinality(s) <= n}
             Round(n, g) == [s \in Upto(n) |->
                               IF s = {} THEN 0 ELSE f[Pick(s)] + g[s \ {Pick(s)}]]
             Bad == {n \in Nat : ~ \E g : g = Round(n, g)}
  <1>1. \A s \in SUBSET S :
          IsFiniteSet(s) /\ Cardinality(s) \in Nat /\ Cardinality(s) <= Cardinality(S)
    BY FS_Subset, FS_CardinalityType
  <1>2. Bad = {}
    <2>1. SUFFICES ASSUME Bad # {} PROVE FALSE
      OBVIOUS
    <2>2. PICK n \in Bad : \A m \in Bad : n <= m
      <3>1. Bad \subseteq Nat
        OBVIOUS
      <3> HIDE DEF Bad
      <3> QED BY <2>1, <3>1, LeastNatural
    <2>3. n # 0
      <3>1. ASSUME n = 0 PROVE FALSE
        <4> DEFINE g0 == [s \in Upto(0) |-> 0]
        <4>1. \A s \in Upto(0) : s = {}
          BY <1>1, FS_EmptySet
        <4>2. g0 = Round(0, g0)
          BY <4>1
        <4> QED BY <3>1, <4>2
      <3> QED BY <3>1
    <2>4. n - 1 \in Nat /\ n \in Nat
      BY <2>3
    <2>5. n - 1 \notin Bad
      <3>1. n - 1 \in Bad => n <= n - 1
        BY <2>2
      <3> HIDE DEF Bad
      <3> QED BY <2>4, <3>1
    <2>6. PICK g : g = Round(n - 1, g)
      BY <2>4, <2>5
    <2> DEFINE h == Round(n, g)
    <2>7. \A s \in Upto(n - 1) : h[s] = g[s] /\ s \in Upto(n)
      <3>1. \A s \in Upto(n - 1) : s \in Upto(n)
        BY <1>1, <2>4
      <3>2. \A s \in Upto(n - 1) :
              g[s] = IF s = {} THEN 0 ELSE f[Pick(s)] + g[s \ {Pick(s)}]
        <4> HIDE DEF Upto
        <4> QED BY <2>6, Zenon
      <3> HIDE DEF Upto
      <3> QED BY <3>1, <3>2
    <2>8. ASSUME NEW s \in Upto(n), s # {} PROVE s \ {Pick(s)} \in Upto(n - 1)
      BY <1>1, <2>4, <2>8, PickIn, FS_RemoveElement
    <2>9. h = Round(n, h)
      <3>1. \A s \in Upto(n) : s # {} => h[s \ {Pick(s)}] = g[s \ {Pick(s)}]
        BY <2>7, <2>8
      <3> HIDE DEF Upto
      <3> QED BY <3>1
    <2> QED BY <2>9
  <1>3. Cardinality(S) \in Nat /\ Upto(Cardinality(S)) = SUBSET S
    BY <1>1, FS_CardinalityType
  <1>4. PICK g : g = Round(Cardinality(S), g)
    BY <1>2, <1>3
  <1> QED BY <1>3, <1>4 DEF Folds

\* A sum of naturals is a natural, and zero if every summand is.
LEMMA FoldNat ==
  ASSUME NEW S, IsFiniteSet(S), NEW f \in [S -> Nat], NEW g, Folds(f, S, g)
  PROVE  g[S] \in Nat /\ ((\A x \in S : f[x] = 0) => g[S] = 0)
  <1> DEFINE Zero == \A x \in S : f[x] = 0
             Bad == {s \in SUBSET S : ~ (g[s] \in Nat /\ (Zero => g[s] = 0))}
  <1>1. Bad = {}
    <2>1. SUFFICES ASSUME Bad # {} PROVE FALSE
      OBVIOUS
    <2>2. PICK s \in Bad : \A x \in s : s \ {x} \notin Bad
      <3>1. Bad \subseteq SUBSET S
        OBVIOUS
      <3> HIDE DEF Bad
      <3> QED BY <2>1, <3>1, SmallestSubset
    <2>3. s \in SUBSET S
      OBVIOUS
    <2>4. g[s] = IF s = {} THEN 0 ELSE f[Pick(s)] + g[s \ {Pick(s)}]
      BY <2>3, Zenon DEF Folds
    <2>5. s # {}
      BY <2>4
    <2>6. Pick(s) \in s
      BY <2>5, PickIn
    <2>7. g[s \ {Pick(s)}] \in Nat /\ (Zero => g[s \ {Pick(s)}] = 0)
      BY <2>2, <2>3, <2>6
    <2>8. f[Pick(s)] \in Nat /\ (Zero => f[Pick(s)] = 0)
      BY <2>3, <2>6
    <2> HIDE DEF Zero
    <2>9. g[s] \in Nat /\ (Zero => g[s] = 0)
      BY <2>4, <2>5, <2>7, <2>8
    <2> QED BY <2>9
  <1> QED BY <1>1

\* When one summand changes, the sum changes by as much.
LEMMA FoldMoves ==
  ASSUME NEW S, IsFiniteSet(S), NEW f \in [S -> Nat], NEW g \in [S -> Nat],
         NEW r \in S, \A x \in S \ {r} : g[x] = f[x],
         NEW F, Folds(f, S, F), NEW G, Folds(g, S, G)
  PROVE  G[S] = F[S] + (g[r] - f[r])
  <1> DEFINE Bad == {s \in SUBSET S :
                       ~ /\ F[s] \in Int
                         /\ G[s] = F[s] + (IF r \in s THEN g[r] - f[r] ELSE 0)}
  <1>1. Bad = {}
    <2>1. SUFFICES ASSUME Bad # {} PROVE FALSE
      OBVIOUS
    <2>2. PICK s \in Bad : \A x \in s : s \ {x} \notin Bad
      <3>1. Bad \subseteq SUBSET S
        OBVIOUS
      <3> HIDE DEF Bad
      <3> QED BY <2>1, <3>1, SmallestSubset
    <2> DEFINE c == Pick(s)
    <2>3. s \in SUBSET S
      OBVIOUS
    <2>4. /\ F[s] = IF s = {} THEN 0 ELSE f[c] + F[s \ {c}]
          /\ G[s] = IF s = {} THEN 0 ELSE g[c] + G[s \ {c}]
      BY <2>3, Zenon DEF Folds
    <2>5. s # {}
      BY <2>4
    <2>6. c \in s
      BY <2>5, PickIn
    <2>7. /\ F[s \ {c}] \in Int
          /\ G[s \ {c}] = F[s \ {c}] + (IF r \in s \ {c} THEN g[r] - f[r] ELSE 0)
      BY <2>2, <2>3, <2>6
    <2> HIDE DEF c
    <2>8. /\ F[s] \in Int
          /\ G[s] = F[s] + (IF r \in s THEN g[r] - f[r] ELSE 0)
      BY <2>3, <2>4, <2>5, <2>6, <2>7
    <2> QED BY <2>8
  <1> QED BY <1>1

----------------------------------------------------------------------------
(* The ledger: what requests owe, and by how much they overran *)

\* The totals are folds of what the single requests owe and overran.
Totals ==
  \A p \in Principals :
    /\ \E F : /\ Folds([r \in Requests |-> Owed(r, p)], Requests, F)
              /\ OwedTo(p) = F[Requests]
    /\ \E F : /\ Folds([r \in Requests |-> Overrun(r, p)], Requests, F)
              /\ OverrunOf(p) = F[Requests]

\* MapThenSumSet is such a fold.
LEMMA TotalsFold == Totals
  <1> SUFFICES ASSUME NEW p \in Principals
               PROVE  /\ \E F : /\ Folds([r \in Requests |-> Owed(r, p)], Requests, F)
                                /\ OwedTo(p) = F[Requests]
                      /\ \E F : /\ Folds([r \in Requests |-> Overrun(r, p)], Requests, F)
                                /\ OverrunOf(p) = F[Requests]
    BY DEF Totals
  <1> DEFINE f == [r \in Requests |-> Owed(r, p)]
             g == [r \in Requests |-> Overrun(r, p)]
             Q(F) == F = [s \in SUBSET Requests |->
                            IF s = {} THEN 0 ELSE Owed(Pick(s), p) + F[s \ {Pick(s)}]]
             R(F) == F = [s \in SUBSET Requests |->
                            IF s = {} THEN 0 ELSE Overrun(Pick(s), p) + F[s \ {Pick(s)}]]
  <1>1. OwedTo(p) = (CHOOSE F : Q(F))[Requests]
    BY DEF OwedTo, MapThenSumSet, MapThenFoldSet, Pick
  <1>2. OverrunOf(p) = (CHOOSE F : R(F))[Requests]
    BY DEF OverrunOf, MapThenSumSet, MapThenFoldSet, Pick
  <1>3. \A s \in SUBSET Requests : s # {} =>
          f[Pick(s)] = Owed(Pick(s), p) /\ g[Pick(s)] = Overrun(Pick(s), p)
    BY PickIn
  <1>4. \A F : (Folds(f, Requests, F) <=> Q(F)) /\ (Folds(g, Requests, F) <=> R(F))
    BY <1>3 DEF Folds
  <1>5. (\E F : Q(F)) /\ (\E F : R(F))
    BY <1>4, FoldExists, LimitsAssumption
  <1>6. Q(CHOOSE F : Q(F)) /\ R(CHOOSE F : R(F))
    <2> HIDE DEF Q, R
    <2> QED BY <1>5
  <1> HIDE DEF Q, R
  <1> QED BY <1>1, <1>2, <1>4, <1>6

LEMMA TotalsFoldNext == Totals'
  BY TotalsFold, PTL

\* What one request owes is a cost.
Costs ==
  TypeOK => \A r \in Requests, p \in Principals :
              /\ Owed(r, p) \in Nat /\ Overrun(r, p) \in Nat
              /\ Reserved(r) \in Nat /\ Delta(r) \in Int

LEMMA OwedIsCost == Costs
  BY LimitsAssumption DEF Costs, Owed, Overrun, Delta, Reserved, TypeOK

LEMMA OwedIsCostNext == Costs'
  BY OwedIsCost, PTL

\* So the totals are costs as well.
LEMMA TotalsAreCosts ==
  ASSUME TypeOK, NEW p \in Principals
  PROVE  OwedTo(p) \in Nat /\ OverrunOf(p) \in Nat
  <1>1. /\ [r \in Requests |-> Owed(r, p)] \in [Requests -> Nat]
        /\ [r \in Requests |-> Overrun(r, p)] \in [Requests -> Nat]
    BY OwedIsCost DEF Costs
  <1> QED
    BY <1>1, TotalsFold, FoldNat, LimitsAssumption DEF Totals

\* Nobody owes anything: nothing is owed.
NoTotals ==
  \A p \in Principals :
    TypeOK => /\ (\A r \in Requests : Owed(r, p) = 0) => OwedTo(p) = 0
              /\ (\A r \in Requests : Overrun(r, p) = 0) => OverrunOf(p) = 0

\* Where nobody owes or overran, the totals are zero.
LEMMA TotalsOfNothing == NoTotals
  <1> SUFFICES ASSUME TypeOK, NEW p \in Principals
               PROVE  /\ (\A r \in Requests : Owed(r, p) = 0) => OwedTo(p) = 0
                      /\ (\A r \in Requests : Overrun(r, p) = 0) => OverrunOf(p) = 0
    BY DEF NoTotals
  <1>1. /\ [r \in Requests |-> Owed(r, p)] \in [Requests -> Nat]
        /\ [r \in Requests |-> Overrun(r, p)] \in [Requests -> Nat]
    BY OwedIsCost DEF Costs
  <1>2. ASSUME \A r \in Requests : Owed(r, p) = 0 PROVE OwedTo(p) = 0
    <2> DEFINE f == [r \in Requests |-> Owed(r, p)]
    <2>1. PICK F : Folds(f, Requests, F) /\ OwedTo(p) = F[Requests]
      BY TotalsFold DEF Totals
    <2>2. \A r \in Requests : f[r] = 0
      BY <1>2
    <2>3. f \in [Requests -> Nat]
      BY <1>1
    <2> HIDE DEF f
    <2> QED BY <2>1, <2>2, <2>3, FoldNat, LimitsAssumption
  <1>3. ASSUME \A r \in Requests : Overrun(r, p) = 0 PROVE OverrunOf(p) = 0
    <2> DEFINE f == [r \in Requests |-> Overrun(r, p)]
    <2>1. PICK F : Folds(f, Requests, F) /\ OverrunOf(p) = F[Requests]
      BY TotalsFold DEF Totals
    <2>2. \A r \in Requests : f[r] = 0
      BY <1>3
    <2>3. f \in [Requests -> Nat]
      BY <1>1
    <2> HIDE DEF f
    <2> QED BY <2>1, <2>2, <2>3, FoldNat, LimitsAssumption
  <1> QED
    BY <1>2, <1>3

LEMMA TotalsOfNothingNext == NoTotals'
  BY TotalsOfNothing, PTL

\* A step that changes the account of r alone changes the totals by as much.
LEMMA TotalsMove ==
  ASSUME TypeOK, TypeOK', NEW p \in Principals, NEW r \in Requests,
         \A s \in Requests \ {r} : Owed(s, p)' = Owed(s, p) /\ Overrun(s, p)' = Overrun(s, p)
  PROVE  /\ OwedTo(p)' = OwedTo(p) + (Owed(r, p)' - Owed(r, p))
         /\ OverrunOf(p)' = OverrunOf(p) + (Overrun(r, p)' - Overrun(r, p))
  <1> DEFINE f == [s \in Requests |-> Owed(s, p)]
             g == [s \in Requests |-> Overrun(s, p)]
             h == [s \in Requests |-> Owed(s, p)']
             k == [s \in Requests |-> Overrun(s, p)']
  <1>0. IsFiniteSet(Requests)
    BY LimitsAssumption
  <1>1. f \in [Requests -> Nat] /\ g \in [Requests -> Nat]
    BY OwedIsCost DEF Costs
  <1>2. h \in [Requests -> Nat] /\ k \in [Requests -> Nat]
    <2>1. \A s \in Requests : Owed(s, p)' \in Nat /\ Overrun(s, p)' \in Nat
      BY OwedIsCostNext DEF Costs
    <2> QED BY <2>1
  <1>3. /\ \A s \in Requests \ {r} : h[s] = f[s] /\ k[s] = g[s]
        /\ f[r] = Owed(r, p) /\ h[r] = Owed(r, p)'
        /\ g[r] = Overrun(r, p) /\ k[r] = Overrun(r, p)'
    OBVIOUS
  <1>4. /\ \E F : Folds(f, Requests, F) /\ OwedTo(p) = F[Requests]
        /\ \E F : Folds(g, Requests, F) /\ OverrunOf(p) = F[Requests]
    BY TotalsFold DEF Totals
  <1>5. /\ \E F : Folds(h, Requests, F) /\ OwedTo(p)' = F[Requests]
        /\ \E F : Folds(k, Requests, F) /\ OverrunOf(p)' = F[Requests]
    BY TotalsFoldNext DEF Totals
  <1> HIDE DEF f, g, h, k
  <1>6. OwedTo(p)' = OwedTo(p) + (h[r] - f[r])
    <2>1. PICK F : Folds(f, Requests, F) /\ OwedTo(p) = F[Requests]
      BY <1>4
    <2>2. PICK H : Folds(h, Requests, H) /\ OwedTo(p)' = H[Requests]
      BY <1>5
    <2>3. H[Requests] = F[Requests] + (h[r] - f[r])
      BY <1>0, <1>1, <1>2, <1>3, <2>1, <2>2, FoldMoves
    <2> QED BY <2>1, <2>2, <2>3
  <1>7. OverrunOf(p)' = OverrunOf(p) + (k[r] - g[r])
    <2>1. PICK G : Folds(g, Requests, G) /\ OverrunOf(p) = G[Requests]
      BY <1>4
    <2>2. PICK K : Folds(k, Requests, K) /\ OverrunOf(p)' = K[Requests]
      BY <1>5
    <2>3. K[Requests] = G[Requests] + (k[r] - g[r])
      BY <1>0, <1>1, <1>2, <1>3, <2>1, <2>2, FoldMoves
    <2> QED BY <2>1, <2>2, <2>3
  <1> QED
    BY <1>3, <1>6, <1>7

\* The two halves of the ledger, for one row.
RowLedger(p) ==
  limits[p] # NoRow =>
    /\ limits[p].dur = Nil => limits[p].spend = Rows0[p].spend + OwedTo(p)
    /\ limits[p].max # Nil => limits[p].spend <= Ceiling(p) + OverrunOf(p)

EInv == SInv /\ BInv /\ \A p \in Principals : RowLedger(p)

\* What the SQL updates do to the columns of the ledger.
LEMMA UpdatesOfLedger ==
  ASSUME NEW row \in Row, NEW amount, NEW next
  PROVE  /\ Charged(row, amount).spend = row.spend + amount
         /\ Charged(row, amount).max = row.max /\ Charged(row, amount).dur = row.dur
         /\ Marked(row).spend = row.spend
         /\ Marked(row).max = row.max /\ Marked(row).dur = row.dur
         /\ Rolled(row, next).spend = 0
         /\ Rolled(row, next).max = row.max /\ Rolled(row, next).dur = row.dur
  BY DEF Charged, Marked, Rolled, Row

\* The columns the ledger reads, and the ceiling, are numbers.
LEMMA LedgerTypes ==
  ASSUME SInv, NEW p \in Principals, limits[p] # NoRow
  PROVE  /\ limits[p] \in Row /\ limits[p].spend \in Int /\ limits[p].max \in Optional(Nat)
         /\ Rows0[p].spend \in Int
         /\ OwedTo(p) \in Nat /\ OverrunOf(p) \in Nat
  <1>1. TypeOK /\ Rows0[p] # NoRow
    BY DEF SInv, HInv, TInv, Table, Configured
  <1>2. limits[p] \in Row /\ Rows0[p] \in Row
    BY <1>1, LimitsAssumption DEF TypeOK
  <1>3. OwedTo(p) \in Nat /\ OverrunOf(p) \in Nat
    BY <1>1, TotalsAreCosts
  <1> QED
    BY <1>2, <1>3 DEF Row

\* The row keeps its spend, and nobody owes it more or less.
LEMMA LedgerStays ==
  ASSUME SInv, NEW p \in Principals, RowLedger(p),
         OwedTo(p)' = OwedTo(p), OverrunOf(p)' = OverrunOf(p),
         \/ limits'[p] = limits[p]
         \/ limits[p] # NoRow /\ limits'[p] = Marked(limits[p])
  PROVE  RowLedger(p)'
  <1>1. CASE limits'[p] = limits[p]
    BY <1>1 DEF RowLedger, Ceiling
  <1>2. CASE limits[p] # NoRow /\ limits'[p] = Marked(limits[p])
    <2>1. limits[p] \in Row
      BY <1>2, LedgerTypes
    <2> QED
      BY <1>2, <2>1, UpdatesOfLedger DEF RowLedger, Ceiling
  <1> QED
    BY <1>1, <1>2

\* The row is charged what a request owes it more: below the cap, or as much as
\* the request overran, or a refund.
LEMMA LedgerCharged ==
  ASSUME SInv, NEW p \in Principals, RowLedger(p), NEW d \in Int, limits[p] # NoRow,
         limits'[p] = Charged(limits[p], d), OwedTo(p)' = OwedTo(p) + d,
         \/ OverrunOf(p)' = OverrunOf(p) /\ (d <= 0 \/ UnderCap(limits[p], d))
         \/ OverrunOf(p)' = OverrunOf(p) + d
  PROVE  RowLedger(p)'
  <1>1. /\ limits'[p].spend = limits[p].spend + d
        /\ limits'[p].max = limits[p].max /\ limits'[p].dur = limits[p].dur
    <2>1. limits[p] \in Row
      BY LedgerTypes
    <2> QED BY <2>1 DEF Charged, Row
  <1>2. ASSUME limits[p].dur = Nil
        PROVE  limits'[p].spend = Rows0[p].spend + OwedTo(p)'
    <2>1. limits[p].spend = Rows0[p].spend + OwedTo(p)
      BY <1>2 DEF RowLedger
    <2>2. limits[p].spend \in Int /\ Rows0[p].spend \in Int /\ OwedTo(p) \in Nat
      BY LedgerTypes
    <2> QED BY <1>1, <2>1, <2>2
  <1>3. ASSUME limits[p].max # Nil
        PROVE  limits'[p].spend <= Ceiling(p) + OverrunOf(p)'
    <2>1. limits[p].max \in Nat /\ Ceiling(p) \in Int /\ limits[p].max <= Ceiling(p)
      <3>1. limits[p].max \in Nat /\ Rows0[p].spend \in Int
        BY <1>3, LedgerTypes DEF Optional
      <3> QED BY <3>1 DEF Ceiling
    <2>2. limits[p].spend <= Ceiling(p) + OverrunOf(p)
      BY <1>3 DEF RowLedger
    <2>3. limits[p].spend \in Int /\ OverrunOf(p) \in Nat
      BY LedgerTypes
    <2>4. UnderCap(limits[p], d) => limits[p].spend + d <= limits[p].max
      BY <1>3 DEF UnderCap
    <2> QED
      BY <1>1, <2>1, <2>2, <2>3, <2>4
  <1>4. limits[p].max # Nil => Ceiling(p)' = Ceiling(p)
    BY <1>1 DEF Ceiling
  <1> QED
    BY <1>1, <1>2, <1>3, <1>4 DEF RowLedger

\* A windowed budget starts again from nothing.
LEMMA LedgerRolled ==
  ASSUME SInv, NEW p \in Principals, NEW next, limits[p] # NoRow, limits[p].dur # Nil,
         limits'[p] = Rolled(limits[p], next),
         OverrunOf(p)' = OverrunOf(p)
  PROVE  RowLedger(p)'
  <1>1. /\ limits'[p].spend = 0
        /\ limits'[p].max = limits[p].max /\ limits'[p].dur = limits[p].dur
    BY LedgerTypes, UpdatesOfLedger
  <1>2. ASSUME limits[p].max # Nil
        PROVE  0 <= Ceiling(p)' + OverrunOf(p)'
    <2>1. limits[p].max \in Nat /\ Rows0[p].spend \in Int /\ OverrunOf(p) \in Nat
      BY <1>2, LedgerTypes DEF Optional
    <2>2. Ceiling(p)' \in Nat
      BY <1>1, <2>1 DEF Ceiling
    <2> QED BY <2>1, <2>2
  <1> QED
    BY <1>1, <1>2 DEF RowLedger

\* Reservations are taken by Reserve and settled by SettleRow only, and a bill
\* is set before anything is settled.
LEMMA AccountSteps ==
  ASSUME NEW r \in Requests, BInv, Handler(r) \/ Fault(r)
  PROVE  /\ model' = model
         /\ ~Reserve(r) => taken' = taken
         /\ ~SettleRow(r) => paid' = paid
         /\ bill' = bill \/ (pc[r] \in {"reserve", "dispatch"} /\ \E b : bill' = [bill EXCEPT ![r] = b])
  <1>1. CASE Begin(r)
    BY <1>1, Zenon DEF Begin, Start, TurnedAway, LoadNothing, LoadOpen, LoadLapsed,
      RollWins, RollLoses, Reload, Check, ModelRefused, Admit, SlotRefused, RateRefused,
      Reserve, ReserveRefused, Settle, request, history
  <1>2. CASE Finish(r)
    BY <1>2, Zenon DEF Finish, Deliver, DispatchFails, Settle, SettleRow, Mark, Free,
      request, history
  <1>3. CASE Fault(r)
    BY <1>3, Zenon DEF Fault, LoadFails, ReserveFails, SettleFails, MarkFails, Disconnect,
      Settle, request, history
  <1> QED
    BY <1>1, <1>2, <1>3 DEF Handler

\* A step of r leaves what the others owe as it is.
LEMMA OthersOwe ==
  ASSUME NEW r \in Requests, BInv, Handler(r) \/ Fault(r), NEW s \in Requests \ {r}, NEW p
  PROVE  Owed(s, p)' = Owed(s, p) /\ Overrun(s, p)' = Overrun(s, p)
  <1>1. taken'[s] = taken[s] /\ paid'[s] = paid[s]
    BY BookHandler DEF BookKept, SameBook
  <1>2. bill'[s] = bill[s] /\ model' = model
    BY AccountSteps DEF BInv, TInv, TypeOK
  <1> QED
    BY <1>1, <1>2 DEF Owed, Overrun, Delta, Reserved

\* So does a step of r that neither reserves nor settles with its own account.
LEMMA OwesSame ==
  ASSUME NEW r \in Requests, BInv, Handler(r) \/ Fault(r), ~Reserve(r), ~SettleRow(r), NEW p
  PROVE  Owed(r, p)' = Owed(r, p) /\ Overrun(r, p)' = Overrun(r, p)
  <1>1. taken' = taken /\ paid' = paid /\ model' = model
    BY AccountSteps
  <1>2. bill' = bill \/ paid[r] = {}
    BY AccountSteps DEF BInv, Book, Accounted
  <1> QED
    BY <1>1, <1>2 DEF Owed, Overrun, Delta, Reserved

\* If every account stays, so do the totals.
LEMMA TotalsSame ==
  ASSUME TypeOK, TypeOK', NEW p \in Principals,
         \A s \in Requests : Owed(s, p)' = Owed(s, p) /\ Overrun(s, p)' = Overrun(s, p)
  PROVE  OwedTo(p)' = OwedTo(p) /\ OverrunOf(p)' = OverrunOf(p)
  <1>1. OwedTo(p) \in Nat /\ OverrunOf(p) \in Nat
    BY TotalsAreCosts
  <1>2. CASE Requests = {}
    BY <1>2, TotalsOfNothing, TotalsOfNothingNext DEF NoTotals
  <1>3. CASE Requests # {}
    <2>1. PICK r \in Requests : TRUE
      BY <1>3
    <2>2. Owed(r, p) \in Nat /\ Overrun(r, p) \in Nat
      BY OwedIsCost DEF Costs
    <2>3. /\ OwedTo(p)' = OwedTo(p) + (Owed(r, p)' - Owed(r, p))
          /\ OverrunOf(p)' = OverrunOf(p) + (Overrun(r, p)' - Overrun(r, p))
      BY <2>1, TotalsMove
    <2> QED BY <1>1, <2>2, <2>3
  <1> QED
    BY <1>2, <1>3

\* Every statement that updates a row is one of these four.
LEMMA OnlyFourStore ==
  ASSUME NEW r \in Requests, Handler(r) \/ Fault(r),
         ~RollWins(r), ~Reserve(r), ~SettleRow(r), ~Mark(r)
  PROVE  limits' = limits
  <1>1. CASE Begin(r)
    BY <1>1, Zenon DEF Begin, Start, TurnedAway, LoadNothing, LoadOpen, LoadLapsed,
      RollLoses, Reload, Check, ModelRefused, Admit, SlotRefused, RateRefused,
      ReserveRefused, shared
  <1>2. CASE Finish(r)
    BY <1>2, Zenon DEF Finish, Deliver, DispatchFails, Free, shared
  <1>3. CASE Fault(r)
    BY <1>3, Zenon DEF Fault, LoadFails, ReserveFails, SettleFails, MarkFails, Disconnect, shared
  <1> QED
    BY <1>1, <1>2, <1>3 DEF Handler

\* The roll of a lapsed window resets one windowed row and no account.
LEMMA LedgerOfRoll ==
  ASSUME EInv, NEW r \in Requests, RollWins(r), TypeOK', NEW p \in Principals
  PROVE  RowLedger(p)'
  <1>1. /\ limits[Loading(r)] # NoRow /\ Loading(r) \in Principals
        /\ limits' = [limits EXCEPT ![Loading(r)] = Rolled(limits[Loading(r)], target[r])]
    <2>1. /\ pc[r] = "roll" /\ limits[Loading(r)] # NoRow
          /\ limits' = [limits EXCEPT ![Loading(r)] = Rolled(limits[Loading(r)], target[r])]
      BY Zenon DEF RollWins, CanRoll
    <2> QED
      BY <2>1 DEF EInv, SInv, HInv, TInv, TypeOK, Control, Framed, Loading
  <1>2. limits[Loading(r)].dur # Nil
    BY WinnersRollLapsed DEF EInv, Lapsed
  <1>3. ~Reserve(r) /\ ~SettleRow(r) /\ Handler(r)
    BY DEF RollWins, Reserve, SettleRow, Handler, Begin
  <1>4. OwedTo(p)' = OwedTo(p) /\ OverrunOf(p)' = OverrunOf(p)
    <2>1. \A s \in Requests : Owed(s, p)' = Owed(s, p) /\ Overrun(s, p)' = Overrun(s, p)
      BY <1>3, OthersOwe, OwesSame DEF EInv
    <2> QED BY <2>1, TotalsSame DEF EInv, BInv, TInv
  <1>5. CASE p = Loading(r)
    <2>1. limits'[p] = Rolled(limits[p], target[r])
      BY <1>1, <1>5 DEF EInv, BInv, TInv, TypeOK
    <2> QED
      BY <1>1, <1>2, <1>4, <1>5, <2>1, LedgerRolled DEF EInv
  <1>6. CASE p # Loading(r)
    <2>1. limits'[p] = limits[p]
      BY <1>1, <1>6 DEF EInv, BInv, TInv, TypeOK
    <2> QED
      BY <1>4, <2>1, LedgerStays DEF EInv
  <1> QED
    BY <1>5, <1>6

\* The row a loop is at is none of those it has passed: rows are loaded once.
LEMMA NotBefore ==
  ASSUME NEW r \in Requests, Apart(r), at[r] \in 1 .. Len(snap[r]), Len(snap[r]) \in Nat
  PROVE  Entry(r).who \notin Names(r, at[r] - 1)
  <1>1. SUFFICES ASSUME NEW i \in 1 .. at[r] - 1, snap[r][i].who = Entry(r).who
                 PROVE  FALSE
    BY DEF Names
  <1>2. i \in 1 .. Len(snap[r]) /\ i # at[r]
    OBVIOUS
  <1>3. snap[r][i].who = snap[r][at[r]].who
    BY <1>1 DEF Entry
  <1> QED
    BY <1>2, <1>3 DEF Apart

\* Reserving on a row charges it the estimate, below its cap.
LEMMA LedgerOfReserve ==
  ASSUME EInv, NEW r \in Requests, Reserve(r), TypeOK', NEW p \in Principals
  PROVE  RowLedger(p)'
  <1> DEFINE who == Entry(r).who
  <1>1. /\ pc[r] = "reserve" /\ who \in Principals /\ at[r] \in 1 .. Len(snap[r])
        /\ TInv /\ Apart(r) /\ Reserved(r) \in Nat /\ Len(snap[r]) \in Nat
    BY EntryType, OwedIsCost DEF Reserve, EInv, BInv, SInv, HInv, Sound, Costs, TInv
  <1>2. /\ taken' = [taken EXCEPT ![r] = taken[r] \cup {who}]
        /\ UNCHANGED <<paid, model, bill>>
        /\ \/ Reserved(r) > 0 /\ limits[who] # NoRow /\ UnderCap(limits[who], Reserved(r))
              /\ limits' = [limits EXCEPT ![who] = Charged(limits[who], Reserved(r))]
           \/ ~(Reserved(r) > 0) /\ limits' = limits
    BY Zenon DEF Reserve, Reservable, request
  <1>3. taken[r] = Names(r, at[r] - 1) /\ paid[r] = {}
    BY <1>1 DEF EInv, BInv, Book, Accounted
  <1>4. who \notin taken[r]
    BY <1>1, <1>3, NotBefore
  <1> HIDE DEF who
  <1>5. taken'[r] = taken[r] \cup {who}
    BY <1>1, <1>2 DEF TInv, TypeOK
  <1>6. /\ Overrun(r, p)' = Overrun(r, p)
        /\ p # who => Owed(r, p)' = Owed(r, p)
        /\ p = who => Owed(r, p) = 0 /\ Owed(r, p)' = Reserved(r)
    BY <1>2, <1>3, <1>4, <1>5 DEF Overrun, Owed, Reserved, Delta
  <1>7. /\ OverrunOf(p)' = OverrunOf(p)
        /\ OwedTo(p)' = OwedTo(p) + (IF p = who THEN Reserved(r) ELSE 0)
    <2>1. \A s \in Requests \ {r} : Owed(s, p)' = Owed(s, p) /\ Overrun(s, p)' = Overrun(s, p)
      BY OthersOwe DEF EInv, Handler, Begin
    <2>2. /\ OwedTo(p)' = OwedTo(p) + (Owed(r, p)' - Owed(r, p))
          /\ OverrunOf(p)' = OverrunOf(p) + (Overrun(r, p)' - Overrun(r, p))
      BY <1>1, <2>1, TotalsMove DEF TInv
    <2>3. /\ Owed(r, p) \in Nat /\ Overrun(r, p) \in Nat
          /\ OwedTo(p) \in Nat /\ OverrunOf(p) \in Nat
      BY <1>1, OwedIsCost, TotalsAreCosts DEF TInv, Costs
    <2> QED BY <1>1, <1>6, <2>2, <2>3
  <1>8. CASE p = who /\ limits' # limits
    <2>1. /\ limits[p] # NoRow /\ limits'[p] = Charged(limits[p], Reserved(r))
          /\ UnderCap(limits[p], Reserved(r)) /\ Reserved(r) \in Int
      BY <1>1, <1>2, <1>8 DEF TInv, TypeOK
    <2> QED
      BY <1>7, <1>8, <2>1, LedgerCharged DEF EInv
  <1>9. CASE p # who \/ limits' = limits
    <2>1. limits'[p] = limits[p]
      BY <1>2, <1>9 DEF EInv, BInv, TInv, TypeOK
    <2>2. OwedTo(p)' = OwedTo(p)
      <3>1. CASE p # who
        BY <1>1, <1>7, <3>1, TotalsAreCosts DEF TInv
      <3>2. CASE p = who /\ ~(Reserved(r) > 0)
        BY <1>1, <1>7, <3>2, TotalsAreCosts DEF TInv
      <3>3. CASE p = who /\ Reserved(r) > 0 /\ limits' = limits
        <4>1. limits[p] \in Row /\ limits'[p] = Charged(limits[p], Reserved(r))
          BY <1>1, <1>2, <3>3 DEF TInv, TypeOK
        <4>2. limits[p].spend \in Int /\ limits[p].spend = limits[p].spend + Reserved(r)
          BY <3>3, <4>1, UpdatesOfLedger DEF Row
        <4> QED BY <1>1, <3>3, <4>2
      <3> QED BY <1>9, <3>1, <3>2, <3>3
    <2> QED
      BY <1>7, <2>1, <2>2, LedgerStays DEF EInv
  <1> QED
    BY <1>8, <1>9

\* Settling a row charges it what the bill exceeds the estimate by.
LEMMA LedgerOfSettle ==
  ASSUME EInv, NEW r \in Requests, SettleRow(r), TypeOK', NEW p \in Principals
  PROVE  RowLedger(p)'
  <1> DEFINE who == Entry(r).who
  <1>1. /\ pc[r] = "settle" /\ who \in Principals /\ at[r] \in 1 .. Len(snap[r])
        /\ TInv /\ Apart(r) /\ Delta(r) \in Int /\ at[r] \in 1 .. top[r] /\ top[r] \in Nat
        /\ Len(snap[r]) \in Nat
    <2>1. pc[r] = "settle" /\ TInv /\ Apart(r)
      BY DEF SettleRow, EInv, BInv, SInv, HInv, Sound
    <2>2. at[r] \in 1 .. top[r] /\ top[r] \in Nat /\ at[r] \in 1 .. Len(snap[r])
          /\ Len(snap[r]) \in Nat
      BY <2>1 DEF TInv, TypeOK, Control, Framed
    <2>3. who \in Principals
      BY <2>1, EntryType DEF TInv
    <2>4. Delta(r) \in Int
      BY <2>1, OwedIsCost DEF TInv, Costs
    <2> QED BY <2>1, <2>2, <2>3, <2>4
  <1>2. /\ paid' = [paid EXCEPT ![r] = paid[r] \cup {who}]
        /\ UNCHANGED <<taken, model, bill>>
        /\ \/ Delta(r) # 0 /\ limits[who] # NoRow
              /\ limits' = [limits EXCEPT ![who] = Charged(limits[who], Delta(r))]
           \/ (Delta(r) = 0 \/ limits[who] = NoRow) /\ limits' = limits
    BY Zenon DEF SettleRow, request
  <1>3. taken[r] = Names(r, top[r]) /\ Accounted(r) = Names(r, at[r] - 1)
    BY <1>1 DEF EInv, BInv, Book
  <1>4. who \notin paid[r] /\ who \in taken[r]
    <2>1. who \notin Accounted(r)
      BY <1>1, <1>3, NotBefore
    <2>2. who \in Names(r, top[r])
      BY <1>1 DEF Names, Entry
    <2> QED
      BY <1>3, <2>1, <2>2 DEF Accounted
  <1> HIDE DEF who
  <1>5. paid'[r] = paid[r] \cup {who}
    BY <1>1, <1>2 DEF TInv, TypeOK
  <1>6. bill[r] \in Nat /\ Reserved(r) \in Nat
    BY <1>1, OwedIsCost DEF TInv, TypeOK, Costs
  <1>7. /\ p # who => Owed(r, p)' = Owed(r, p) /\ Overrun(r, p)' = Overrun(r, p)
        /\ p = who => /\ Owed(r, p)' - Owed(r, p) = Delta(r)
                      /\ Overrun(r, p)' - Overrun(r, p) = IF Delta(r) > 0 THEN Delta(r) ELSE 0
    <2>1. Delta(r)' = Delta(r) /\ Reserved(r)' = Reserved(r) /\ bill'[r] = bill[r]
      BY <1>2 DEF Delta, Reserved
    <2>2. CASE p # who
      BY <1>2, <1>5, <2>1, <2>2 DEF Overrun, Owed
    <2>3. CASE p = who
      <3>1. /\ Owed(r, p) = Reserved(r) /\ Owed(r, p)' = bill[r]
            /\ Overrun(r, p) = 0
            /\ Overrun(r, p)' = IF Delta(r) > 0 THEN Delta(r) ELSE 0
        BY <1>4, <1>5, <2>1, <2>3 DEF Overrun, Owed
      <3>2. Delta(r) = bill[r] - Reserved(r)
        BY DEF Delta
      <3> QED BY <1>1, <1>6, <2>3, <3>1, <3>2
    <2> QED BY <2>2, <2>3
  <1>8. /\ OwedTo(p)' = OwedTo(p) + (IF p = who THEN Delta(r) ELSE 0)
        /\ OverrunOf(p)' = OverrunOf(p) + (IF p = who /\ Delta(r) > 0 THEN Delta(r) ELSE 0)
        /\ OwedTo(p) \in Nat /\ OverrunOf(p) \in Nat
    <2>1. \A s \in Requests \ {r} : Owed(s, p)' = Owed(s, p) /\ Overrun(s, p)' = Overrun(s, p)
      BY OthersOwe DEF EInv, Handler, Finish
    <2>2. /\ OwedTo(p)' = OwedTo(p) + (Owed(r, p)' - Owed(r, p))
          /\ OverrunOf(p)' = OverrunOf(p) + (Overrun(r, p)' - Overrun(r, p))
      BY <1>1, <2>1, TotalsMove DEF TInv
    <2>3. /\ Owed(r, p) \in Nat /\ Overrun(r, p) \in Nat
          /\ OwedTo(p) \in Nat /\ OverrunOf(p) \in Nat
      BY <1>1, OwedIsCost, TotalsAreCosts DEF TInv, Costs
    <2> QED BY <1>1, <1>7, <2>2, <2>3
  <1>9. CASE p = who /\ Delta(r) # 0 /\ limits[p] # NoRow
    <2>1. limits'[p] = Charged(limits[p], Delta(r))
      BY <1>1, <1>2, <1>9 DEF TInv, TypeOK
    <2>2. /\ OwedTo(p)' = OwedTo(p) + Delta(r)
          /\ \/ OverrunOf(p)' = OverrunOf(p) /\ Delta(r) <= 0
             \/ OverrunOf(p)' = OverrunOf(p) + Delta(r)
      BY <1>1, <1>8, <1>9
    <2> QED
      BY <1>1, <1>9, <2>1, <2>2, LedgerCharged DEF EInv
  <1>10. CASE p # who \/ Delta(r) = 0
    <2>1. limits'[p] = limits[p]
      BY <1>2, <1>10 DEF EInv, BInv, TInv, TypeOK
    <2>2. OwedTo(p)' = OwedTo(p) /\ OverrunOf(p)' = OverrunOf(p)
      BY <1>8, <1>10
    <2> QED
      BY <2>1, <2>2, LedgerStays DEF EInv
  <1>11. CASE limits[p] = NoRow /\ p = who
    <2>1. limits'[p] = NoRow
      BY <1>2, <1>11
    <2> QED BY <2>1 DEF RowLedger
  <1> QED
    BY <1>9, <1>10, <1>11

\* Every other step leaves the spends and the accounts as they are.
LEMMA LedgerOfRest ==
  ASSUME EInv, NEW r \in Requests, Handler(r) \/ Fault(r), TypeOK', NEW p \in Principals,
         ~RollWins(r), ~Reserve(r), ~SettleRow(r)
  PROVE  RowLedger(p)'
  <1>1. OwedTo(p)' = OwedTo(p) /\ OverrunOf(p)' = OverrunOf(p)
    <2>1. \A s \in Requests : Owed(s, p)' = Owed(s, p) /\ Overrun(s, p)' = Overrun(s, p)
      BY OthersOwe, OwesSame DEF EInv
    <2> QED BY <2>1, TotalsSame DEF EInv, BInv, TInv
  <1>2. CASE ~Mark(r)
    <2>1. limits' = limits
      BY <1>2, OnlyFourStore
    <2> QED
      BY <1>1, <2>1, LedgerStays DEF EInv
  <1>3. CASE Mark(r)
    <2>1. \/ limits' = limits
          \/ /\ limits[Entry(r).who] # NoRow
             /\ limits' = [limits EXCEPT ![Entry(r).who] = Marked(limits[Entry(r).who])]
      BY <1>3, Zenon DEF Mark, CanMark
    <2>2. \/ limits'[p] = limits[p]
          \/ limits[p] # NoRow /\ limits'[p] = Marked(limits[p])
      BY <2>1 DEF EInv, BInv, TInv, TypeOK
    <2> QED
      BY <1>1, <2>2, LedgerStays DEF EInv
  <1> QED
    BY <1>2, <1>3

\* A restart and the clock charge nobody.
LEMMA LedgerEnvironment ==
  ASSUME EInv, Crash \/ Tick \/ UNCHANGED vars, TypeOK', NEW p \in Principals
  PROVE  RowLedger(p)'
  <1>1. UNCHANGED <<limits, taken, paid, bill, model>>
    BY Zenon DEF Crash, Tick, vars, shared, history, request
  <1>2. \A s \in Requests : Owed(s, p)' = Owed(s, p) /\ Overrun(s, p)' = Overrun(s, p)
    BY <1>1 DEF Owed, Overrun, Delta, Reserved
  <1>3. OwedTo(p)' = OwedTo(p) /\ OverrunOf(p)' = OverrunOf(p)
    BY <1>2, TotalsSame DEF EInv, BInv, TInv
  <1> QED
    BY <1>1, <1>3, LedgerStays DEF EInv

\* At first nobody owes anything.
LEMMA LedgerInit == Init => EInv
  <1> SUFFICES ASSUME Init PROVE EInv
    OBVIOUS
  <1>1. SInv /\ BInv
    BY SafetyInit, BookInit
  <1>2. ASSUME NEW p \in Principals PROVE RowLedger(p)
    <2>1. OwedTo(p) = 0
      <3>1. \A r \in Requests : Owed(r, p) = 0
        BY DEF Init, Owed
      <3> QED BY <1>1, <3>1, TotalsOfNothing DEF BInv, TInv, NoTotals
    <2>2. OverrunOf(p) \in Nat /\ limits = Rows0
      BY <1>1, TotalsAreCosts DEF BInv, TInv, Init
    <2>3. limits[p] # NoRow => limits[p].spend \in Int /\ limits[p].max \in Optional(Nat)
      BY <1>1, LedgerTypes
    <2> QED
      BY <2>1, <2>2, <2>3 DEF RowLedger, Ceiling, Optional
  <1> QED
    BY <1>1, <1>2 DEF EInv

\* The ledger holds throughout.
LEMMA LedgerKept == Spec => []EInv
  <1>1. EInv /\ [Next]_vars => EInv'
    <2>1. SUFFICES ASSUME EInv, [Next]_vars PROVE EInv'
      OBVIOUS
    <2>2. SInv'
      BY <2>1, SafetyHandler, SafetyEnvironment DEF Next, EInv
    <2>3. BInv'
      BY <2>1, BookStep DEF EInv
    <2>4. TypeOK'
      BY <2>3 DEF BInv, TInv
    <2>5. ASSUME NEW p \in Principals PROVE RowLedger(p)'
      <3>1. CASE Crash \/ Tick \/ UNCHANGED vars
        BY <2>1, <2>4, <3>1, LedgerEnvironment
      <3>2. ASSUME NEW r \in Requests, Handler(r) \/ Fault(r) PROVE RowLedger(p)'
        BY <2>1, <2>4, <3>2, LedgerOfRoll, LedgerOfReserve, LedgerOfSettle, LedgerOfRest
      <3> QED BY <2>1, <3>1, <3>2 DEF Next
    <2> QED
      BY <2>2, <2>3, <2>5 DEF EInv
  <1> QED
    BY <1>1, LedgerInit, PTL DEF Spec

\* A budget without windows is an exact ledger: whatever the interleaving of
\* reservations, refunds, settlements, failed statements, disconnects and
\* restarts, its spend is what it started with plus what the requests owe.
THEOREM SpendIsExact == Spec => []SpendExact
  <1>1. EInv => SpendExact
    BY DEF EInv, RowLedger, SpendExact
  <1> QED
    BY <1>1, LedgerKept, PTL

\* However many requests read the row before any of them reserved on it, its
\* spend passes the cap only by what bills exceeded their estimates by.
THEOREM CapIsKept == Spec => []CapHolds
  <1>1. EInv => CapHolds
    BY DEF EInv, RowLedger, CapHolds
  <1> QED
    BY <1>1, LedgerKept, PTL

----------------------------------------------------------------------------
(* The management API: the inductive invariant *)

Windowed(row) == row.dur = Nil <=> row.resetAt = Nil

\* What a management call is about to write, and the lapsed window GET found.
Drafts ==
  \A a \in Admins :
    /\ edit[a].step \in {"write", "roll"} => edit[a].who \in Principals /\ edit[a].draft \in Row
    /\ edit[a].step = "write" => Windowed(edit[a].draft)
    /\ edit[a].step = "roll" =>
         /\ edit[a].seen \in Row /\ Lapsed(edit[a].seen, now)
         /\ edit[a].draft.resetAt \in Nat

\* The default a request is about to give.
Sights ==
  \A r \in Requests : sight[r].who # Nil =>
    sight[r].who \in Principals /\ sight[r].draft \in Row /\ Windowed(sight[r].draft)

Below == \A p \in Principals : inflight[p] <= MaxParallel

LInv == HInv /\ AdminTypeOK /\ WindowConsistent /\ Below /\ Drafts /\ Sights

LEMMA AdminStart == AdminInit => LInv
  <1> SUFFICES ASSUME AdminInit PROVE LInv
    OBVIOUS
  <1>1. HInv /\ TypeOK
    BY SafetyInit DEF AdminInit, SInv, HInv, TInv
  <1>2. AdminTypeOK
    BY <1>1 DEF AdminInit, AdminTypeOK, Blank, Optional
  <1>3. WindowConsistent
    BY RowsAssumption DEF AdminInit, Init, WindowConsistent
  <1>4. Below
    BY LimitsAssumption DEF AdminInit, Init, Below
  <1>5. Drafts /\ Sights
    BY DEF AdminInit, Drafts, Sights, Blank, Unseen
  <1> QED
    BY <1>1, <1>2, <1>3, <1>4, <1>5 DEF LInv

----------------------------------------------------------------------------
(* Requests beside the management API *)

\* The row a handler rolls had a window end when it was read, and has the same.
LEMMA RollsAreLapsed ==
  ASSUME LInv, NEW r \in Requests, RollWins(r)
  PROVE  /\ Loading(r) \in Principals /\ target[r] \in Nat
         /\ Lapsed(limits[Loading(r)], now)
  <1>1. /\ pc[r] = "roll" /\ limits[Loading(r)] # NoRow
        /\ limits[Loading(r)].resetAt = Stale(r).resetAt
    BY Zenon DEF RollWins, CanRoll
  <1>2. Lapsed(Stale(r), now)
    BY <1>1 DEF LInv, HInv, Sound
  <1>3. Loading(r) \in Principals /\ target[r] \in Nat
    BY <1>1 DEF LInv, HInv, TInv, TypeOK, Control, Framed, Loading
  <1>4. limits[Loading(r)].dur # Nil
    BY <1>1, <1>2, <1>3 DEF Lapsed, LInv, WindowConsistent
  <1> QED
    BY <1>1, <1>2, <1>3, <1>4 DEF Lapsed

LEMMA WindowsOfRequests ==
  ASSUME LInv, NEW r \in Requests, Handler(r) \/ Fault(r)
  PROVE  WindowConsistent'
  <1>1. CASE UNCHANGED limits
    BY <1>1 DEF LInv, WindowConsistent
  <1>2. CASE \E p \in Principals : Stored(r, p)
    <2>1. PICK p \in Principals : Stored(r, p)
      BY <1>2
    <2>2. limits[p] \in Row /\ limits[p] # NoRow /\ limits \in [Principals -> Row \cup {NoRow}]
      BY <2>1 DEF Stored, LInv, HInv, TInv, TypeOK
    <2>3. Windowed(limits[p])
      BY <2>2 DEF LInv, WindowConsistent, Windowed
    <2>4. \E row : Windowed(row) /\ limits' = [limits EXCEPT ![p] = row]
      <3>1. CASE RollWins(r) /\ p = Loading(r)
                 /\ limits' = [limits EXCEPT ![p] = Rolled(limits[p], target[r])]
        <4>1. limits[p].dur # Nil /\ target[r] # Nil
          BY <3>1, RollsAreLapsed, LimitsAssumption DEF Lapsed
        <4>2. Windowed(Rolled(limits[p], target[r]))
          BY <2>2, <4>1, UpdatesKeepConfig DEF Windowed
        <4> QED BY <3>1, <4>2
      <3>2. CASE limits' = [limits EXCEPT ![p] = Marked(limits[p])]
        <4>1. Windowed(Marked(limits[p]))
          BY <2>2, <2>3, UpdatesKeepConfig DEF Windowed
        <4> QED BY <3>2, <4>1
      <3>3. CASE \E amount \in Int : limits' = [limits EXCEPT ![p] = Charged(limits[p], amount)]
        <4>1. \A amount : Windowed(Charged(limits[p], amount))
          BY <2>2, <2>3, UpdatesKeepConfig DEF Windowed
        <4> QED BY <3>3, <4>1
      <3> QED BY <2>1, <3>1, <3>2, <3>3 DEF Stored
    <2> QED
      BY <2>2, <2>4 DEF LInv, WindowConsistent, Windowed
  <1> QED
    BY <1>1, <1>2, StoreStep DEF LInv, HInv

LEMMA BelowOfRequests ==
  ASSUME LInv, NEW r \in Requests, Handler(r) \/ Fault(r)
  PROVE  Below'
  <1>0. \A p \in Principals : inflight[p] \in Nat /\ inflight'[p] \in Nat
    BY HoldHandler DEF LInv, HInv, TInv, TypeOK
  <1>1. CASE UNCHANGED inflight
    BY <1>1 DEF LInv, Below
  <1>2. CASE Takes(r)
    <2> DEFINE p == Entry(r).who
    <2>1. /\ p \in Principals /\ Entry(r).row \in Row
          /\ Entry(r).row.parallel # Nil /\ inflight[p] < Entry(r).row.parallel
          /\ inflight' = [inflight EXCEPT ![p] = inflight[p] + 1]
      BY <1>2, EntryType DEF Takes, LInv, HInv
    <2>2. Entry(r).row.parallel \in 1 .. MaxParallel
      BY <2>1 DEF Row, Optional
    <2>3. inflight'[p] <= MaxParallel
      BY <1>0, <2>1, <2>2, LimitsAssumption DEF LInv, HInv, TInv, TypeOK
    <2> QED
      BY <2>1, <2>3 DEF LInv, HInv, TInv, TypeOK, Below
  <1>3. CASE Frees
    BY <1>0, <1>3, LimitsAssumption DEF Frees, LInv, Below
  <1> QED
    BY <1>1, <1>2, <1>3, MapKept DEF LInv

LEMMA RequestSteps ==
  ASSUME LInv, NEW r \in Requests, Handler(r) \/ Fault(r), UNCHANGED <<edit, sight>>
  PROVE  LInv'
  <1>1. HInv' /\ UNCHANGED now
    BY HoldHandler, Untouched DEF LInv
  <1>2. AdminTypeOK'
    BY <1>1 DEF LInv, AdminTypeOK, HInv, TInv
  <1>3. Drafts' /\ Sights'
    BY <1>1 DEF LInv, Drafts, Sights, Windowed, Lapsed
  <1> QED
    BY <1>1, <1>2, <1>3, WindowsOfRequests, BelowOfRequests DEF LInv

LEMMA LapsedStays ==
  ASSUME NEW row \in Row, NEW t \in Nat, Lapsed(row, t)
  PROVE  Lapsed(row, t + 1)
  BY DEF Lapsed, Row, Optional

LEMMA ClockSteps ==
  ASSUME LInv, Tick, UNCHANGED <<edit, sight>>
  PROVE  LInv'
  <1>1. HInv' /\ now' = now + 1 /\ now \in Nat /\ UNCHANGED <<limits, inflight>>
    <2>1. HInv'
      BY HoldEnvironment DEF LInv
    <2>2. now' = now + 1 /\ UNCHANGED <<limits, inflight>>
      BY DEF Tick, shared
    <2>3. now \in Nat
      BY LimitsAssumption DEF LInv, HInv, TInv, TypeOK
    <2> QED
      BY <2>1, <2>2, <2>3
  <1>2. AdminTypeOK'
    BY <1>1 DEF LInv, AdminTypeOK, HInv, TInv
  <1>3. Drafts'
    BY <1>1, LapsedStays DEF LInv, Drafts, Windowed
  <1>4. Sights' /\ WindowConsistent' /\ Below'
    BY <1>1 DEF LInv, Sights, Windowed, WindowConsistent, Below
  <1> QED
    BY <1>1, <1>2, <1>3, <1>4 DEF LInv

LEMMA CrashSteps ==
  ASSUME LInv, AdminCrash
  PROVE  LInv'
  <1>1. /\ HInv' /\ UNCHANGED <<now, limits>>
        /\ inflight' = [p \in Principals |-> 0]
    BY HoldEnvironment DEF LInv, AdminCrash, Crash
  <1>2. /\ \A a \in Admins :
             edit'[a] = edit[a] \/ edit'[a] = [Blank EXCEPT !.step = "done"]
        /\ \A r \in Requests : sight'[r] \in {Unseen, sight[r]}
    BY DEF AdminCrash
  <1>3. AdminTypeOK'
    BY <1>1 DEF LInv, AdminTypeOK, HInv, TInv, AdminCrash, Blank, Optional
  <1>4. Drafts'
    BY <1>1, <1>2 DEF LInv, Drafts, Blank, Windowed, Lapsed
  <1>5. Sights'
    BY <1>1, <1>2 DEF LInv, Sights, Unseen, Windowed
  <1>6. WindowConsistent' /\ Below'
    BY <1>1, LimitsAssumption DEF LInv, WindowConsistent, Below
  <1> QED
    BY <1>1, <1>3, <1>4, <1>5, <1>6 DEF LInv

----------------------------------------------------------------------------
(* Calls of the management API, and the default *)

LEMMA IdleVars ==
  ASSUME LInv, UNCHANGED vars
  PROVE  /\ HInv' /\ UNCHANGED <<now, limits, inflight>>
         /\ WindowConsistent' /\ Below'
  <1>1. HInv' /\ UNCHANGED <<now, limits, inflight>>
    BY HoldEnvironment DEF LInv, vars, shared
  <1> QED
    BY <1>1 DEF LInv, WindowConsistent, Below

\* A row is written, or removed, under the requests.
LEMMA TableSteps ==
  ASSUME LInv, NEW p \in Principals, NEW row \in Row \cup {NoRow},
         row # NoRow => Windowed(row),
         limits' = [limits EXCEPT ![p] = row],
         raised' \in [Principals -> Nat],
         UNCHANGED <<now, inflight, pc, request, frame, slots, bill, taken, paid, stranded>>
  PROVE  HInv' /\ WindowConsistent' /\ Below'
  <1>1. limits' \in [Principals -> Row \cup {NoRow}]
    BY DEF LInv, HInv, TInv, TypeOK
  <1>2. TypeOK'
    BY <1>1 DEF LInv, HInv, TInv, TypeOK, request, frame
  <1>3. Control'
    BY DEF LInv, HInv, TInv, Control, Framed, request, frame
  <1>4. Counted'
    BY DEF LInv, HInv, Counted, Holders
  <1>5. \A r \in Requests : Sound(r)' /\ Grip(r)'
    BY DEF LInv, HInv, Sound, Grip, Apart, Passed, Loading, Stale, Lapsed, request, frame
  <1>6. WindowConsistent'
    BY DEF LInv, HInv, TInv, TypeOK, WindowConsistent, Windowed
  <1>7. Below'
    BY DEF LInv, Below
  <1> QED
    BY <1>2, <1>3, <1>4, <1>5, <1>6, <1>7 DEF HInv, TInv

\* A management call moves on: what it then holds.
LEMMA EditMoves ==
  ASSUME LInv, NEW a \in Admins, HInv', UNCHANGED <<now, sight>>,
         NEW new \in [step : {"write", "roll", "done"}, who : Optional(Principals),
                      seen : Row \cup {NoRow}, draft : Row \cup {NoRow}],
         edit' = [edit EXCEPT ![a] = new],
         new.step \in {"write", "roll"} => new.who \in Principals /\ new.draft \in Row,
         new.step = "write" => Windowed(new.draft),
         new.step = "roll" =>
           new.seen \in Row /\ Lapsed(new.seen, now) /\ new.draft.resetAt \in Nat
  PROVE  AdminTypeOK' /\ Drafts' /\ Sights'
  <1>1. /\ edit'[a] = new /\ \A b \in Admins \ {a} : edit'[b] = edit[b]
    BY DEF LInv, AdminTypeOK
  <1>2. AdminTypeOK'
    BY DEF LInv, AdminTypeOK, HInv, TInv
  <1>3. Drafts'
    BY <1>1 DEF LInv, Drafts, Windowed, Lapsed
  <1>4. Sights'
    BY DEF LInv, Sights, Windowed
  <1> QED
    BY <1>2, <1>3, <1>4

LEMMA Closes ==
  ASSUME LInv, NEW a \in Admins, HInv', UNCHANGED <<now, sight>>, Close(a)
  PROVE  AdminTypeOK' /\ Drafts' /\ Sights'
  <1> DEFINE new == [Blank EXCEPT !.step = "done"]
  <1>1. /\ new \in [step : {"write", "roll", "done"}, who : Optional(Principals),
                    seen : Row \cup {NoRow}, draft : Row \cup {NoRow}]
        /\ new.step = "done"
    BY DEF Blank, Optional
  <1>2. edit' = [edit EXCEPT ![a] = new]
    BY DEF Close
  <1> HIDE DEF new
  <1> QED
    BY <1>1, <1>2, EditMoves

LEMMA DraftTypes ==
  ASSUME NEW a \in Admins, NEW step \in {"write", "roll"}, NEW p \in Principals,
         NEW row \in Row, TypeOK, Draft(a, step, p, row)
  PROVE  \E new \in [step : {"write", "roll", "done"}, who : Optional(Principals),
                     seen : Row \cup {NoRow}, draft : Row \cup {NoRow}] :
           /\ edit' = [edit EXCEPT ![a] = new]
           /\ new.step = step /\ new.who = p /\ new.seen = limits[p] /\ new.draft = row
  <1> DEFINE new == [step |-> step, who |-> p, seen |-> limits[p], draft |-> row]
  <1>1. new \in [step : {"write", "roll", "done"}, who : Optional(Principals),
                 seen : Row \cup {NoRow}, draft : Row \cup {NoRow}]
    BY DEF TypeOK, Optional
  <1>2. edit' = [edit EXCEPT ![a] = new]
    BY DEF Draft
  <1> QED
    BY <1>1, <1>2

\* A window that starts now ends at a time.
LEMMA InitialResets ==
  ASSUME NEW dur \in Optional(Nat \ {0}), NEW t \in Nat
  PROVE  /\ InitialReset(dur, t) \in Optional(Nat)
         /\ dur = Nil <=> InitialReset(dur, t) = Nil
  <1>1. CASE dur = Nil
    BY <1>1 DEF InitialReset, Optional
  <1>2. CASE dur # Nil
    <2>1. dur \in Nat /\ t + dur \in Nat
      BY <1>2 DEF Optional
    <2> QED BY <1>2, <2>1, LimitsAssumption DEF InitialReset, Optional
  <1> QED BY <1>1, <1>2

LEMMA MergedRow ==
  ASSUME NEW old \in Row \cup {NoRow}, NEW input \in Input, NEW t \in Nat,
         old # NoRow => Windowed(old)
  PROVE  Merged(old, input, t) \in Row /\ Windowed(Merged(old, input, t))
  <1> DEFINE spend == IF old = NoRow THEN 0 ELSE old.spend
             end == IF old = NoRow \/ old.dur # input.dur THEN InitialReset(input.dur, t)
                                                          ELSE old.resetAt
             alerted == old # NoRow /\ old.alerted /\ input.soft # Nil /\ spend >= input.soft
  <1>1. /\ input.max \in Optional(Nat) /\ input.soft \in Optional(Nat)
        /\ input.dur \in Optional(Nat \ {0}) /\ input.allowed \in SUBSET Models
        /\ input.rpm \in BOOLEAN /\ input.parallel \in Optional(1 .. MaxParallel)
    BY DEF Input
  <1>2. spend \in Int
    BY DEF Row
  <1>3. end \in Optional(Nat) /\ (input.dur = Nil <=> end = Nil)
    <2>1. CASE old = NoRow \/ old.dur # input.dur
      BY <1>1, <2>1, InitialResets
    <2>2. CASE old # NoRow /\ old.dur = input.dur
      BY <2>2 DEF Row, Windowed
    <2> QED BY <2>1, <2>2
  <1>4. alerted \in BOOLEAN
    OBVIOUS
  <1>5. Merged(old, input, t) =
          [max |-> input.max, soft |-> input.soft, dur |-> input.dur, spend |-> spend,
           allowed |-> input.allowed, rpm |-> input.rpm, parallel |-> input.parallel,
           resetAt |-> end, alerted |-> alerted]
    BY Zenon DEF Merged
  <1> HIDE DEF spend, end, alerted
  <1> QED
    BY <1>1, <1>2, <1>3, <1>4, <1>5 DEF Row, Windowed

LEMMA ClearedRow ==
  ASSUME NEW old \in Row, NEW t \in Nat
  PROVE  Cleared(old, t) \in Row /\ Windowed(Cleared(old, t))
  <1> DEFINE end == InitialReset(old.dur, t)
  <1>1. end \in Optional(Nat) /\ (old.dur = Nil <=> end = Nil)
    BY InitialResets DEF Row
  <1> HIDE DEF end
  <1>2. \A x \in Row : /\ [x EXCEPT !.resetAt = end] \in Row
                       /\ [x EXCEPT !.resetAt = end].resetAt = end
                       /\ [x EXCEPT !.resetAt = end].dur = x.dur
    BY <1>1, Zenon DEF Row
  <1>3. \A x \in Row : [x EXCEPT !.alerted = FALSE] \in Row
                       /\ [x EXCEPT !.alerted = FALSE].dur = x.dur
    BY Zenon DEF Row
  <1>4. [old EXCEPT !.spend = 0] \in Row /\ [old EXCEPT !.spend = 0].dur = old.dur
    BY 0 \in Int, Zenon DEF Row
  <1>5. Cleared(old, t) = [[[old EXCEPT !.spend = 0] EXCEPT !.alerted = FALSE]
                             EXCEPT !.resetAt = end]
    BY Zenon DEF Cleared, end
  <1> DEFINE emptied == [old EXCEPT !.spend = 0]
             quiet == [emptied EXCEPT !.alerted = FALSE]
  <1>6. quiet \in Row /\ quiet.dur = old.dur
    <2> HIDE DEF emptied
    <2> QED BY <1>3, <1>4 DEF emptied
  <1> HIDE DEF quiet
  <1>7. /\ [quiet EXCEPT !.resetAt = end] \in Row
        /\ [quiet EXCEPT !.resetAt = end].resetAt = end
        /\ [quiet EXCEPT !.resetAt = end].dur = old.dur
    BY <1>2, <1>6
  <1>8. Cleared(old, t) = [quiet EXCEPT !.resetAt = end]
    BY <1>5 DEF quiet
  <1> QED
    BY <1>1, <1>7, <1>8 DEF Windowed

LEMMA DefaultRowType ==
  ASSUME NEW t \in Nat
  PROVE  DefaultRow(t) \in Row /\ Windowed(DefaultRow(t))
  <1> DEFINE end == InitialReset(DefaultDur, t)
  <1>1. end \in Optional(Nat) /\ (DefaultDur = Nil <=> end = Nil)
    BY InitialResets, AdminAssumption
  <1>2. DefaultRow(t) =
          [max |-> DefaultMax, soft |-> Nil, dur |-> DefaultDur, spend |-> 0,
           resetAt |-> end, alerted |-> FALSE, allowed |-> Models,
           rpm |-> FALSE, parallel |-> Nil]
    BY DEF DefaultRow
  <1> HIDE DEF end
  <1> QED
    BY <1>1, <1>2, AdminAssumption DEF Row, Windowed, Optional

LEMMA ReadSteps ==
  ASSUME LInv, NEW a \in Admins, NEW p \in Principals, UNCHANGED sight,
         \/ \E input \in Inputs : PutRead(a, p, input)
         \/ ResetRead(a, p) \/ GetLapsed(a, p)
  PROVE  LInv'
  <1>1. UNCHANGED vars
    BY DEF PutRead, ResetRead, GetLapsed
  <1>2. /\ HInv' /\ UNCHANGED <<now, limits, inflight>> /\ WindowConsistent' /\ Below'
    BY <1>1, IdleVars
  <1>3. /\ TypeOK /\ now \in Nat /\ limits[p] \in Row \cup {NoRow}
        /\ limits[p] # NoRow => Windowed(limits[p])
    BY DEF LInv, HInv, TInv, TypeOK, WindowConsistent, Windowed
  <1>4. CASE \E input \in Inputs : PutRead(a, p, input)
    <2>1. PICK input \in Inputs : Draft(a, "write", p, Merged(limits[p], input, now))
      BY <1>4 DEF PutRead
    <2>2. /\ Merged(limits[p], input, now) \in Row
          /\ Windowed(Merged(limits[p], input, now))
      BY <1>3, MergedRow, AdminAssumption
    <2>3. PICK new \in [step : {"write", "roll", "done"}, who : Optional(Principals),
                        seen : Row \cup {NoRow}, draft : Row \cup {NoRow}] :
            /\ edit' = [edit EXCEPT ![a] = new]
            /\ new.step = "write" /\ new.who = p /\ new.draft = Merged(limits[p], input, now)
      BY <1>3, <2>1, <2>2, DraftTypes
    <2>4. AdminTypeOK' /\ Drafts' /\ Sights'
      BY <1>2, <2>2, <2>3, EditMoves
    <2> QED BY <1>2, <2>4 DEF LInv
  <1>5. CASE ResetRead(a, p)
    <2>1. limits[p] # NoRow /\ Draft(a, "write", p, Cleared(limits[p], now))
      BY <1>5 DEF ResetRead
    <2>2. Cleared(limits[p], now) \in Row /\ Windowed(Cleared(limits[p], now))
      BY <1>3, <2>1, ClearedRow
    <2>3. PICK new \in [step : {"write", "roll", "done"}, who : Optional(Principals),
                        seen : Row \cup {NoRow}, draft : Row \cup {NoRow}] :
            /\ edit' = [edit EXCEPT ![a] = new]
            /\ new.step = "write" /\ new.who = p /\ new.draft = Cleared(limits[p], now)
      BY <1>3, <2>1, <2>2, DraftTypes
    <2>4. AdminTypeOK' /\ Drafts' /\ Sights'
      BY <1>2, <2>2, <2>3, EditMoves
    <2> QED BY <1>2, <2>4 DEF LInv
  <1>6. CASE GetLapsed(a, p)
    <2> DEFINE next == NextReset(limits[p], now)
    <2>1. /\ limits[p] # NoRow /\ Lapsed(limits[p], now)
          /\ Draft(a, "roll", p, Rolled(limits[p], next))
      BY <1>6 DEF GetLapsed
    <2>2. next \in Nat
      BY <1>3, <2>1, NextResetIsTime
    <2> HIDE DEF next
    <2>3. Rolled(limits[p], next) \in Row /\ Rolled(limits[p], next).resetAt = next
      BY <1>3, <2>1, <2>2, RowUpdates, UpdatesKeepConfig, 0 \in Int
    <2>4. PICK new \in [step : {"write", "roll", "done"}, who : Optional(Principals),
                        seen : Row \cup {NoRow}, draft : Row \cup {NoRow}] :
            /\ edit' = [edit EXCEPT ![a] = new]
            /\ new.step = "roll" /\ new.who = p /\ new.seen = limits[p]
            /\ new.draft = Rolled(limits[p], next)
      BY <1>3, <2>1, <2>3, DraftTypes
    <2>5. AdminTypeOK' /\ Drafts' /\ Sights'
      BY <1>2, <1>3, <2>1, <2>2, <2>3, <2>4, EditMoves
    <2> QED BY <1>2, <2>5 DEF LInv
  <1> QED
    BY <1>4, <1>5, <1>6

LEMMA WriteSteps ==
  ASSUME LInv, NEW a \in Admins, UNCHANGED sight,
         Write(a) \/ \E p \in Principals : Delete(a, p)
  PROVE  LInv'
  <1>1. /\ UNCHANGED <<now, inflight, pc, request, frame, slots, bill, taken, paid, stranded>>
        /\ raised' \in [Principals -> Nat] /\ Close(a)
    BY DEF Write, Delete, requestVars, history, LInv, HInv, TInv, TypeOK
  <1>2. HInv' /\ WindowConsistent' /\ Below'
    <2>1. CASE Write(a)
      <3>1. /\ edit[a].who \in Principals /\ edit[a].draft \in Row /\ Windowed(edit[a].draft)
            /\ limits' = [limits EXCEPT ![edit[a].who] = edit[a].draft]
        BY <2>1 DEF Write, LInv, Drafts
      <3> QED BY <1>1, <3>1, TableSteps
    <2>2. CASE \E p \in Principals : Delete(a, p)
      <3>1. PICK p \in Principals : limits' = [limits EXCEPT ![p] = NoRow]
        BY <2>2 DEF Delete
      <3> QED BY <1>1, <3>1, TableSteps
    <2> QED BY <2>1, <2>2
  <1> QED
    BY <1>1, <1>2, Closes DEF LInv

\* GET rolls the row it found lapsed, or one with the same window end.
LEMMA GetRollsLapsed ==
  ASSUME LInv, NEW a \in Admins, edit[a].step = "roll", CanGetRoll(a)
  PROVE  /\ edit[a].who \in Principals /\ limits[edit[a].who] \in Row
         /\ limits[edit[a].who] # NoRow
         /\ Lapsed(limits[edit[a].who], now)
  <1>1. /\ edit[a].who \in Principals /\ Lapsed(edit[a].seen, now)
        /\ limits[edit[a].who] # NoRow
        /\ limits[edit[a].who].resetAt = edit[a].seen.resetAt
    BY DEF LInv, Drafts, CanGetRoll
  <1>2. limits[edit[a].who] \in Row /\ Windowed(limits[edit[a].who])
    BY <1>1 DEF LInv, HInv, TInv, TypeOK, WindowConsistent, Windowed
  <1> QED
    BY <1>1, <1>2 DEF Lapsed, Windowed

LEMMA GetRollSteps ==
  ASSUME LInv, NEW a \in Admins, UNCHANGED sight, GetRoll(a)
  PROVE  LInv'
  <1>1. /\ edit[a].step = "roll" /\ Close(a)
        /\ UNCHANGED <<now, inflight, pc, request, frame, slots, bill, taken, paid, stranded>>
    BY DEF GetRoll
  <1>2. CASE CanGetRoll(a)
    <2> DEFINE p == edit[a].who
               next == edit[a].draft.resetAt
    <2>1. /\ limits' = [limits EXCEPT ![p] = Rolled(limits[p], next)]
          /\ raised' = [raised EXCEPT ![p] = 0]
      BY <1>2, Zenon DEF GetRoll
    <2>2. p \in Principals /\ limits[p] \in Row /\ limits[p].dur # Nil
      BY <1>1, <1>2, GetRollsLapsed DEF Lapsed
    <2>3. next \in Nat /\ next # Nil
      BY <1>1, LimitsAssumption DEF LInv, Drafts
    <2> HIDE DEF p, next
    <2>4. Rolled(limits[p], next) \in Row /\ Windowed(Rolled(limits[p], next))
      BY <2>2, <2>3, RowUpdates, UpdatesKeepConfig, 0 \in Int DEF Windowed
    <2>5. raised' \in [Principals -> Nat]
      BY <2>1 DEF LInv, HInv, TInv, TypeOK
    <2>6. HInv' /\ WindowConsistent' /\ Below'
      BY <1>1, <2>1, <2>2, <2>4, <2>5, TableSteps
    <2> QED BY <1>1, <2>6, Closes DEF LInv
  <1>3. CASE ~CanGetRoll(a)
    <2>1. UNCHANGED <<limits, raised>>
      BY <1>3, Zenon DEF GetRoll
    <2>2. UNCHANGED vars
      BY <1>1, <2>1 DEF vars, shared, history
    <2>3. HInv' /\ WindowConsistent' /\ Below'
      BY <2>2, IdleVars
    <2> QED BY <1>1, <2>3, Closes DEF LInv
  <1> QED
    BY <1>2, <1>3

LEMMA AdminSteps ==
  ASSUME LInv, NEW a \in Admins, Admin(a), UNCHANGED sight
  PROVE  LInv'
  <1>1. CASE AdminFails(a)
    <2>1. UNCHANGED vars /\ Close(a)
      BY <1>1 DEF AdminFails
    <2>2. /\ HInv' /\ UNCHANGED now /\ WindowConsistent' /\ Below'
      BY <2>1, IdleVars
    <2> QED BY <2>1, <2>2, Closes DEF LInv
  <1> QED
    BY <1>1, ReadSteps, WriteSteps, GetRollSteps DEF Admin, Put

LEMMA DefaultSteps ==
  ASSUME LInv, NEW r \in Requests, Sight(r) \/ Seed(r)
  PROVE  LInv'
  <1>0. UNCHANGED edit
    BY DEF Sight, Seed
  <1>1. CASE Sight(r)
    <2>1. UNCHANGED vars
      BY <1>1 DEF Sight
    <2>2. /\ HInv' /\ UNCHANGED now /\ WindowConsistent' /\ Below'
      BY <2>1, IdleVars
    <2>3. now \in Nat
      BY DEF LInv, HInv, TInv, TypeOK
    <2>4. PICK new \in {Looked} \cup [who : EndUsers, draft : Row] :
            /\ sight' = [sight EXCEPT ![r] = new]
            /\ new.who # Nil => new.who \in EndUsers /\ new.draft = DefaultRow(now)
      <3> DEFINE who == CHOOSE p \in EndUserOf(r) : limits[p] = NoRow
                 new == [who |-> who, draft |-> DefaultRow(now)]
      <3>1. CASE DefaultMax # Nil /\ \E p \in EndUserOf(r) : limits[p] = NoRow
        <4>1. who \in EndUsers
          BY <3>1 DEF EndUserOf
        <4>2. sight' = [sight EXCEPT ![r] = new]
          BY <1>1, <3>1, Zenon DEF Sight
        <4> HIDE DEF who
        <4>3. new \in [who : EndUsers, draft : Row]
          BY <2>3, <4>1, DefaultRowType
        <4>4. new.who \in EndUsers /\ new.draft = DefaultRow(now)
          BY <4>1
        <4> HIDE DEF new
        <4> QED BY <4>2, <4>3, <4>4
      <3>2. CASE ~(DefaultMax # Nil /\ \E p \in EndUserOf(r) : limits[p] = NoRow)
        <4>1. sight' = [sight EXCEPT ![r] = Looked]
          BY <1>1, <3>2, Zenon DEF Sight
        <4>2. Looked.who = Nil
          BY DEF Looked
        <4> QED BY <4>1, <4>2
      <3> QED BY <3>1, <3>2
    <2>5. /\ sight'[r] = new /\ \A s \in Requests \ {r} : sight'[s] = sight[s]
      BY <2>4 DEF LInv, AdminTypeOK
    <2>6. AdminTypeOK'
      BY <1>0, <2>2, <2>4 DEF LInv, AdminTypeOK, HInv, TInv
    <2>7. Drafts'
      BY <1>0, <2>2 DEF LInv, Drafts, Windowed, Lapsed
    <2>8. Sights'
      <3>1. new.who # Nil =>
              new.who \in Principals /\ new.draft \in Row /\ Windowed(new.draft)
        BY <2>3, <2>4, DefaultRowType, AdminAssumption
      <3> QED BY <2>5, <3>1 DEF LInv, Sights, Windowed
    <2> QED BY <2>2, <2>6, <2>7, <2>8 DEF LInv
  <1>2. CASE Seed(r)
    <2>1. /\ sight[r].who # Nil
          /\ limits' = [limits EXCEPT ![sight[r].who] = sight[r].draft]
          /\ sight' = [sight EXCEPT ![r] = Looked]
          /\ UNCHANGED <<now, inflight, pc, request, frame, slots, bill, taken, paid, stranded>>
          /\ raised' \in [Principals -> Nat]
      BY <1>2 DEF Seed, requestVars, history, LInv, HInv, TInv, TypeOK
    <2>2. sight[r].who \in Principals /\ sight[r].draft \in Row /\ Windowed(sight[r].draft)
      BY <2>1 DEF LInv, Sights
    <2>3. HInv' /\ WindowConsistent' /\ Below'
      BY <2>1, <2>2, TableSteps
    <2>4. AdminTypeOK'
      BY <1>0, <2>1, <2>3 DEF LInv, AdminTypeOK, HInv, TInv
    <2>5. Drafts'
      BY <1>0, <2>1 DEF LInv, Drafts, Windowed, Lapsed
    <2>6. Sights'
      BY <2>1 DEF LInv, AdminTypeOK, Sights, Looked, Windowed
    <2> QED BY <2>3, <2>4, <2>5, <2>6 DEF LInv
  <1> QED
    BY <1>1, <1>2

----------------------------------------------------------------------------
(* The theorems *)

LEMMA AdminSafety == AdminSpec => []LInv
  <1>1. ASSUME LInv, [AdminNext]_adminVars
        PROVE  LInv'
    <2>1. CASE UNCHANGED adminVars
      <3>1. UNCHANGED vars /\ UNCHANGED <<edit, sight>>
        BY <2>1 DEF adminVars
      <3>2. /\ HInv' /\ UNCHANGED now /\ WindowConsistent' /\ Below'
        BY <1>1, <3>1, IdleVars
      <3>3. AdminTypeOK'
        BY <1>1, <3>1, <3>2 DEF LInv, AdminTypeOK, HInv, TInv
      <3>4. Drafts' /\ Sights'
        BY <1>1, <3>1, <3>2 DEF LInv, Drafts, Sights, Windowed, Lapsed
      <3> QED BY <3>2, <3>3, <3>4 DEF LInv
    <2>2. CASE AdminNext
      BY <1>1, <2>2, RequestSteps, ClockSteps, CrashSteps, AdminSteps, DefaultSteps
      DEF AdminNext, SightedHandler
    <2> QED BY <1>1, <2>1, <2>2
  <1> QED
    BY <1>1, AdminStart, PTL DEF AdminSpec

\* Management calls and defaults included, rows, drafts and the control state of every
\* handler stay typed: a request never meets a row it cannot read.
THEOREM AdminTypeCorrect == AdminSpec => []AdminTypeOK
  <1>1. LInv => AdminTypeOK
    BY DEF LInv
  <1> QED
    BY <1>1, AdminSafety, PTL

\* PUT and reset write back a row they read before, rolls are decided on stale rows, and
\* yet a window end goes with every window length and with no lifetime budget.
THEOREM WindowsStayConsistent == AdminSpec => []WindowConsistent
  <1>1. LInv => WindowConsistent
    BY DEF LInv
  <1> QED
    BY <1>1, AdminSafety, PTL

\* Replacing, deleting or creating the rows of principals that have requests in flight
\* leaks no slot, frees none twice, and lets no more in than some cap allows.
THEOREM SlotsSurviveEdits == AdminSpec => []SlotsExactUnderEdits
  <1>1. LInv => SlotsExactUnderEdits
    BY DEF LInv, HInv, SlotsExactUnderEdits, SlotsExact, Counted, Grip, Early, Below
  <1> QED
    BY <1>1, AdminSafety, PTL

\* What next_after computes is the first end after the clock.
LEMMA NextResetIsFirst ==
  ASSUME NEW row \in Row, NEW t \in Nat, Lapsed(row, t)
  PROVE  EndsFirst(row, NextReset(row, t), t)
  <1>1. /\ row.dur \in Nat \ {0} /\ row.resetAt \in Nat /\ row.resetAt <= t
    BY DEF Row, Lapsed, Optional
  <1> DEFINE q    == (t - row.resetAt) \div row.dur
             next == row.resetAt + row.dur * (q + 1)
  <1>2. \A d \in Nat \ {0}, n \in Nat :
          /\ n \div d \in Nat
          /\ d * (n \div d) <= n /\ n < d * (n \div d) + d
    OBVIOUS
  <1>3. q \in Nat /\ row.dur * q <= t - row.resetAt /\ t - row.resetAt < row.dur * q + row.dur
    <2>1. t - row.resetAt \in Nat
      BY <1>1
    <2> QED BY <1>1, <1>2, <2>1, Zenon
  <1> HIDE DEF q
  <1>4. \A d, k \in Nat : d * k \in Nat /\ d * (k + 1) = d * k + d
    OBVIOUS
  <1>5. row.dur * (q + 1) = row.dur * q + row.dur /\ row.dur * q \in Nat
    BY <1>1, <1>3, <1>4
  <1>6. t < next /\ next <= t + row.dur
    BY <1>1, <1>3, <1>5
  <1>7. q + 1 \in 1 .. next
    <2>1. \A d \in Nat \ {0}, k \in Nat : k <= d * k
      OBVIOUS
    <2>2. q <= row.dur * q
      BY <1>1, <1>3, <2>1
    <2> QED BY <1>1, <1>3, <1>5, <2>2
  <1>8. NextReset(row, t) = next
    BY DEF NextReset, q
  <1> HIDE DEF next
  <1>9. next = row.resetAt + row.dur * (q + 1)
    BY DEF next
  <1> QED
    BY <1>6, <1>7, <1>8, <1>9 DEF EndsFirst

\* Requests and GET restart only a window that is over, even when the row was replaced
\* between their read and their update, and with the first end after the clock they read.
THEOREM RollsAreTimelyUnderEdits == AdminSpec => RollOnlyLapsedUnderEdits
  <1>1. LInv =>
          [/\ \A r \in Requests :
                /\ RollWins(r) => Lapsed(limits[Loading(r)], now)
                /\ LoadLapsed(r) => EndsFirst(limits[Loading(r)], target'[r], now)
           /\ \A a \in Admins :
                /\ GetRoll(a) /\ limits' # limits => Lapsed(limits[edit[a].who], now)
                /\ \A p \in Principals :
                     GetLapsed(a, p) =>
                       EndsFirst(limits[p], edit'[a].draft.resetAt, now)]_adminVars
    <2>1. ASSUME LInv, NEW a \in Admins, GetRoll(a), limits' # limits
          PROVE  Lapsed(limits[edit[a].who], now)
      <3>1. edit[a].step = "roll" /\ CanGetRoll(a)
        BY <2>1, Zenon DEF GetRoll
      <3> QED BY <2>1, <3>1, GetRollsLapsed
    <2>2. ASSUME LInv, NEW r \in Requests, LoadLapsed(r)
          PROVE  EndsFirst(limits[Loading(r)], target'[r], now)
      <3>1. /\ Loading(r) \in Principals /\ limits[Loading(r)] \in Row /\ now \in Nat
            /\ target \in [Requests -> Nat]
        BY <2>2 DEF LInv, HInv, TInv, TypeOK, Control, Framed, Loading, LoadLapsed
      <3>2. target'[r] = NextReset(limits[Loading(r)], now)
        BY <2>2, <3>1 DEF LoadLapsed
      <3> QED BY <2>2, <3>1, <3>2, NextResetIsFirst DEF LoadLapsed
    <2>3. ASSUME LInv, NEW a \in Admins, NEW p \in Principals, GetLapsed(a, p)
          PROVE  EndsFirst(limits[p], edit'[a].draft.resetAt, now)
      <3> DEFINE next == NextReset(limits[p], now)
      <3>1. /\ limits[p] \in Row /\ now \in Nat /\ Lapsed(limits[p], now)
            /\ Draft(a, "roll", p, Rolled(limits[p], next))
        BY <2>3 DEF LInv, HInv, TInv, TypeOK, GetLapsed
      <3>2. Rolled(limits[p], next).resetAt = next
        BY <3>1 DEF Rolled, Row
      <3>3. edit'[a].draft = Rolled(limits[p], next)
        BY <2>3, <3>1 DEF Draft, LInv, AdminTypeOK
      <3> QED BY <3>1, <3>2, <3>3, NextResetIsFirst
    <2> QED BY <2>1, <2>2, <2>3, RollsAreLapsed
  <1> QED
    BY <1>1, AdminSafety, PTL DEF RollOnlyLapsedUnderEdits

=============================================================================
