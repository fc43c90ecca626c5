--------------------------- MODULE Gateway_proofs ---------------------------
(***************************************************************************)
(* Proofs about the way of a request through the gateway, for any number   *)
(* of keys, requests, in-flight slots, prices, quotas and rates.           *)
(***************************************************************************)
EXTENDS Gateway, TLAPS, FiniteSetTheorems

----------------------------------------------------------------------------
(* The inductive invariant *)

Using == {s \in Slots : HasSlot(s)}

\* A request past authentication goes with a key that has a row.
Keyed ==
  \A s \in Slots : task[s].pc # "idle" =>
    /\ task[s].key \in Keys
    /\ keys[task[s].key] # None
    /\ task[s].pc = "rate" => task[s].rpm \in Rpms

\* A request waits for the buckets with a time that has been.
Clocked == \A s \in Slots : task[s].pc = "rate" => task[s].now <= ticks

\* A slot is free or some request has it.
Accounted == permits + Cardinality(Using) = MaxPermits

Markup == MaxCharge - Price

\* A key's quota is at most its ceiling, and what is used leaves room for the
\* markups of the reservations.
Ceiled(k) ==
  keys[k] # None /\ ceiling[k] # None =>
    /\ keys[k].quota \in Nat /\ keys[k].quota <= ceiling[k]
    /\ keys[k].used + Cardinality(Held(k)) * Markup
         <= ceiling[k] + MaxPermits * Markup

\* What a bucket could hold now, at the highest rate.
Full == Minute * MaxRpm

Brim(k) ==
  IF bucket[k] = None THEN Full
  ELSE Least(bucket[k].parts + Since(ticks, bucket[k].last) * MaxRpm, Full)

\* The ticks for which an observed key has been given tokens.
Due(w) == Minute * (1 + w.restarts) + w.elapsed + w.late

Metered(k) ==
  window[k] # None =>
    window[k].taken * Minute + Brim(k) <= MaxRpm * Due(window[k])

SlotInv == TypeOK /\ Keyed /\ Accounted

----------------------------------------------------------------------------
(* Requests that have a slot or hold a reservation *)

LEMMA Counted ==
  ASSUME NEW S \in SUBSET Slots
  PROVE  /\ IsFiniteSet(S)
         /\ Cardinality(S) \in Nat
         /\ \A x : x \notin S => Cardinality(S \cup {x}) = Cardinality(S) + 1
         /\ \A x \in S : Cardinality(S \ {x}) = Cardinality(S) - 1
         /\ \A T \in SUBSET S : Cardinality(T) <= Cardinality(S)
         /\ S # {} => Cardinality(S) > 0
         /\ Cardinality({}) = 0
  <1>1. IsFiniteSet(S)
    BY GatewayAssumption, FS_Subset
  <1>2. Cardinality(S) \in Nat
    BY <1>1, FS_CardinalityType
  <1>3. \A x : x \notin S => Cardinality(S \cup {x}) = Cardinality(S) + 1
    BY <1>1, FS_AddElement
  <1>4. \A x \in S : Cardinality(S \ {x}) = Cardinality(S) - 1
    BY <1>1, FS_RemoveElement
  <1>5. \A T \in SUBSET S : Cardinality(T) <= Cardinality(S)
    BY <1>1, FS_Subset
  <1>6. /\ S # {} => Cardinality(S) # 0
        /\ Cardinality({}) = 0
    BY <1>1, FS_EmptySet
  <1> QED
    BY <1>1, <1>2, <1>3, <1>4, <1>5, <1>6

\* Held requests have slots, of which there are MaxPermits.
LEMMA HeldBounded ==
  ASSUME SlotInv, NEW k \in Keys
  PROVE  /\ Cardinality(Held(k)) \in Nat
         /\ Cardinality(Held(k)) <= Cardinality(Using)
         /\ Cardinality(Using) \in 0 .. MaxPermits
  <1>1. Using \in SUBSET Slots /\ Held(k) \in SUBSET Using
    BY DEF Using, Held, Holds, HasSlot
  <1>2. /\ Cardinality(Held(k)) \in Nat
        /\ Cardinality(Using) \in Nat
        /\ Cardinality(Held(k)) <= Cardinality(Using)
    BY <1>1, Counted
  <1> QED
    BY <1>2, GatewayAssumption DEF SlotInv, Accounted, TypeOK

LEMMA HeldBoundedNext ==
  ASSUME SlotInv', NEW k \in Keys
  PROVE  Cardinality(Held(k)') \in Nat /\ Cardinality(Held(k)') <= MaxPermits
  <1>1. Using' \in SUBSET Slots /\ Held(k)' \in SUBSET Using'
    BY DEF Using, Held, Holds, HasSlot
  <1>2. /\ Cardinality(Held(k)') \in Nat
        /\ Cardinality(Using') \in Nat
        /\ Cardinality(Held(k)') <= Cardinality(Using')
    BY <1>1, Counted
  <1> QED
    BY <1>2, GatewayAssumption DEF SlotInv, Accounted, TypeOK

\* One task changes: who has a slot and whose reservation is held.
LEMMA OneMoves ==
  ASSUME TypeOK, NEW s \in Slots, NEW new \in Task,
         task' = [task EXCEPT ![s] = new]
  PROVE  /\ task' \in [Slots -> Task]
         /\ Using' = IF new.pc \in {"body", "reserve", "limits", "cache",
                                    "call", "settle", "finish"}
                     THEN Using \cup {s} ELSE Using \ {s}
         /\ \A k : Held(k)' =
              IF new.key = k /\ new.pc \in {"limits", "cache", "call", "settle"}
              THEN Held(k) \cup {s} ELSE Held(k) \ {s}
  <1>1. task \in [Slots -> Task]
    BY DEF TypeOK
  <1>2. task'[s] = new /\ \A x \in Slots \ {s} : task'[x] = task[x]
    BY <1>1
  <1>3. task' \in [Slots -> Task]
    BY <1>1
  <1>4. Using' = IF new.pc \in {"body", "reserve", "limits", "cache",
                                "call", "settle", "finish"}
                 THEN Using \cup {s} ELSE Using \ {s}
    BY <1>2 DEF Using, HasSlot
  <1>5. ASSUME NEW k
        PROVE  Held(k)' =
          IF new.key = k /\ new.pc \in {"limits", "cache", "call", "settle"}
          THEN Held(k) \cup {s} ELSE Held(k) \ {s}
    BY <1>2 DEF Held, Holds
  <1> QED
    BY <1>3, <1>4, <1>5

LEMMA InHeld ==
  ASSUME NEW s \in Slots
  PROVE  \A k : s \in Held(k) <=> task[s].key = k /\ Holds(s)
  BY DEF Held

LEMMA LeaveKeepsSlots ==
  ASSUME SlotInv, NEW s \in Slots, Leave(s)
  PROVE  /\ permits' \in 0 .. MaxPermits
         /\ task' \in [Slots -> Task]
         /\ Accounted'
         /\ \A k : Held(k)' = Held(k) \ {s}
  <1>1. Idle \in Task
    BY GatewayAssumption DEF Idle, Task
  <1>2. /\ task' \in [Slots -> Task]
        /\ Using' = Using \ {s}
        /\ \A k : Held(k)' = Held(k) \ {s}
    BY <1>1, OneMoves DEF Leave, SlotInv, Idle
  <1>3. Using \in SUBSET Slots
    BY DEF Using
  <1>4. CASE HasSlot(s)
    <2>1. s \in Using
      BY <1>4 DEF Using
    <2>2. Cardinality(Using') = Cardinality(Using) - 1 /\ Cardinality(Using) > 0
      BY <1>2, <1>3, <2>1, Counted
    <2> QED
      BY <1>2, <1>3, <1>4, <2>2, Counted, GatewayAssumption
      DEF Leave, SlotInv, Accounted, TypeOK
  <1>5. CASE ~HasSlot(s)
    <2>1. Using' = Using /\ permits' = permits
      BY <1>2, <1>5 DEF Using, Leave
    <2> QED
      BY <1>2, <2>1 DEF SlotInv, Accounted, TypeOK
  <1> QED
    BY <1>4, <1>5

\* A request that keeps its slot moves on.
LEMMA MoveKeepsSlots ==
  ASSUME SlotInv, NEW s \in Slots, NEW new \in Task,
         task' = [task EXCEPT ![s] = new], UNCHANGED permits,
         HasSlot(s) <=> new.pc \in {"body", "reserve", "limits", "cache",
                                    "call", "settle", "finish"}
  PROVE  permits' \in 0 .. MaxPermits /\ task' \in [Slots -> Task] /\ Accounted'
  <1>1. Using' = Using
    BY OneMoves DEF SlotInv, Using
  <1> QED
    BY <1>1, OneMoves DEF SlotInv, Accounted, TypeOK

\* A step of one request, seen as the task it leaves behind.
Moved(s, new) == [task[s] EXCEPT !.pc = new]

LEMMA GotoMoves ==
  ASSUME TypeOK, NEW s \in Slots,
         NEW pc \in {"rate", "slot", "body", "reserve", "limits", "cache",
                     "call", "settle", "finish"},
         Goto(s, pc)
  PROVE  /\ Moved(s, pc) \in Task
         /\ Moved(s, pc).pc = pc /\ Moved(s, pc).key = task[s].key
         /\ task' = [task EXCEPT ![s] = Moved(s, pc)]
  <1>1. task[s] \in Task
    BY DEF TypeOK
  <1>2. /\ Moved(s, pc) \in Task
        /\ Moved(s, pc).pc = pc /\ Moved(s, pc).key = task[s].key
    BY <1>1 DEF Moved, Task
  <1> QED
    BY <1>2 DEF Goto, Moved, TypeOK

LEMMA KeyedMoves ==
  ASSUME SlotInv, NEW s \in Slots, NEW new \in Task,
         task' = [task EXCEPT ![s] = new],
         \A k \in Keys : keys[k] # None => keys'[k] # None,
         new.pc # "idle" => /\ new.key \in Keys /\ keys'[new.key] # None
                            /\ new.pc = "rate" => new.rpm \in Rpms
  PROVE  Keyed'
  <1>1. task'[s] = new /\ \A x \in Slots \ {s} : task'[x] = task[x]
    BY DEF SlotInv, TypeOK
  <1>2. ASSUME NEW x \in Slots, task'[x].pc # "idle"
        PROVE  /\ task'[x].key \in Keys
               /\ keys'[task'[x].key] # None
               /\ task'[x].pc = "rate" => task'[x].rpm \in Rpms
    <2>1. CASE x = s
      BY <1>1, <1>2, <2>1
    <2>2. CASE x # s
      BY <1>1, <1>2, <2>2 DEF SlotInv, Keyed
    <2> QED
      BY <2>1, <2>2
  <1> QED
    BY <1>2 DEF Keyed

LEMMA KeyedLeaves ==
  ASSUME SlotInv, NEW s \in Slots, Leave(s),
         \A k \in Keys : keys[k] # None => keys'[k] # None
  PROVE  Keyed'
  <1>1. Idle \in Task /\ Idle.pc = "idle"
    BY GatewayAssumption DEF Idle, Task
  <1> QED
    BY <1>1, KeyedMoves DEF Leave

----------------------------------------------------------------------------
(* Rates *)

LEMMA Mono ==
  ASSUME NEW a \in Nat, NEW b \in Nat, NEW c \in Nat, a <= b
  PROVE  /\ c * a \in Nat /\ c * b \in Nat /\ c * a <= c * b
         /\ a * c = c * a /\ b * c = c * b
  <1>1. PICK d \in Nat : b = a + d
    BY SMT
  <1>2. c * b = c * a + c * d /\ c * d \in Nat /\ c * a \in Nat
    BY <1>1, SMT
  <1> QED
    BY <1>2, SMT

\* A caller at one of the rates never finds more than the brim.
LEMMA RefilledBounded ==
  ASSUME TypeOK, NEW k \in Keys, NEW rpm \in Rpms,
         NEW now \in 0 .. MaxTicks, now <= ticks
  PROVE  /\ Refilled(k, rpm, now) \in 0 .. Full
         /\ Refilled(k, rpm, now) <= Brim(k)
         /\ Brim(k) \in 0 .. Full
  <1>1. rpm \in Nat /\ MaxRpm \in Nat /\ rpm <= MaxRpm /\ Minute \in Nat
    BY GatewayAssumption
  <1>2. /\ Minute * rpm \in Nat /\ Full \in Nat
        /\ Minute * rpm <= Full
    BY <1>1, Mono DEF Full
  <1>3. CASE bucket[k] = None
    BY <1>2, <1>3 DEF Refilled, Brim
  <1>4. CASE bucket[k] # None
    <2> DEFINE then == Since(now, bucket[k].last)
               whole == Since(ticks, bucket[k].last)
    <2>1. /\ bucket[k].parts \in Nat /\ bucket[k].parts <= Full
          /\ then \in Nat /\ whole \in Nat /\ then <= whole
      BY <1>1, <1>2, <1>4, GatewayAssumption DEF TypeOK, Bucket, Full, Since
    <2> DEFINE low == then * rpm
               top == whole * MaxRpm
               par == bucket[k].parts
               one == Minute * rpm
    <2>2. /\ low \in Nat /\ top \in Nat /\ low <= top
      <3> HIDE DEF then, whole
      <3>1. then * rpm <= then * MaxRpm /\ then * rpm \in Nat
        BY <1>1, <2>1, Mono
      <3>2. then * MaxRpm <= whole * MaxRpm /\ whole * MaxRpm \in Nat
            /\ then * MaxRpm \in Nat
        BY <1>1, <2>1, Mono
      <3> QED
        BY <3>1, <3>2
    <2>3. /\ low \in Nat /\ top \in Nat /\ par \in Nat /\ one \in Nat
          /\ low <= top /\ one <= Full /\ Full \in Nat
      BY <1>2, <2>1, <2>2
    <2>4. /\ Refilled(k, rpm, now) = IF par + low < one THEN par + low ELSE one
          /\ Brim(k) = IF par + top < Full THEN par + top ELSE Full
      BY <1>4 DEF Refilled, Brim, Least
    <2> HIDE DEF low, top, par, one
    <2> QED
      BY <2>3, <2>4
  <1> QED
    BY <1>3, <1>4

----------------------------------------------------------------------------
(* The steps of a request keep the slots in order.  Each of these lemmas   *)
(* also says whose reservation is held after the step.                     *)

LEMMA AuthenticateSlots ==
  ASSUME SlotInv, NEW s \in Slots, NEW k \in Keys, NEW image \in BOOLEAN,
         Authenticate(s, k, image)
  PROVE  SlotInv' /\ \A j : Held(j)' = Held(j)
  <1> DEFINE new == [pc |-> IF keys[k].rpm = None THEN "slot" ELSE "rate",
                     key |-> k, rpm |-> keys[k].rpm, image |-> image,
                     cost |-> 0,
                     now |-> IF keys[k].rpm = None THEN 0 ELSE ticks]
  <1>1. keys[k] \in Row /\ keys[k].rpm \in Rpms \cup {None}
    BY DEF SlotInv, TypeOK, Authenticate, Accepted, Row
  <1>2. new \in Task
    BY <1>1, GatewayAssumption DEF Task, SlotInv, TypeOK
  <1>3. task' = [task EXCEPT ![s] = new] /\ task[s].pc = "idle"
    BY DEF Authenticate, At
  <1>4. Keyed'
    <2>1. keys[k] # None /\ UNCHANGED keys
      BY DEF Authenticate, Accepted
    <2>2. /\ new.key = k /\ new.rpm = keys[k].rpm
          /\ new.pc = "rate" => keys[k].rpm # None
      OBVIOUS
    <2> QED
      BY <1>1, <1>2, <1>3, <2>1, <2>2, KeyedMoves
  <1>5. Accounted' /\ task' \in [Slots -> Task] /\ permits' \in 0 .. MaxPermits
    BY <1>2, <1>3, MoveKeepsSlots DEF HasSlot, Authenticate
  <1>6. TypeOK'
    <2>1. begun' \in 0 .. MaxRequests
      BY GatewayAssumption DEF SlotInv, TypeOK, Authenticate, Begin
    <2> QED
      BY <1>5, <2>1 DEF SlotInv, TypeOK, Authenticate
  <1>7. \A j : Held(j)' = Held(j)
    BY <1>2, <1>3, OneMoves DEF SlotInv, Held, Holds
  <1> QED
    BY <1>4, <1>5, <1>6, <1>7 DEF SlotInv

LEMMA SeenTyped ==
  ASSUME TypeOK, NEW k \in Keys, NEW n \in Nat,
         NEW now \in 0 .. MaxTicks, now <= ticks, window' = Seen(k, n, now)
  PROVE  window' \in [Keys -> Window \cup {None}]
  <1>1. CASE window[k] = None
    BY <1>1 DEF Seen, TypeOK
  <1>2. CASE window[k] # None
    <2> DEFINE w == [window[k] EXCEPT !.taken = @ + n, !.late = @ + (ticks - now)]
    <2>1. window[k] \in Window /\ ticks - now \in Nat
      BY <1>2 DEF TypeOK
    <2>2. window' = [window EXCEPT ![k] = w]
      BY <1>2 DEF Seen, TypeOK
    <2>3. w \in Window
      <3> DEFINE d == ticks - now
      <3>1. window[k].late + d \in Nat /\ window[k].taken + n \in Nat
        BY <2>1 DEF Window
      <3> HIDE DEF d
      <3>2. [window[k] EXCEPT !.taken = @ + n, !.late = @ + d] \in Window
        BY <2>1, <3>1 DEF Window
      <3> QED
        BY <3>2 DEF d
    <2> QED
      BY <2>2, <2>3 DEF TypeOK
  <1> QED
    BY <1>1, <1>2

LEMMA TakeTokenSlots ==
  ASSUME SlotInv, Clocked, NEW s \in Slots, TakeToken(s)
  PROVE  SlotInv' /\ \A j : Held(j)' = Held(j)
  <1> DEFINE k == task[s].key
             now == task[s].now
             parts == Refilled(k, task[s].rpm, now)
             new == [task[s] EXCEPT !.pc = "slot", !.rpm = None, !.now = 0]
  <1>1. /\ task[s] \in Task /\ task[s].pc = "rate"
        /\ k \in Keys /\ keys[k] # None /\ task[s].rpm \in Rpms
        /\ now \in 0 .. MaxTicks /\ now <= ticks /\ ticks \in 0 .. MaxTicks
        /\ 0 \in 0 .. MaxTicks
    BY GatewayAssumption DEF SlotInv, Keyed, Clocked, TypeOK, TakeToken, At, Task
  <1>2. parts \in 0 .. Full /\ Minute \in Nat /\ Full \in Nat
    <2>1. Full \in Nat
      BY GatewayAssumption, Mono DEF Full
    <2> QED
      BY <1>1, <2>1, RefilledBounded, GatewayAssumption DEF SlotInv
  <1>3. ASSUME NEW left \in 0 .. Full, Asked(k, left, now)
        PROVE  bucket' \in [Keys -> Bucket \cup {None}]
    <2>1. [parts |-> left, last |-> now] \in Bucket
      BY <1>1, <1>2, <1>3 DEF Bucket, Full
    <2> QED
      BY <1>3, <2>1 DEF Asked, SlotInv, TypeOK
  <1>9. ASSUME NEW n \in Nat, window' = Seen(k, n, now)
        PROVE  window' \in [Keys -> Window \cup {None}]
    BY <1>1, <1>9, SeenTyped DEF SlotInv
  <1>4. CASE /\ parts >= Minute /\ Asked(k, parts - Minute, now)
             /\ window' = Seen(k, 1, now)
             /\ task' = [task EXCEPT ![s].pc = "slot", ![s].rpm = None,
                                     ![s].now = 0]
             /\ UNCHANGED permits
    <2>1. /\ new \in Task /\ new.pc = "slot" /\ new.key = k
          /\ task' = [task EXCEPT ![s] = new]
      BY <1>1, <1>4 DEF Task, SlotInv, TypeOK
    <2>2. Accounted' /\ task' \in [Slots -> Task] /\ permits' \in 0 .. MaxPermits
      BY <1>1, <1>4, <2>1, MoveKeepsSlots DEF HasSlot
    <2>3. Keyed'
      BY <1>1, <2>1, KeyedMoves DEF TakeToken
    <2>4. window' \in [Keys -> Window \cup {None}]
      BY <1>4, <1>9
    <2>5. bucket' \in [Keys -> Bucket \cup {None}]
      <3> HIDE DEF parts, k, now
      <3>1. parts - Minute \in 0 .. Full
        BY <1>2, <1>4
      <3> QED
        BY <1>3, <1>4, <3>1
    <2>6. TypeOK'
      BY <2>2, <2>4, <2>5 DEF SlotInv, TypeOK, TakeToken
    <2>7. \A j : Held(j)' = Held(j)
      BY <1>1, <2>1, OneMoves DEF SlotInv, Held, Holds
    <2> QED
      BY <2>2, <2>3, <2>6, <2>7 DEF SlotInv
  <1>5. CASE /\ parts < Minute /\ Asked(k, parts, now) /\ Leave(s)
             /\ window' = Seen(k, 0, now)
    <2>1. /\ Accounted' /\ task' \in [Slots -> Task]
          /\ permits' \in 0 .. MaxPermits /\ \A j : Held(j)' = Held(j) \ {s}
      BY <1>5, LeaveKeepsSlots
    <2>2. Keyed'
      BY <1>5, KeyedLeaves DEF TakeToken
    <2>3. bucket' \in [Keys -> Bucket \cup {None}]
      BY <1>2, <1>3, <1>5
    <2>6. window' \in [Keys -> Window \cup {None}]
      BY <1>5, <1>9
    <2>4. TypeOK'
      BY <2>1, <2>3, <2>6 DEF SlotInv, TypeOK, TakeToken
    <2>5. \A j : Held(j)' = Held(j)
      BY <1>1, <2>1 DEF Held, Holds
    <2> QED
      BY <2>1, <2>2, <2>4, <2>5 DEF SlotInv
  <1> QED
    BY <1>4, <1>5 DEF TakeToken

\* What a step that only moves or ends its request has in common.
LEMMA GotoSlots ==
  ASSUME SlotInv, NEW s \in Slots, HasSlot(s),
         NEW pc \in {"body", "reserve", "limits", "cache", "call", "settle",
                     "finish"},
         Goto(s, pc), UNCHANGED permits,
         \A k \in Keys : keys[k] # None => keys'[k] # None
  PROVE  /\ Accounted' /\ Keyed' /\ task' \in [Slots -> Task]
         /\ permits' \in 0 .. MaxPermits
         /\ \A k : Held(k)' =
              IF task[s].key = k /\ pc \in {"limits", "cache", "call", "settle"}
              THEN Held(k) \cup {s} ELSE Held(k) \ {s}
  <1>1. /\ Moved(s, pc) \in Task
        /\ Moved(s, pc).pc = pc /\ Moved(s, pc).key = task[s].key
        /\ task' = [task EXCEPT ![s] = Moved(s, pc)]
    BY GotoMoves DEF SlotInv
  <1>2. task[s].key \in Keys /\ keys[task[s].key] # None
    BY DEF SlotInv, Keyed, HasSlot
  <1>3. Keyed'
    BY <1>1, <1>2, KeyedMoves
  <1>4. Accounted' /\ task' \in [Slots -> Task] /\ permits' \in 0 .. MaxPermits
    BY <1>1, MoveKeepsSlots
  <1> QED
    BY <1>1, <1>3, <1>4, OneMoves DEF SlotInv

LEMMA LeaveSlots ==
  ASSUME SlotInv, NEW s \in Slots, Leave(s),
         \A k \in Keys : keys[k] # None => keys'[k] # None
  PROVE  /\ Accounted' /\ Keyed' /\ task' \in [Slots -> Task]
         /\ permits' \in 0 .. MaxPermits
         /\ \A k : Held(k)' = Held(k) \ {s}
         /\ ~Holds(s) => \A k : Held(k)' = Held(k)
  <1>1. /\ Accounted' /\ task' \in [Slots -> Task] /\ permits' \in 0 .. MaxPermits
        /\ \A k : Held(k)' = Held(k) \ {s}
    BY LeaveKeepsSlots
  <1>2. ~Holds(s) => \A k : Held(k)' = Held(k)
    BY <1>1 DEF Held
  <1> QED
    BY <1>1, <1>2, KeyedLeaves

LEMMA AcquireSlotSlots ==
  ASSUME SlotInv, NEW s \in Slots, AcquireSlot(s)
  PROVE  SlotInv' /\ \A j : Held(j)' = Held(j)
  <1> USE DEF SlotInv
  <1>1. task[s].pc = "slot" /\ ~Holds(s) /\ ~HasSlot(s) /\ UNCHANGED keys
    BY DEF AcquireSlot, At, Holds, HasSlot
  <1>2. CASE permits > 0 /\ TakePermit /\ Goto(s, "body")
    <2>1. /\ Moved(s, "body") \in Task
          /\ Moved(s, "body").pc = "body" /\ Moved(s, "body").key = task[s].key
          /\ task' = [task EXCEPT ![s] = Moved(s, "body")]
      BY <1>2, GotoMoves
    <2>2. /\ task' \in [Slots -> Task] /\ Using' = Using \cup {s}
          /\ \A j : Held(j)' = Held(j) \ {s}
      BY <2>1, OneMoves
    <2>6. \A j : Held(j)' = Held(j)
      BY <1>1, <2>2, InHeld
    <2>3. Cardinality(Using') = Cardinality(Using) + 1 /\ Cardinality(Using) \in Nat
      <3>1. Using \in SUBSET Slots /\ s \notin Using
        BY <1>1 DEF Using
      <3> QED
        BY <2>2, <3>1, Counted
    <2>4. Accounted' /\ permits' \in 0 .. MaxPermits
      BY <1>2, <2>3, GatewayAssumption DEF TakePermit, Accounted, TypeOK
    <2>5. Keyed'
      BY <1>1, <2>1, KeyedMoves DEF Keyed
    <2> QED
      BY <2>2, <2>4, <2>5, <2>6 DEF TypeOK, AcquireSlot
  <1>3. CASE permits = 0 /\ Leave(s)
    BY <1>1, <1>3, LeaveSlots DEF TypeOK, AcquireSlot
  <1> QED
    BY <1>2, <1>3 DEF AcquireSlot

LEMMA ValidateSlots ==
  ASSUME SlotInv, NEW s \in Slots, Validate(s)
  PROVE  SlotInv' /\ \A j : Held(j)' = Held(j)
  <1>1. task[s].pc = "body" /\ ~Holds(s) /\ HasSlot(s) /\ UNCHANGED keys
    BY DEF Validate, At, Holds, HasSlot
  <1>2. CASE Goto(s, "reserve") /\ UNCHANGED permits
    <2>1. /\ Accounted' /\ Keyed' /\ task' \in [Slots -> Task]
          /\ permits' \in 0 .. MaxPermits
          /\ \A j : Held(j)' = Held(j) \ {s}
      BY <1>1, <1>2, GotoSlots
    <2>2. \A j : Held(j)' = Held(j)
      BY <1>1, <2>1, InHeld
    <2> QED
      BY <2>1, <2>2 DEF SlotInv, TypeOK, Validate
  <1>3. CASE Leave(s)
    BY <1>1, <1>3, LeaveSlots DEF SlotInv, TypeOK, Validate
  <1> QED
    BY <1>2, <1>3 DEF Validate

LEMMA AddTyped ==
  ASSUME TypeOK, NEW k \in Keys, keys[k] # None, NEW n \in Int, Add(k, n)
  PROVE  /\ keys' \in [Keys -> Row \cup {None}]
         /\ keys'[k].used = keys[k].used + n
         /\ keys'[k].quota = keys[k].quota
         /\ \A j \in Keys : keys[j] # None <=> keys'[j] # None
         /\ \A j \in Keys \ {k} : keys'[j] = keys[j]
  <1>1. keys[k] \in Row /\ [keys[k] EXCEPT !.used = @ + n] \in Row
    BY DEF TypeOK, Row
  <1>2. keys' = [keys EXCEPT ![k] = [keys[k] EXCEPT !.used = keys[k].used + n]]
    BY DEF Add, TypeOK
  <1>3. keys'[k] = [keys[k] EXCEPT !.used = keys[k].used + n]
    BY <1>2 DEF TypeOK
  <1>4. None \notin Row
    BY NoneIsNoRecord
  <1> QED
    BY <1>1, <1>2, <1>3, <1>4 DEF TypeOK, Row

LEMMA ReserveSlots ==
  ASSUME SlotInv, NEW s \in Slots, Reserve(s)
  PROVE  /\ SlotInv'
         /\ \/ /\ Fits(task[s].key) /\ Add(task[s].key, Price)
               /\ s \notin Held(task[s].key)
               /\ \A j : Held(j)' = IF j = task[s].key THEN Held(j) \cup {s}
                                    ELSE Held(j)
            \/ UNCHANGED keys /\ \A j : Held(j)' = Held(j)
  <1>1. task[s].pc = "reserve" /\ ~Holds(s) /\ HasSlot(s)
    BY DEF Reserve, At, Holds, HasSlot
  <1>2. task[s].key \in Keys /\ keys[task[s].key] # None
    BY <1>1 DEF SlotInv, Keyed
  <1>3. CASE /\ Fits(task[s].key) /\ Add(task[s].key, Price)
             /\ Goto(s, "limits") /\ UNCHANGED permits
    <2>1. /\ keys' \in [Keys -> Row \cup {None}]
          /\ \A k \in Keys : keys[k] # None => keys'[k] # None
      BY <1>2, <1>3, AddTyped, GatewayAssumption DEF SlotInv
    <2>2. /\ Accounted' /\ Keyed' /\ task' \in [Slots -> Task]
          /\ permits' \in 0 .. MaxPermits
          /\ \A j : Held(j)' = IF j = task[s].key THEN Held(j) \cup {s}
                               ELSE Held(j) \ {s}
      BY <1>1, <1>3, <2>1, GotoSlots
    <2>3. \A j : s \notin Held(j)
      BY <1>1 DEF Held
    <2>4. TypeOK'
      BY <2>1, <2>2 DEF SlotInv, TypeOK, Reserve
    <2>5. \A j : Held(j)' = IF j = task[s].key THEN Held(j) \cup {s}
                            ELSE Held(j)
      BY <2>2, <2>3
    <2> QED
      BY <1>3, <2>2, <2>3, <2>4, <2>5 DEF SlotInv
  <1>4. CASE Leave(s) /\ UNCHANGED keys
    BY <1>1, <1>4, LeaveSlots DEF SlotInv, TypeOK, Reserve
  <1> QED
    BY <1>3, <1>4 DEF Reserve

Outcome(s, cost) == [task[s] EXCEPT !.pc = "settle", !.cost = cost]

\* A held request that has an outcome keeps its reservation for the settlement.
LEMMA OutcomeSlots ==
  ASSUME SlotInv, NEW s \in Slots, Holds(s), NEW cost \in 0 .. MaxCharge,
         task' = [task EXCEPT ![s].pc = "settle", ![s].cost = cost],
         UNCHANGED <<permits, keys>>
  PROVE  /\ Accounted' /\ Keyed' /\ task' \in [Slots -> Task]
         /\ permits' \in 0 .. MaxPermits
         /\ \A j : Held(j)' = Held(j)
  <1>1. task[s] \in Task /\ HasSlot(s) /\ task[s].pc # "idle"
    BY DEF Holds, HasSlot, SlotInv, TypeOK
  <1>2. /\ Outcome(s, cost) \in Task
        /\ Outcome(s, cost).pc = "settle" /\ Outcome(s, cost).key = task[s].key
        /\ task' = [task EXCEPT ![s] = Outcome(s, cost)]
    BY <1>1 DEF Outcome, Task, SlotInv, TypeOK
  <1>3. task[s].key \in Keys /\ keys[task[s].key] # None
    BY <1>1 DEF SlotInv, Keyed
  <1>4. Keyed'
    BY <1>2, <1>3, KeyedMoves
  <1>5. /\ Accounted' /\ task' \in [Slots -> Task]
        /\ permits' \in 0 .. MaxPermits
    BY <1>1, <1>2, MoveKeepsSlots
  <1>6. \A j : Held(j)' = Held(j)
    <2>1. \A j : Held(j)' = IF task[s].key = j THEN Held(j) \cup {s}
                            ELSE Held(j) \ {s}
      <3> DEFINE new == Outcome(s, cost)
      <3>1. \A j : Held(j)' =
              IF new.key = j /\ new.pc \in {"limits", "cache", "call", "settle"}
              THEN Held(j) \cup {s} ELSE Held(j) \ {s}
        BY <1>2, OneMoves DEF SlotInv
      <3> QED
        BY <1>2, <3>1
    <2> QED
      BY <2>1, InHeld
  <1> QED
    BY <1>4, <1>5, <1>6

LEMMA StayHeld ==
  ASSUME SlotInv, NEW s \in Slots, Holds(s), NEW pc \in {"cache", "call"},
         Goto(s, pc), UNCHANGED <<permits, keys>>
  PROVE  /\ Accounted' /\ Keyed' /\ task' \in [Slots -> Task]
         /\ permits' \in 0 .. MaxPermits
         /\ \A j : Held(j)' = Held(j)
  <1>1. HasSlot(s)
    BY DEF Holds, HasSlot
  <1>2. /\ Accounted' /\ Keyed' /\ task' \in [Slots -> Task]
        /\ permits' \in 0 .. MaxPermits
        /\ \A j : Held(j)' = IF task[s].key = j THEN Held(j) \cup {s}
                             ELSE Held(j) \ {s}
    BY <1>1, GotoSlots
  <1> QED
    BY <1>2, InHeld

LEMMA LimitsBeginSlots ==
  ASSUME SlotInv, NEW s \in Slots, LimitsBegin(s)
  PROVE  SlotInv' /\ \A j : Held(j)' = Held(j)
  <1>1. /\ task[s].pc = "limits" /\ Holds(s) /\ HasSlot(s)
        /\ UNCHANGED <<keys, permits>>
    BY DEF LimitsBegin, At, Holds, HasSlot
  <1>2. CASE Goto(s, "cache") \/ Goto(s, "call")
    <2>1. /\ Accounted' /\ Keyed' /\ task' \in [Slots -> Task]
          /\ permits' \in 0 .. MaxPermits
          /\ \A j : Held(j)' = Held(j)
      BY <1>1, <1>2, StayHeld
    <2> QED
      BY <2>1 DEF SlotInv, TypeOK, LimitsBegin
  <1>3. CASE Nothing(s)
    <2>1. 0 \in 0 .. MaxCharge
      BY GatewayAssumption
    <2> QED
      BY <1>1, <1>3, <2>1, OutcomeSlots
      DEF SlotInv, TypeOK, LimitsBegin, Nothing
  <1> QED
    BY <1>2, <1>3 DEF LimitsBegin

LEMMA ChargesPrice ==
  ASSUME NEW c \in Charges
  PROVE  c \in 0 .. MaxCharge /\ c # None
  BY GatewayAssumption

LEMMA CacheLookupSlots ==
  ASSUME SlotInv, NEW s \in Slots, CacheLookup(s)
  PROVE  SlotInv' /\ \A j : Held(j)' = Held(j)
  <1> DEFINE hit == cache[AppOf[task[s].key]]
  <1>1. /\ task[s].pc = "cache" /\ Holds(s) /\ HasSlot(s)
        /\ UNCHANGED <<keys, permits>>
    BY DEF CacheLookup, At, Holds, HasSlot
  <1>2. CASE hit = None /\ Goto(s, "call")
    <2>1. /\ Accounted' /\ Keyed' /\ task' \in [Slots -> Task]
          /\ permits' \in 0 .. MaxPermits
          /\ \A j : Held(j)' = Held(j)
      BY <1>1, <1>2, StayHeld
    <2> QED
      BY <2>1 DEF SlotInv, TypeOK, CacheLookup
  <1>3. CASE /\ hit # None
             /\ task' = [task EXCEPT ![s].pc = "settle", ![s].cost = hit]
    <2>1. AppOf[task[s].key] \in Apps
      BY <1>1, GatewayAssumption DEF SlotInv, Keyed
    <2>2. hit \in 0 .. MaxCharge
      BY <1>3, <2>1, ChargesPrice DEF SlotInv, TypeOK
    <2> QED
      BY <1>1, <1>3, <2>2, OutcomeSlots DEF SlotInv, TypeOK, CacheLookup
  <1> QED
    BY <1>2, <1>3 DEF CacheLookup

LEMMA GenerateSlots ==
  ASSUME SlotInv, NEW s \in Slots, Generate(s)
  PROVE  SlotInv' /\ \A j : Held(j)' = Held(j)
  <1>1. /\ task[s].pc = "call" /\ Holds(s) /\ HasSlot(s)
        /\ UNCHANGED <<keys, permits>>
    BY DEF Generate, At, Holds, HasSlot
  <1>2. ASSUME NEW c \in Charges,
               task' = [task EXCEPT ![s].pc = "settle", ![s].cost = c],
               cache' = IF task[s].image
                        THEN [cache EXCEPT ![AppOf[task[s].key]] = c] ELSE cache
        PROVE  SlotInv' /\ \A j : Held(j)' = Held(j)
    <2>1. cache' \in [Apps -> Charges \cup {None}]
      BY <1>2 DEF SlotInv, TypeOK
    <2> QED
      BY <1>1, <1>2, <2>1, ChargesPrice, OutcomeSlots
      DEF SlotInv, TypeOK, Generate
  <1>3. CASE Nothing(s) /\ UNCHANGED cache
    <2>1. 0 \in 0 .. MaxCharge
      BY GatewayAssumption
    <2> QED
      BY <1>1, <1>3, <2>1, OutcomeSlots DEF SlotInv, TypeOK, Generate, Nothing
  <1> QED
    BY <1>2, <1>3 DEF Generate

LEMMA SettleSlots ==
  ASSUME SlotInv, NEW s \in Slots, Settle(s)
  PROVE  /\ SlotInv'
         /\ task[s].key \in Keys /\ keys[task[s].key] # None
         /\ s \in Held(task[s].key) /\ task[s].cost \in 0 .. MaxCharge
         /\ \A j : Held(j)' = IF j = task[s].key THEN Held(j) \ {s} ELSE Held(j)
  <1> DEFINE k == task[s].key
             cost == task[s].cost
  <1>1. task[s].pc = "settle" /\ Holds(s) /\ HasSlot(s) /\ s \in Held(k)
    BY DEF Settle, At, Holds, HasSlot, Held
  <1>2. /\ k \in Keys /\ keys[k] # None
        /\ task[s] \in Task /\ cost \in 0 .. MaxCharge
        /\ Price \in Nat /\ cost \in Nat
    BY <1>1, GatewayAssumption DEF SlotInv, Keyed, TypeOK, Task
  <1>3. /\ keys' \in [Keys -> Row \cup {None}]
        /\ \A j \in Keys : keys[j] # None => keys'[j] # None
        /\ lost' \in [Keys -> Int]
    <2>1. CASE Add(k, Delta(cost)) /\ UNCHANGED lost
      <3>1. Delta(cost) \in Int
        BY <1>2 DEF Delta
      <3> QED
        BY <1>2, <2>1, <3>1, AddTyped DEF SlotInv, TypeOK
    <2>2. CASE /\ lost' = [lost EXCEPT ![k] = @ + Price - cost]
               /\ UNCHANGED keys
      BY <1>2, <2>2 DEF SlotInv, TypeOK
    <2> QED
      BY <2>1, <2>2 DEF Settle
  <1>4. spent' \in [Keys -> Nat]
    BY <1>2 DEF Settle, SlotInv, TypeOK
  <1> DEFINE new == [task[s] EXCEPT !.pc = "finish", !.cost = 0]
  <1>5. /\ new \in Task /\ new.pc = "finish" /\ new.key = k
        /\ task' = [task EXCEPT ![s] = new] /\ UNCHANGED permits
    <2>1. 0 \in 0 .. MaxCharge
      BY GatewayAssumption
    <2>2. new \in Task /\ new.pc = "finish" /\ new.key = k
      BY <1>2, <2>1 DEF Task
    <2> QED
      BY <2>2 DEF SlotInv, TypeOK, Settle
  <1>6. Keyed'
    BY <1>2, <1>3, <1>5, KeyedMoves
  <1>7. /\ Accounted' /\ task' \in [Slots -> Task]
        /\ permits' \in 0 .. MaxPermits
    BY <1>1, <1>5, MoveKeepsSlots
  <1>8. \A j : Held(j)' = Held(j) \ {s}
    BY <1>5, OneMoves DEF SlotInv
  <1>9. \A j : Held(j)' = IF j = k THEN Held(j) \ {s} ELSE Held(j)
    BY <1>8, InHeld
  <1>10. TypeOK'
    BY <1>3, <1>4, <1>7 DEF SlotInv, TypeOK, Settle
  <1> QED
    BY <1>1, <1>2, <1>6, <1>7, <1>9, <1>10 DEF SlotInv

LEMMA FinishSlots ==
  ASSUME SlotInv, NEW s \in Slots, Finish(s)
  PROVE  SlotInv' /\ \A j : Held(j)' = Held(j)
  <1>1. ~Holds(s) /\ Leave(s) /\ UNCHANGED keys
    BY DEF Finish, At, Holds
  <1> QED
    BY <1>1, LeaveSlots DEF SlotInv, TypeOK, Finish

LEMMA DroppedSlots ==
  ASSUME SlotInv, NEW s \in Slots, Dropped(s)
  PROVE  /\ SlotInv'
         /\ task[s].key \in Keys
         /\ \A j : Held(j)' = Held(j) \ {s}
  <1>1. /\ task[s].key \in Keys /\ Leave(s) /\ UNCHANGED keys
        /\ lost' \in [Keys -> Int]
    BY GatewayAssumption DEF Dropped, At, SlotInv, Keyed, TypeOK
  <1> QED
    BY <1>1, LeaveSlots DEF SlotInv, TypeOK, Dropped

----------------------------------------------------------------------------
(* Administration, faults and time keep them in order too.                 *)

\* A step that leaves the requests alone and no key without its row.
LEMMA OthersSlots ==
  ASSUME SlotInv, UNCHANGED <<task, permits>>,
         \A k \in Keys : keys[k] # None => keys'[k] # None
  PROVE  Keyed' /\ Accounted' /\ \A j : Held(j)' = Held(j)
  <1>1. Using' = Using /\ \A j : Held(j)' = Held(j)
    BY DEF Using, HasSlot, Held, Holds
  <1>2. Keyed'
    BY DEF SlotInv, Keyed
  <1> QED
    BY <1>1, <1>2 DEF SlotInv, Accounted

LEMMA HigherTyped ==
  ASSUME NEW a \in Nat \cup {None}, NEW b \in Nat \cup {None}
  PROVE  /\ Higher(a, b) \in Nat \cup {None}
         /\ Higher(a, b) # None =>
              /\ a \in Nat /\ b \in Nat /\ Higher(a, b) \in Nat
              /\ a <= Higher(a, b) /\ b <= Higher(a, b)
  <1>1. CASE a = None \/ b = None
    BY <1>1 DEF Higher
  <1>2. CASE a \in Nat /\ b \in Nat /\ a # None /\ b # None
    BY <1>2 DEF Higher
  <1> QED
    BY <1>1, <1>2

LEMMA CreateKeySlots ==
  ASSUME SlotInv, NEW k \in Keys, NEW q \in Quotas \cup {None},
         NEW r \in Rpms \cup {None}, CreateKey(k, q, r)
  PROVE  SlotInv' /\ \A j : Held(j)' = Held(j)
  <1> DEFINE row == [quota |-> q, rpm |-> r, live |-> TRUE, used |-> 0]
  <1>1. row \in Row /\ row # None
    <2>1. row \in Row
      BY DEF Row
    <2> QED
      BY <2>1, NoneIsNoRecord
  <1>2. /\ keys' = [keys EXCEPT ![k] = row]
        /\ keys' \in [Keys -> Row \cup {None}]
    BY <1>1 DEF SlotInv, TypeOK, CreateKey
  <1>3. \A j \in Keys : keys[j] # None => keys'[j] # None
    BY <1>1, <1>2 DEF SlotInv, TypeOK
  <1>4. ceiling' \in [Keys -> Nat \cup {None}]
    <2>1. Higher(ceiling[k], q) \in Nat \cup {None}
      BY GatewayAssumption, HigherTyped DEF SlotInv, TypeOK
    <2> QED
      BY <2>1 DEF SlotInv, TypeOK, CreateKey
  <1>5. Keyed' /\ Accounted' /\ \A j : Held(j)' = Held(j)
    BY <1>3, OthersSlots DEF CreateKey
  <1> QED
    BY <1>2, <1>4, <1>5 DEF SlotInv, TypeOK, CreateKey

LEMMA PatchKeySlots ==
  ASSUME SlotInv, NEW k \in Keys, NEW q \in Quotas \cup {None},
         NEW r \in Rpms \cup {None}, NEW live \in BOOLEAN,
         PatchKey(k, q, r, live)
  PROVE  /\ SlotInv' /\ \A j : Held(j)' = Held(j)
         /\ keys'[k] \in Row
         /\ keys'[k].quota = IF q = None THEN keys[k].quota ELSE q
         /\ keys'[k].used = keys[k].used
         /\ \A j \in Keys \ {k} : keys'[j] = keys[j]
  <1> DEFINE row == [keys[k] EXCEPT
               !.quota = IF q = None THEN keys[k].quota ELSE q,
               !.rpm = IF r = None THEN keys[k].rpm ELSE r,
               !.live = live]
  <1>1. keys[k] \in Row
    BY DEF SlotInv, TypeOK, PatchKey
  <1>2. /\ row \in Row /\ row # None /\ row.used = keys[k].used
        /\ row.quota = IF q = None THEN keys[k].quota ELSE q
    BY <1>1, NoneIsNoRecord DEF Row
  <1>3. keys' = [keys EXCEPT ![k] = row]
    BY <1>1 DEF SlotInv, TypeOK, PatchKey
  <1> HIDE DEF row
  <1>4. /\ keys' \in [Keys -> Row \cup {None}] /\ keys'[k] = row
        /\ \A j \in Keys \ {k} : keys'[j] = keys[j]
    BY <1>2, <1>3 DEF SlotInv, TypeOK
  <1>5. \A j \in Keys : keys[j] # None => keys'[j] # None
    BY <1>2, <1>4
  <1>6. ceiling' \in [Keys -> Nat \cup {None}]
    <2>1. Higher(ceiling[k], row.quota) \in Nat \cup {None}
      BY <1>2, GatewayAssumption, HigherTyped DEF SlotInv, TypeOK, Row
    <2> QED
      BY <1>4, <2>1 DEF SlotInv, TypeOK, PatchKey
  <1>7. Keyed' /\ Accounted' /\ \A j : Held(j)' = Held(j)
    BY <1>5, OthersSlots DEF PatchKey
  <1>8. begun' \in 0 .. MaxRequests
    BY GatewayAssumption DEF SlotInv, TypeOK, PatchKey, Begin
  <1> QED
    BY <1>2, <1>4, <1>6, <1>7, <1>8 DEF SlotInv, TypeOK, PatchKey

LEMMA KeyEndsSlots ==
  ASSUME SlotInv, NEW k \in Keys, KeyEnds(k)
  PROVE  /\ SlotInv' /\ \A j : Held(j)' = Held(j)
         /\ \A j \in Keys : /\ keys'[j] # None <=> keys[j] # None
                            /\ keys[j] # None => /\ keys'[j].used = keys[j].used
                                                 /\ keys'[j].quota = keys[j].quota
  <1> DEFINE row == [keys[k] EXCEPT !.live = FALSE]
  <1>1. keys[k] \in Row
    BY DEF SlotInv, TypeOK, KeyEnds
  <1>2. /\ row \in Row /\ row # None /\ row.used = keys[k].used
        /\ row.quota = keys[k].quota
    BY <1>1, NoneIsNoRecord DEF Row
  <1>3. keys' = [keys EXCEPT ![k] = row]
    BY <1>1 DEF SlotInv, TypeOK, KeyEnds
  <1> HIDE DEF row
  <1>4. /\ keys' \in [Keys -> Row \cup {None}] /\ keys'[k] = row
        /\ \A j \in Keys \ {k} : keys'[j] = keys[j]
    BY <1>2, <1>3 DEF SlotInv, TypeOK
  <1>5. \A j \in Keys : keys[j] # None => keys'[j] # None
    BY <1>2, <1>4
  <1>6. Keyed' /\ Accounted' /\ \A j : Held(j)' = Held(j)
    BY <1>5, OthersSlots DEF KeyEnds
  <1> QED
    BY <1>1, <1>2, <1>4, <1>6, NoneIsNoRecord DEF SlotInv, TypeOK, KeyEnds

LEMMA EvictSlots ==
  ASSUME SlotInv, NEW a \in Apps, Evict(a)
  PROVE  SlotInv' /\ \A j : Held(j)' = Held(j)
  BY OthersSlots DEF Evict, SlotInv, TypeOK

LEMMA ObserveSlots ==
  ASSUME SlotInv, NEW k \in Keys, Observe(k)
  PROVE  SlotInv' /\ \A j : Held(j)' = Held(j)
  <1>1. [taken |-> 0, elapsed |-> 0, restarts |-> 0, late |-> 0] \in Window
    BY DEF Window
  <1> QED
    BY <1>1, OthersSlots DEF Observe, SlotInv, TypeOK

LEMMA TickSlots ==
  ASSUME SlotInv, Tick
  PROVE  SlotInv' /\ \A j : Held(j)' = Held(j)
  <1>1. Keyed' /\ Accounted' /\ \A j : Held(j)' = Held(j)
    BY OthersSlots DEF Tick
  <1>4. ASSUME NEW k \in Keys, window[k] # None
        PROVE  [window[k] EXCEPT !.elapsed = @ + 1] \in Window
    BY <1>4 DEF SlotInv, TypeOK, Window
  <1>5. window' \in [Keys -> Window \cup {None}]
    BY <1>4 DEF Tick
  <1>6. ticks' \in 0 .. MaxTicks
    BY GatewayAssumption DEF SlotInv, TypeOK, Tick
  <1> QED
    BY <1>1, <1>5, <1>6 DEF SlotInv, TypeOK, Tick

LEMMA RestartSlots ==
  ASSUME SlotInv, Restart
  PROVE  SlotInv' /\ \A j : Held(j)' = {}
  <1>1. Idle \in Task
    BY GatewayAssumption DEF Idle, Task
  <1>2. /\ task' = [s \in Slots |-> Idle] /\ task' \in [Slots -> Task]
        /\ permits' = MaxPermits /\ permits' \in 0 .. MaxPermits
    BY <1>1, GatewayAssumption DEF Restart
  <1>3. Using' = {} /\ \A j : Held(j)' = {}
    BY <1>2 DEF Using, HasSlot, Held, Holds, Idle
  <1>4. Keyed'
    BY <1>2 DEF Keyed, Idle
  <1>5. Accounted'
    <2>1. Cardinality({}) = 0
      BY FS_EmptySet
    <2> QED
      BY <1>2, <1>3, <2>1, GatewayAssumption DEF Accounted
  <1>6. lost' \in [Keys -> Int]
    <2>1. ASSUME NEW k \in Keys
          PROVE  lost[k] + Price * Cardinality(Held(k)) \in Int
      BY HeldBounded, GatewayAssumption DEF SlotInv, TypeOK
    <2> QED
      BY <2>1 DEF Restart
  <1>7. ASSUME NEW k \in Keys, window[k] # None
        PROVE  [window[k] EXCEPT !.restarts = @ + 1] \in Window
    BY <1>7 DEF SlotInv, TypeOK, Window
  <1>8. window' \in [Keys -> Window \cup {None}]
    BY <1>7 DEF Restart
  <1>9. restarts' \in 0 .. MaxRestarts
    BY GatewayAssumption DEF SlotInv, TypeOK, Restart
  <1>10. /\ bucket' \in [Keys -> Bucket \cup {None}]
         /\ cache' \in [Apps -> Charges \cup {None}]
    BY DEF Restart
  <1> QED
    BY <1>2, <1>3, <1>4, <1>5, <1>6, <1>8, <1>9, <1>10
    DEF SlotInv, TypeOK, Restart

LEMMA SlotsInit == Init => SlotInv
  <1> SUFFICES ASSUME Init PROVE SlotInv
    OBVIOUS
  <1>1. Idle \in Task /\ Idle.pc = "idle"
    BY GatewayAssumption DEF Idle, Task
  <1>2. TypeOK
    BY <1>1, GatewayAssumption DEF Init, TypeOK
  <1>3. Keyed /\ Using = {}
    BY <1>1 DEF Init, Keyed, Using, HasSlot
  <1>4. Cardinality({}) = 0
    BY FS_EmptySet
  <1>5. Accounted
    BY <1>3, <1>4, GatewayAssumption DEF Accounted, Init
  <1> QED
    BY <1>2, <1>3, <1>5 DEF SlotInv

\* The actions, as the cases of every step below.
LEMMA Steps ==
  ASSUME [Next]_vars
  PROVE  \/ \E s \in Slots, k \in Keys, image \in BOOLEAN :
              Authenticate(s, k, image)
         \/ \E s \in Slots :
              \/ TakeToken(s) \/ AcquireSlot(s) \/ Validate(s) \/ Reserve(s)
              \/ LimitsBegin(s) \/ CacheLookup(s) \/ Generate(s)
              \/ Settle(s) \/ Finish(s) \/ Dropped(s)
         \/ \E k \in Keys, q \in Quotas \cup {None}, r \in Rpms \cup {None} :
              \/ CreateKey(k, q, r)
              \/ \E live \in BOOLEAN : PatchKey(k, q, r, live)
         \/ \E k \in Keys : KeyEnds(k) \/ Observe(k)
         \/ \E a \in Apps : Evict(a)
         \/ Restart \/ Tick \/ UNCHANGED vars
  BY DEF Next, Request, Administration, Environment

\* A request reads the clock as it begins to wait, and time goes on.
LEMMA ClockedStep ==
  ASSUME SlotInv, Clocked, [Next]_vars
  PROVE  Clocked'
  <1>1. ticks \in Nat /\ ticks' \in Nat /\ ticks <= ticks'
    <2>1. ticks \in Nat
      BY DEF SlotInv, TypeOK
    <2>2. ticks' = ticks \/ ticks' = ticks + 1
      <3>1. ASSUME NEW s \in Slots, NEW k \in Keys, NEW image \in BOOLEAN,
                   Authenticate(s, k, image)
            PROVE  ticks' = ticks
        BY <3>1 DEF Authenticate
      <3>2. ASSUME NEW s \in Slots,
                   \/ TakeToken(s) \/ AcquireSlot(s) \/ Validate(s) \/ Reserve(s)
                   \/ LimitsBegin(s)
            PROVE  ticks' = ticks
        BY <3>2 DEF TakeToken, AcquireSlot, Validate, Reserve, LimitsBegin
      <3>3. ASSUME NEW s \in Slots,
                   \/ CacheLookup(s) \/ Generate(s) \/ Settle(s) \/ Finish(s)
                   \/ Dropped(s)
            PROVE  ticks' = ticks
        BY <3>3 DEF CacheLookup, Generate, Settle, Finish, Dropped
      <3>4. ASSUME NEW k \in Keys, NEW q \in Quotas \cup {None},
                   NEW r \in Rpms \cup {None},
                   \/ CreateKey(k, q, r)
                   \/ \E live \in BOOLEAN : PatchKey(k, q, r, live)
            PROVE  ticks' = ticks
        BY <3>4 DEF CreateKey, PatchKey
      <3>5. ASSUME \/ \E k \in Keys : KeyEnds(k) \/ Observe(k)
                   \/ \E a \in Apps : Evict(a)
                   \/ Restart \/ UNCHANGED vars
            PROVE  ticks' = ticks
        BY <3>5 DEF KeyEnds, Observe, Evict, Restart, vars
      <3>6. Tick => ticks' = ticks + 1
        BY DEF Tick
      <3> QED
        BY <3>1, <3>2, <3>3, <3>4, <3>5, <3>6, Steps
    <2> QED
      BY <2>1, <2>2
  <1>2. task \in [Slots -> Task]
    BY DEF SlotInv, TypeOK
  <1>3. ASSUME NEW x \in Slots, task'[x].pc = "rate"
        PROVE  task'[x] = task[x] \/ task'[x].now = ticks
    <2>1. ASSUME NEW s \in Slots, NEW k \in Keys, NEW image \in BOOLEAN,
                 Authenticate(s, k, image)
          PROVE  task'[x] = task[x] \/ task'[x].now = ticks
      <3>1. x = s => task'[x].pc = (IF keys[k].rpm = None THEN "slot" ELSE "rate")
                     /\ task'[x].now = (IF keys[k].rpm = None THEN 0 ELSE ticks)
        BY <1>2, <2>1 DEF Authenticate
      <3>2. x # s => task'[x] = task[x]
        BY <1>2, <2>1 DEF Authenticate
      <3> QED
        BY <1>3, <3>1, <3>2
    <2>2. ASSUME NEW s \in Slots, \/ Leave(s)
                                  \/ \E pc : pc # "rate" /\ Goto(s, pc)
          PROVE  task'[x] = task[x]
      <3>1. CASE Leave(s)
        BY <1>2, <1>3, <3>1 DEF Leave, Idle
      <3>2. ASSUME NEW pc, pc # "rate", Goto(s, pc)
            PROVE  task'[x] = task[x]
        <4>1. task'[s].pc = pc /\ \A y \in Slots \ {s} : task'[y] = task[y]
          BY <1>2, <3>2 DEF Goto, Task
        <4> QED
          BY <1>3, <3>2, <4>1
      <3> QED
        BY <2>2, <3>1, <3>2
    <2>3. ASSUME NEW s \in Slots,
                 \/ TakeToken(s) \/ Generate(s) \/ CacheLookup(s)
                 \/ LimitsBegin(s) \/ Settle(s)
          PROVE  task'[x] = task[x]
      <3>1. CASE \E c : task' = [task EXCEPT ![s].pc = "settle", ![s].cost = c]
        BY <1>2, <1>3, <3>1
      <3>2. CASE \/ task' = [task EXCEPT ![s].pc = "slot", ![s].rpm = None,
                                         ![s].now = 0]
                 \/ task' = [task EXCEPT ![s].pc = "finish", ![s].cost = 0]
        <4>1. \A y \in Slots \ {s} : task'[y] = task[y]
          BY <1>2, <3>2
        <4>2. /\ task[s] \in Task
              /\ \/ task'[s] = [task[s] EXCEPT !.pc = "slot", !.rpm = None,
                                              !.now = 0]
                 \/ task'[s] = [task[s] EXCEPT !.pc = "finish", !.cost = 0]
          BY <1>2, <3>2
        <4>3. task'[s].pc = "slot" \/ task'[s].pc = "finish"
          BY <4>2 DEF Task
        <4> QED
          BY <1>3, <4>1, <4>3
      <3>3. CASE Leave(s) \/ Goto(s, "call") \/ Goto(s, "cache")
        BY <2>2, <3>3
      <3>4. TakeToken(s) => \/ Leave(s)
                            \/ task' = [task EXCEPT ![s].pc = "slot",
                                           ![s].rpm = None, ![s].now = 0]
        BY DEF TakeToken
      <3>5. Generate(s) \/ Nothing(s) =>
              \E c : task' = [task EXCEPT ![s].pc = "settle", ![s].cost = c]
        BY DEF Generate, Nothing
      <3>6. CacheLookup(s) => \/ Goto(s, "call")
                              \/ \E c : task' = [task EXCEPT ![s].pc = "settle",
                                                             ![s].cost = c]
        BY DEF CacheLookup
      <3>7. LimitsBegin(s) => Goto(s, "cache") \/ Goto(s, "call") \/ Nothing(s)
        BY DEF LimitsBegin
      <3>8. Settle(s) => task' = [task EXCEPT ![s].pc = "finish", ![s].cost = 0]
        BY DEF Settle
      <3> QED
        BY <2>3, <3>1, <3>2, <3>3, <3>4, <3>5, <3>6, <3>7, <3>8
    <2>4. ASSUME NEW s \in Slots,
                 \/ AcquireSlot(s) \/ Validate(s) \/ Reserve(s) \/ Finish(s)
                 \/ Dropped(s)
          PROVE  task'[x] = task[x]
      BY <2>2, <2>4 DEF AcquireSlot, Validate, Reserve, Finish, Dropped
    <2>5. ASSUME \/ \E k \in Keys, q \in Quotas \cup {None},
                      r \in Rpms \cup {None} :
                      \/ CreateKey(k, q, r)
                      \/ \E live \in BOOLEAN : PatchKey(k, q, r, live)
                 \/ \E k \in Keys : KeyEnds(k) \/ Observe(k)
                 \/ \E a \in Apps : Evict(a)
                 \/ Tick \/ UNCHANGED vars
          PROVE  task'[x] = task[x]
      <3>1. ASSUME NEW k \in Keys, NEW q \in Quotas \cup {None},
                   NEW r \in Rpms \cup {None},
                   \/ CreateKey(k, q, r)
                   \/ \E live \in BOOLEAN : PatchKey(k, q, r, live)
            PROVE  task' = task
        BY <3>1 DEF CreateKey, PatchKey
      <3>2. ASSUME \/ \E k \in Keys : KeyEnds(k) \/ Observe(k)
                   \/ \E a \in Apps : Evict(a)
                   \/ Tick \/ UNCHANGED vars
            PROVE  task' = task
        BY <3>2 DEF KeyEnds, Observe, Evict, Tick, vars
      <3> QED BY <2>5, <3>1, <3>2
    <2>6. CASE Restart
      BY <1>3, <2>6 DEF Restart, Idle
    <2> QED
      BY <2>1, <2>3, <2>4, <2>5, <2>6, Steps
  <1>4. ASSUME NEW x \in Slots, task'[x].pc = "rate"
        PROVE  task'[x].now <= ticks'
    <2>1. CASE task'[x] = task[x]
      <3>1. task[x].now <= ticks /\ task[x].now \in Int
        BY <1>4, <2>1 DEF Clocked, SlotInv, TypeOK, Task
      <3> QED
        BY <1>1, <2>1, <3>1
    <2>2. CASE task'[x].now = ticks
      BY <1>1, <2>2
    <2> QED
      BY <1>3, <1>4, <2>1, <2>2
  <1> QED
    BY <1>4 DEF Clocked

LEMMA SlotsStep == SlotInv /\ Clocked /\ [Next]_vars => SlotInv' /\ Clocked'
  <1> SUFFICES ASSUME SlotInv, Clocked, [Next]_vars PROVE SlotInv'
    BY ClockedStep
  <1>1. CASE UNCHANGED vars
    BY <1>1 DEF vars, SlotInv, TypeOK, Keyed, Accounted, Using, HasSlot
  <1>2. ASSUME NEW s \in Slots, NEW k \in Keys, NEW image \in BOOLEAN,
               Authenticate(s, k, image)
        PROVE  SlotInv'
    BY <1>2, AuthenticateSlots
  <1>3. ASSUME NEW s \in Slots,
               TakeToken(s) \/ AcquireSlot(s) \/ Validate(s) \/ Reserve(s)
        PROVE  SlotInv'
    BY <1>3, TakeTokenSlots, AcquireSlotSlots, ValidateSlots, ReserveSlots
  <1>4. ASSUME NEW s \in Slots,
               \/ LimitsBegin(s) \/ CacheLookup(s) \/ Generate(s)
               \/ Settle(s) \/ Finish(s) \/ Dropped(s)
        PROVE  SlotInv'
    BY <1>4, LimitsBeginSlots, CacheLookupSlots, GenerateSlots, SettleSlots,
       FinishSlots, DroppedSlots
  <1>5. ASSUME NEW k \in Keys, NEW q \in Quotas \cup {None},
               NEW r \in Rpms \cup {None},
               \/ CreateKey(k, q, r)
               \/ \E live \in BOOLEAN : PatchKey(k, q, r, live)
        PROVE  SlotInv'
    BY <1>5, CreateKeySlots, PatchKeySlots
  <1>6. ASSUME NEW k \in Keys, KeyEnds(k) \/ Observe(k)
        PROVE  SlotInv'
    BY <1>6, KeyEndsSlots, ObserveSlots
  <1>7. CASE (\E a \in Apps : Evict(a)) \/ Restart \/ Tick
    BY <1>7, EvictSlots, RestartSlots, TickSlots
  <1> QED
    BY <1>1, <1>2, <1>3, <1>4, <1>5, <1>6, <1>7, Steps

LEMMA SlotsInvariant == Spec => [](SlotInv /\ Clocked)
  <1>1. Init => SlotInv /\ Clocked
    BY SlotsInit DEF Init, Clocked, Idle
  <1> QED
    BY <1>1, SlotsStep, PTL DEF Spec

\* Type correctness: no permit is lost or made, whatever way a request ends,
\* the rate limiter's tokens stay within the bucket, and a request works on a
\* key that has a row.
THEOREM TypeCorrect == Spec => []TypeOK
  <1>1. SlotInv /\ Clocked => TypeOK
    BY DEF SlotInv
  <1> QED
    BY <1>1, SlotsInvariant, PTL

----------------------------------------------------------------------------
(* The quota is exact, and its overrun is bounded.                         *)

\* What the row of a key counts; a key without a row counts nothing.
Exact(k) ==
  IF keys[k] = None THEN spent[k] = 0 /\ lost[k] = 0
  ELSE keys[k].used = spent[k] + Price * Cardinality(Held(k)) + lost[k]

Books(k) == Exact(k) /\ Ceiled(k)

\* A step that leaves the row, what was spent and who holds it alone.
LEMMA BooksStay ==
  ASSUME NEW k \in Keys, Books(k),
         keys'[k] # None <=> keys[k] # None,
         keys[k] # None => keys'[k].used = keys[k].used
                             /\ keys'[k].quota = keys[k].quota,
         spent'[k] = spent[k], lost'[k] = lost[k], ceiling'[k] = ceiling[k],
         Held(k)' = Held(k)
  PROVE  Books(k)'
  BY DEF Books, Exact, Ceiled

\* Times the price and times the markup, one reservation more or less.
LEMMA OneTimes ==
  ASSUME NEW n \in Nat, NEW p \in Nat
  PROVE  /\ p * (n + 1) = p * n + p /\ p * (n - 1) = p * n - p
         /\ (n + 1) * p = n * p + p /\ (n - 1) * p = n * p - p
         /\ p * n \in Nat /\ n * p \in Nat /\ p * 0 = 0 /\ 0 * p = 0
  <1>1. p * n \in Nat /\ n * p \in Nat
    BY Mono
  <1>2. p * (n + 1) = p * n + p /\ p * (n - 1) = p * n - p
    BY SMT
  <1>3. (n + 1) * p = n * p + p /\ (n - 1) * p = n * p - p
    BY SMT
  <1>4. p * 0 = 0 /\ 0 * p = 0
    BY SMT
  <1> QED
    BY <1>1, <1>2, <1>3, <1>4

LEMMA ReserveBooks ==
  ASSUME SlotInv, NEW k \in Keys, Books(k), NEW s \in Slots, Reserve(s)
  PROVE  Books(k)'
  <1> DEFINE n == Cardinality(Held(k))
  <1>1. UNCHANGED <<spent, lost, ceiling>>
    BY DEF Reserve
  <1>2. CASE UNCHANGED keys /\ \A j : Held(j)' = Held(j)
    BY <1>1, <1>2, BooksStay
  <1>3. CASE /\ Fits(task[s].key) /\ Add(task[s].key, Price)
             /\ s \notin Held(task[s].key)
             /\ \A j : Held(j)' = IF j = task[s].key THEN Held(j) \cup {s}
                                  ELSE Held(j)
    <2>1. task[s].key \in Keys /\ keys[task[s].key] # None /\ Price \in Int
      BY GatewayAssumption DEF Reserve, At, SlotInv, Keyed
    <2>2. /\ keys'[task[s].key].used = keys[task[s].key].used + Price
          /\ keys'[task[s].key].quota = keys[task[s].key].quota
          /\ \A j \in Keys : keys[j] # None <=> keys'[j] # None
          /\ \A j \in Keys \ {task[s].key} : keys'[j] = keys[j]
      BY <1>3, <2>1, AddTyped DEF SlotInv
    <2>3. CASE k # task[s].key
      BY <1>1, <1>3, <2>2, <2>3, BooksStay
    <2>4. CASE k = task[s].key
      <3>1. Held(k)' = Held(k) \cup {s} /\ Held(k) \in SUBSET Slots
        BY <1>3, <2>4 DEF Held
      <3>2. Cardinality(Held(k)') = n + 1 /\ n \in Nat
        BY <1>3, <2>4, <3>1, Counted
      <3>3. Price * (n + 1) = Price * n + Price /\ Price * n \in Nat
        BY <3>2, OneTimes, GatewayAssumption
      <3>4. /\ keys[k].used \in Int /\ spent[k] \in Nat /\ lost[k] \in Int
            /\ Price \in Nat
        BY <2>1, <2>4, GatewayAssumption DEF SlotInv, TypeOK, Row
      <3>5. Exact(k)'
        <4> DEFINE pn == Price * n
                   pn1 == Price * Cardinality(Held(k)')
        <4>1. keys[k].used = spent[k] + pn + lost[k]
          BY <2>1, <2>4 DEF Books, Exact
        <4>2. pn1 = pn + Price /\ pn \in Nat
          BY <3>2, <3>3
        <4> HIDE DEF pn, pn1
        <4>3. keys'[k].used = spent'[k] + pn1 + lost'[k]
          BY <1>1, <2>2, <2>4, <3>4, <4>1, <4>2
        <4>4. keys'[k] # None
          BY <2>1, <2>2, <2>4
        <4> QED
          BY <4>3, <4>4 DEF Exact, pn1
      <3>6. Ceiled(k)'
        <4> SUFFICES ASSUME keys'[k] # None, ceiling[k] # None
                     PROVE  /\ keys'[k].quota \in Nat
                            /\ keys'[k].quota <= ceiling[k]
                            /\ keys'[k].used + Cardinality(Held(k)') * Markup
                                 <= ceiling[k] + MaxPermits * Markup
          BY <1>1 DEF Ceiled, Markup
        <4>1. keys[k].quota \in Nat /\ keys[k].quota <= ceiling[k]
          BY <2>1, <2>4 DEF Books, Ceiled
        <4>2. keys[k].used + Price <= keys[k].quota
          BY <1>3, <2>4, <4>1, GatewayAssumption DEF Fits
        <4>3. Cardinality(Held(k)') \in Nat /\ Cardinality(Held(k)') <= MaxPermits
          BY ReserveSlots, HeldBoundedNext
        <4>4. Markup \in Nat /\ MaxPermits \in Nat
          BY GatewayAssumption DEF Markup
        <4>5. /\ Cardinality(Held(k)') * Markup \in Nat
              /\ MaxPermits * Markup \in Nat
              /\ Cardinality(Held(k)') * Markup <= MaxPermits * Markup
          BY <4>3, <4>4, Mono
        <4> DEFINE a == Cardinality(Held(k)') * Markup
                   b == MaxPermits * Markup
        <4>6. a \in Nat /\ b \in Nat /\ a <= b
          BY <4>5
        <4>7. ceiling[k] \in Nat
          BY GatewayAssumption DEF SlotInv, TypeOK
        <4> HIDE DEF a, b
        <4>8. keys'[k].used + a <= ceiling[k] + b
          BY <2>2, <2>4, <3>4, <4>1, <4>2, <4>6, <4>7
        <4> QED
          BY <2>2, <2>4, <4>1, <4>8 DEF a, b
      <3> QED
        BY <3>5, <3>6 DEF Books
    <2> QED
      BY <2>3, <2>4
  <1> QED
    BY <1>2, <1>3, ReserveSlots

\* A reservation ends: the use it is settled to, and the markup it made room
\* for, are what its end leaves of it.
LEMMA EndBooks ==
  ASSUME SlotInv, NEW k \in Keys, Books(k), keys[k] # None,
         NEW s \in Held(k), Held(k)' = Held(k) \ {s},
         keys'[k] # None, ceiling'[k] = ceiling[k],
         keys'[k].quota = keys[k].quota,
         keys'[k].used \in Int, spent'[k] \in Int, lost'[k] \in Int,
         keys'[k].used - spent'[k] - lost'[k]
           = keys[k].used - spent[k] - lost[k] - Price,
         keys'[k].used <= keys[k].used + Markup
  PROVE  Books(k)'
  <1> DEFINE n == Cardinality(Held(k))
             m == Cardinality(Held(k)')
  <1>1. m = n - 1 /\ n \in Nat
    <2>1. Held(k) \in SUBSET Slots
      BY DEF Held
    <2> QED
      BY <2>1, Counted
  <1>2. /\ keys[k].used \in Int /\ spent[k] \in Nat /\ lost[k] \in Int
        /\ Price \in Nat /\ Markup \in Nat /\ MaxPermits \in Nat
        /\ ceiling[k] \in Nat \cup {None}
    BY GatewayAssumption DEF SlotInv, TypeOK, Row, Markup
  <1>3. Exact(k)'
    <2> DEFINE pn == Price * n
               pm == Price * m
    <2>1. pm = pn - Price /\ pn \in Nat
      BY <1>1, <1>2, OneTimes
    <2>2. keys[k].used = spent[k] + pn + lost[k]
      BY DEF Books, Exact
    <2> HIDE DEF pn, pm
    <2>3. keys'[k].used = spent'[k] + pm + lost'[k]
      BY <1>2, <2>1, <2>2
    <2> QED
      BY <2>3 DEF Exact, pm
  <1>4. Ceiled(k)'
    <2> SUFFICES ASSUME ceiling[k] # None
                 PROVE  /\ keys[k].quota \in Nat
                        /\ keys[k].quota <= ceiling[k]
                        /\ keys'[k].used + m * Markup
                             <= ceiling[k] + MaxPermits * Markup
      BY DEF Ceiled, Markup
    <2> DEFINE nm == n * Markup
               mm == m * Markup
               room == MaxPermits * Markup
    <2>1. mm = nm - Markup /\ nm \in Nat /\ room \in Nat
      BY <1>1, <1>2, OneTimes
    <2>2. /\ keys[k].quota \in Nat /\ keys[k].quota <= ceiling[k]
          /\ keys[k].used + nm <= ceiling[k] + room
      BY DEF Books, Ceiled
    <2> HIDE DEF nm, mm, room
    <2>3. keys'[k].used + mm <= ceiling[k] + room
      BY <1>2, <2>1, <2>2
    <2> QED
      BY <2>2, <2>3 DEF mm, room
  <1> QED
    BY <1>3, <1>4 DEF Books

LEMMA SettleBooks ==
  ASSUME SlotInv, NEW k \in Keys, Books(k), NEW s \in Slots, Settle(s)
  PROVE  Books(k)'
  <1> DEFINE j == task[s].key
             cost == task[s].cost
  <1>1. /\ j \in Keys /\ keys[j] # None
        /\ s \in Held(j) /\ cost \in 0 .. MaxCharge
        /\ \A i : Held(i)' = IF i = j THEN Held(i) \ {s} ELSE Held(i)
    BY SettleSlots
  <1>2. /\ ceiling' = ceiling
        /\ spent' = [spent EXCEPT ![j] = @ + cost]
        /\ \/ Add(j, Delta(cost)) /\ UNCHANGED lost
           \/ lost' = [lost EXCEPT ![j] = @ + Price - cost] /\ UNCHANGED keys
    BY DEF Settle
  <1>3. /\ spent[k] \in Nat /\ lost[k] \in Int /\ cost \in Nat
        /\ Price \in Nat /\ cost - Price <= Markup /\ Markup \in Nat
    BY <1>1, GatewayAssumption DEF SlotInv, TypeOK, Markup
  <1>4. CASE k # j
    <2>1. CASE Add(j, Delta(cost)) /\ UNCHANGED lost
      <3>1. Delta(cost) \in Int
        BY <1>3 DEF Delta
      <3>2. keys'[k] = keys[k]
        BY <1>1, <1>4, <2>1, <3>1, AddTyped DEF SlotInv
      <3> QED
        BY <1>1, <1>2, <1>4, <2>1, <3>2, BooksStay DEF SlotInv, TypeOK
    <2>2. CASE lost' = [lost EXCEPT ![j] = @ + Price - cost] /\ UNCHANGED keys
      BY <1>1, <1>2, <1>4, <2>2, BooksStay DEF SlotInv, TypeOK
    <2> QED
      BY <1>2, <2>1, <2>2
  <1>5. CASE k = j
    <2>1. spent'[k] = spent[k] + cost
      BY <1>2, <1>5 DEF SlotInv, TypeOK
    <2>2. s \in Held(k) /\ Held(k)' = Held(k) \ {s} /\ ceiling'[k] = ceiling[k]
      BY <1>1, <1>2, <1>5
    <2>3. keys[k].used \in Int
      BY <1>1, <1>5 DEF SlotInv, TypeOK, Row
    <2>4. CASE Add(j, Delta(cost)) /\ UNCHANGED lost
      <3>1. Delta(cost) \in Int /\ Delta(cost) = cost - Price
        BY <1>3 DEF Delta
      <3>2. /\ keys'[k] # None /\ keys'[k].quota = keys[k].quota
            /\ keys'[k].used = keys[k].used + (cost - Price)
        BY <1>1, <1>5, <2>4, <3>1, AddTyped DEF SlotInv
      <3> HIDE DEF cost, j
      <3>3. /\ keys'[k].used \in Int
            /\ spent'[k] \in Int
            /\ lost'[k] \in Int
            /\ keys'[k].used <= keys[k].used + Markup
            /\ keys'[k].used - spent'[k] - lost'[k]
                 = keys[k].used - spent[k] - lost[k] - Price
        BY <1>3, <2>1, <2>3, <2>4, <3>2
      <3> QED
        BY <1>1, <1>5, <2>2, <3>2, <3>3, EndBooks
    <2>5. CASE lost' = [lost EXCEPT ![j] = @ + Price - cost] /\ UNCHANGED keys
      <3>1. lost'[k] = lost[k] + Price - cost
        BY <1>1, <1>5, <2>5 DEF SlotInv, TypeOK
      <3> HIDE DEF cost, j
      <3>2. /\ keys'[k].used \in Int
            /\ spent'[k] \in Int
            /\ lost'[k] \in Int
            /\ keys'[k].used <= keys[k].used + Markup
            /\ keys'[k].used - spent'[k] - lost'[k]
                 = keys[k].used - spent[k] - lost[k] - Price
        BY <1>3, <2>1, <2>3, <2>5, <3>1
      <3> QED
        BY <1>1, <1>5, <2>2, <2>5, <3>2, EndBooks
    <2> QED
      BY <1>2, <2>4, <2>5
  <1> QED
    BY <1>4, <1>5

LEMMA DroppedBooks ==
  ASSUME SlotInv, NEW k \in Keys, Books(k), NEW s \in Slots, Dropped(s)
  PROVE  Books(k)'
  <1>1. /\ task[s].key \in Keys /\ \A j : Held(j)' = Held(j) \ {s}
        /\ UNCHANGED <<keys, spent, ceiling>>
        /\ lost' = IF Holds(s)
                   THEN [lost EXCEPT ![task[s].key] = @ + Price] ELSE lost
    BY DroppedSlots DEF Dropped
  <1>2. CASE k = task[s].key /\ Holds(s)
    <2>1. s \in Held(k) /\ Held(k)' = Held(k) \ {s}
      BY <1>1, <1>2, InHeld
    <2>2. keys[k] # None
      BY <1>2 DEF SlotInv, Keyed, Holds
    <2>3. lost'[k] = lost[k] + Price
      BY <1>1, <1>2 DEF SlotInv, TypeOK
    <2>4. /\ keys[k].used \in Int /\ spent[k] \in Nat /\ lost[k] \in Int
          /\ Price \in Nat /\ Markup \in Nat
      BY <2>2, GatewayAssumption DEF SlotInv, TypeOK, Row, Markup
    <2>5. /\ lost'[k] \in Int
          /\ keys[k].used - spent[k] - lost'[k]
               = keys[k].used - spent[k] - lost[k] - Price
          /\ keys[k].used <= keys[k].used + Markup
      BY <2>3, <2>4
    <2> QED
      BY <1>1, <2>1, <2>2, <2>4, <2>5, EndBooks
  <1>3. CASE ~(k = task[s].key /\ Holds(s))
    <2>1. Held(k)' = Held(k)
      BY <1>1, <1>3, InHeld
    <2>2. lost'[k] = lost[k]
      BY <1>1, <1>3 DEF SlotInv, TypeOK
    <2> QED
      BY <1>1, <2>1, <2>2, BooksStay
  <1> QED
    BY <1>2, <1>3

LEMMA RestartBooks ==
  ASSUME SlotInv, NEW k \in Keys, Books(k), Restart
  PROVE  Books(k)'
  <1>1. Held(k)' = {} /\ Cardinality({}) = 0
    BY RestartSlots, FS_EmptySet
  <1> DEFINE n == Cardinality(Held(k))
  <1>2. n \in Nat /\ Price \in Nat /\ Markup \in Nat /\ MaxPermits \in Nat
    BY HeldBounded, GatewayAssumption DEF Markup
  <1>3. /\ UNCHANGED <<keys, spent, ceiling>>
        /\ lost'[k] = lost[k] + Price * n
    BY DEF Restart
  <1>4. Price * n \in Nat /\ n * Markup \in Nat /\ Price * 0 = 0 /\ 0 * Markup = 0
    BY <1>2, OneTimes
  <1>5. Exact(k)'
    <2>1. CASE keys[k] = None
      <3>1. Held(k) = {}
        BY <2>1 DEF Held, Holds, SlotInv, Keyed
      <3>2. Price * n = 0
        BY <1>1, <1>4, <3>1
      <3> QED
        BY <1>3, <2>1, <3>2 DEF Books, Exact
    <2>2. CASE keys[k] # None
      <3>1. /\ spent[k] \in Nat /\ lost[k] \in Int
        BY DEF SlotInv, TypeOK
      <3> DEFINE pn == Price * n
      <3>2. keys[k].used = spent[k] + pn + lost[k] /\ pn \in Nat
        BY <1>4, <2>2 DEF Books, Exact
      <3>3. lost'[k] = lost[k] + pn
        BY <1>3
      <3> HIDE DEF pn
      <3>4. keys[k].used = spent[k] + 0 + lost'[k]
        BY <3>1, <3>2, <3>3
      <3> QED
        BY <1>1, <1>3, <1>4, <2>2, <3>4 DEF Exact
    <2> QED
      BY <2>1, <2>2
  <1>6. Ceiled(k)'
    <2> SUFFICES ASSUME keys[k] # None, ceiling[k] # None
                 PROVE  /\ keys[k].quota \in Nat /\ keys[k].quota <= ceiling[k]
                        /\ keys[k].used + 0 * Markup
                             <= ceiling[k] + MaxPermits * Markup
      BY <1>1, <1>3 DEF Ceiled, Markup
    <2> DEFINE nm == n * Markup
               room == MaxPermits * Markup
    <2>1. /\ keys[k].quota \in Nat /\ keys[k].quota <= ceiling[k]
          /\ keys[k].used + nm <= ceiling[k] + room
      BY DEF Books, Ceiled
    <2>2. nm \in Nat /\ room \in Nat /\ keys[k].used \in Int /\ ceiling[k] \in Nat
      BY <1>2, <1>4, Mono DEF SlotInv, TypeOK, Row
    <2> HIDE DEF nm, room
    <2>3. keys[k].used + 0 <= ceiling[k] + room
      BY <2>1, <2>2
    <2> QED
      BY <1>4, <2>1, <2>3 DEF room
  <1> QED
    BY <1>5, <1>6 DEF Books

LEMMA CreateKeyBooks ==
  ASSUME SlotInv, NEW k \in Keys, Books(k), NEW j \in Keys,
         NEW q \in Quotas \cup {None}, NEW r \in Rpms \cup {None},
         CreateKey(j, q, r)
  PROVE  Books(k)'
  <1>1. /\ \A i : Held(i)' = Held(i)
        /\ UNCHANGED <<spent, lost>>
        /\ ceiling' = [ceiling EXCEPT ![j] = Higher(ceiling[j], q)]
        /\ keys' = [keys EXCEPT ![j] =
             [quota |-> q, rpm |-> r, live |-> TRUE, used |-> 0]]
    BY CreateKeySlots DEF CreateKey
  <1>2. CASE k # j
    BY <1>1, <1>2, BooksStay DEF SlotInv, TypeOK
  <1>3. CASE k = j
    <2>1. /\ keys'[k].used = 0 /\ keys'[k].quota = q
          /\ ceiling'[k] = Higher(ceiling[k], q)
      BY <1>1, <1>3 DEF SlotInv, TypeOK
    <2>2. Held(k) = {} /\ Held(k)' = {} /\ keys[k] = None
      BY <1>1, <1>3 DEF Held, Holds, SlotInv, Keyed, CreateKey
    <2>3. /\ Price \in Nat /\ Markup \in Nat /\ MaxPermits \in Nat
          /\ Cardinality({}) = 0
      BY FS_EmptySet, GatewayAssumption DEF Markup
    <2>4. Price * 0 = 0 /\ 0 * Markup = 0 /\ MaxPermits * Markup \in Nat
      BY <2>3, OneTimes
    <2>5. Exact(k)'
      <3>1. spent'[k] = 0 /\ lost'[k] = 0
        BY <1>1, <2>2 DEF Books, Exact
      <3>2. keys'[k].used = spent'[k] + Price * Cardinality(Held(k)') + lost'[k]
        BY <2>1, <2>2, <2>3, <2>4, <3>1
      <3> QED
        BY <3>1, <3>2 DEF Exact
    <2>6. Ceiled(k)'
      <3> SUFFICES ASSUME ceiling'[k] # None
                   PROVE  /\ keys'[k].quota \in Nat
                          /\ keys'[k].quota <= ceiling'[k]
                          /\ keys'[k].used + 0 * Markup
                               <= ceiling'[k] + MaxPermits * Markup
        BY <2>2, <2>3 DEF Ceiled, Markup
      <3>1. ceiling[k] \in Nat \cup {None} /\ q \in Nat \cup {None}
        BY GatewayAssumption DEF SlotInv, TypeOK
      <3>2. q \in Nat /\ ceiling'[k] \in Nat /\ q <= ceiling'[k]
        BY <2>1, <3>1, HigherTyped
      <3> DEFINE room == MaxPermits * Markup
      <3>3. room \in Nat
        BY <2>4
      <3> HIDE DEF room
      <3>4. 0 + 0 <= ceiling'[k] + room
        BY <3>2, <3>3
      <3> QED
        BY <2>1, <2>4, <3>2, <3>4 DEF room
    <2> QED
      BY <2>5, <2>6 DEF Books
  <1> QED
    BY <1>2, <1>3

LEMMA PatchKeyBooks ==
  ASSUME SlotInv, NEW k \in Keys, Books(k), NEW j \in Keys,
         NEW q \in Quotas \cup {None}, NEW r \in Rpms \cup {None},
         NEW live \in BOOLEAN, PatchKey(j, q, r, live)
  PROVE  Books(k)'
  <1>1. /\ \A i : Held(i)' = Held(i)
        /\ keys'[j] \in Row /\ keys[j] # None
        /\ keys'[j].quota = IF q = None THEN keys[j].quota ELSE q
        /\ keys'[j].used = keys[j].used
        /\ \A i \in Keys \ {j} : keys'[i] = keys[i]
        /\ UNCHANGED <<spent, lost>>
        /\ ceiling' = [ceiling EXCEPT ![j] = Higher(ceiling[j], keys'[j].quota)]
    BY PatchKeySlots DEF PatchKey
  <1>2. CASE k # j
    BY <1>1, <1>2, BooksStay DEF SlotInv, TypeOK
  <1>3. CASE k = j
    <2>1. keys'[k] # None /\ keys[k] # None
      BY <1>1, <1>3, NoneIsNoRecord
    <2>2. Exact(k)'
      BY <1>1, <1>3, <2>1 DEF Books, Exact
    <2>3. Ceiled(k)'
      <3> SUFFICES ASSUME ceiling'[k] # None
                   PROVE  /\ keys'[k].quota \in Nat
                          /\ keys'[k].quota <= ceiling'[k]
                          /\ keys'[k].used + Cardinality(Held(k)) * Markup
                               <= ceiling'[k] + MaxPermits * Markup
        BY <1>1 DEF Ceiled, Markup
      <3>1. /\ ceiling[k] \in Nat \cup {None}
            /\ keys'[k].quota \in Nat \cup {None}
        BY <1>1, <1>3, GatewayAssumption DEF SlotInv, TypeOK, Row
      <3>2. ceiling'[k] = Higher(ceiling[k], keys'[k].quota)
        BY <1>1, <1>3 DEF SlotInv, TypeOK
      <3>3. /\ ceiling[k] \in Nat /\ ceiling[k] # None
            /\ keys'[k].quota \in Nat
            /\ keys'[k].quota <= ceiling'[k] /\ ceiling[k] <= ceiling'[k]
            /\ ceiling'[k] \in Nat
        BY <3>1, <3>2, HigherTyped, GatewayAssumption
      <3> DEFINE nm == Cardinality(Held(k)) * Markup
                 room == MaxPermits * Markup
      <3>4. keys[k].used + nm <= ceiling[k] + room
        BY <2>1, <3>3 DEF Books, Ceiled
      <3>5. nm \in Nat /\ room \in Nat /\ keys[k].used \in Int
        BY <2>1, HeldBounded, OneTimes, GatewayAssumption
        DEF Markup, SlotInv, TypeOK, Row
      <3> HIDE DEF nm, room
      <3>6. keys'[k].used + nm <= ceiling'[k] + room
        BY <1>1, <1>3, <3>3, <3>4, <3>5
      <3> QED
        BY <3>3, <3>6 DEF nm, room
    <2> QED
      BY <2>2, <2>3 DEF Books
  <1> QED
    BY <1>2, <1>3

LEMMA BooksStep ==
  ASSUME SlotInv, Clocked, [Next]_vars, NEW k \in Keys, Books(k)
  PROVE  Books(k)'
  <1>1. CASE UNCHANGED vars
    BY <1>1 DEF vars, Books, Exact, Ceiled, Held, Holds
  <1>2. ASSUME NEW s \in Slots, NEW j \in Keys, NEW image \in BOOLEAN,
               Authenticate(s, j, image)
        PROVE  Books(k)'
    BY <1>2, AuthenticateSlots, BooksStay DEF Authenticate
  <1>3. ASSUME NEW s \in Slots, TakeToken(s) \/ AcquireSlot(s) \/ Validate(s)
        PROVE  Books(k)'
    BY <1>3, TakeTokenSlots, AcquireSlotSlots, ValidateSlots, BooksStay
    DEF TakeToken, AcquireSlot, Validate
  <1>4. ASSUME NEW s \in Slots,
               LimitsBegin(s) \/ CacheLookup(s) \/ Generate(s) \/ Finish(s)
        PROVE  Books(k)'
    BY <1>4, LimitsBeginSlots, CacheLookupSlots, GenerateSlots, FinishSlots,
       BooksStay DEF LimitsBegin, CacheLookup, Generate, Finish
  <1>5. ASSUME NEW s \in Slots, Reserve(s) \/ Settle(s) \/ Dropped(s)
        PROVE  Books(k)'
    BY <1>5, ReserveBooks, SettleBooks, DroppedBooks
  <1>6. ASSUME NEW j \in Keys, NEW q \in Quotas \cup {None},
               NEW r \in Rpms \cup {None},
               \/ CreateKey(j, q, r)
               \/ \E live \in BOOLEAN : PatchKey(j, q, r, live)
        PROVE  Books(k)'
    BY <1>6, CreateKeyBooks, PatchKeyBooks
  <1>7. ASSUME NEW j \in Keys, KeyEnds(j) \/ Observe(j)
        PROVE  Books(k)'
    BY <1>7, KeyEndsSlots, ObserveSlots, BooksStay DEF KeyEnds, Observe
  <1>8. CASE (\E a \in Apps : Evict(a)) \/ Tick
    BY <1>8, EvictSlots, TickSlots, BooksStay DEF Evict, Tick
  <1>9. CASE Restart
    BY <1>9, RestartBooks
  <1> QED
    BY <1>1, <1>2, <1>3, <1>4, <1>5, <1>6, <1>7, <1>8, <1>9, Steps

LEMMA BooksInvariant ==
  Spec => [](SlotInv /\ Clocked /\ \A k \in Keys : Books(k))
  <1>1. Init => SlotInv /\ Clocked /\ \A k \in Keys : Books(k)
    BY SlotsInit DEF Init, Clocked, Idle, Books, Exact, Ceiled
  <1>2. (SlotInv /\ Clocked /\ \A k \in Keys : Books(k)) /\ [Next]_vars
          => (SlotInv /\ Clocked /\ \A k \in Keys : Books(k))'
    BY SlotsStep, BooksStep
  <1> QED
    BY <1>1, <1>2, PTL DEF Spec

\* tokens_used counts what was delivered, the reservations in flight and what
\* departed clients, restarts and failed settlements left of theirs, with any
\* number of keys and concurrent requests.
THEOREM QuotaIsExact == Spec => []QuotaExact
  <1>1. SlotInv /\ Clocked /\ (\A k \in Keys : Books(k)) => QuotaExact
    BY DEF Books, Exact, QuotaExact
  <1> QED
    BY <1>1, BooksInvariant, PTL

\* Whatever requests a key sends at once and whatever its quota is patched to,
\* its use exceeds its highest quota by at most the markups of MaxPermits
\* generations.
THEOREM QuotaOverrunBounded == Spec => []QuotaOverrun
  <1>1. SlotInv /\ Clocked /\ (\A k \in Keys : Books(k)) => QuotaOverrun
    <2> SUFFICES ASSUME SlotInv, \A k \in Keys : Books(k),
                        NEW k \in Keys, keys[k] # None, ceiling[k] # None
                 PROVE  keys[k].used <= ceiling[k] + MaxPermits * Markup
      BY DEF QuotaOverrun, Markup
    <2> DEFINE nm == Cardinality(Held(k)) * Markup
               room == MaxPermits * Markup
    <2>1. keys[k].used + nm <= ceiling[k] + room
      BY DEF Books, Ceiled
    <2>2. /\ nm \in Nat /\ room \in Nat /\ keys[k].used \in Int
          /\ ceiling[k] \in Nat
      BY HeldBounded, OneTimes, GatewayAssumption
      DEF Markup, SlotInv, TypeOK, Row
    <2> HIDE DEF nm, room
    <2>3. keys[k].used <= ceiling[k] + room
      BY <2>1, <2>2
    <2> QED
      BY <2>3 DEF room
  <1> QED
    BY <1>1, BooksInvariant, PTL

----------------------------------------------------------------------------
(* The rate is bounded.                                                    *)

LEMMA Spread ==
  ASSUME NEW a \in Nat, NEW b \in Nat, NEW c \in Nat
  PROVE  /\ c * (a + b) = c * a + c * b
         /\ c * a \in Nat /\ c * b = b * c
  BY SMT

LEMMA BrimTyped ==
  ASSUME TypeOK, NEW k \in Keys
  PROVE  Brim(k) \in 0 .. Full /\ Full \in Nat /\ MaxRpm \in Nat /\ Minute \in Nat
  <1>1. Full \in Nat /\ MaxRpm \in Nat /\ Minute \in Nat
    BY GatewayAssumption, Mono DEF Full
  <1>2. CASE bucket[k] = None
    BY <1>1, <1>2 DEF Brim
  <1>3. CASE bucket[k] # None
    <2> DEFINE whole == Since(ticks, bucket[k].last)
               top == whole * MaxRpm
    <2>1. bucket[k].parts \in Nat /\ whole \in Nat
      BY <1>3, <1>1, GatewayAssumption DEF TypeOK, Bucket, Since
    <2>2. top \in Nat
      <3> HIDE DEF whole
      <3> QED
        BY <1>1, <2>1, OneTimes
    <2>3. Brim(k) = IF bucket[k].parts + top < Full
                    THEN bucket[k].parts + top ELSE Full
      BY <1>3 DEF Brim, Least
    <2> HIDE DEF top
    <2> QED
      BY <1>1, <2>1, <2>2, <2>3
  <1> QED
    BY <1>1, <1>2, <1>3

LEMMA DueTyped ==
  ASSUME NEW w \in Window
  PROVE  Due(w) \in Nat
  <1>1. /\ 1 + w.restarts \in Nat /\ w.elapsed \in Nat /\ w.late \in Nat
        /\ Minute \in Nat
    BY GatewayAssumption DEF Window
  <1>2. Minute * (1 + w.restarts) \in Nat
    BY <1>1, OneTimes
  <1> QED
    BY <1>1, <1>2 DEF Due

\* Nothing about the bucket or the window of a key changes.
LEMMA MeterStays ==
  ASSUME NEW k \in Keys, Metered(k), UNCHANGED ticks,
         bucket'[k] = bucket[k], window'[k] = window[k]
  PROVE  Metered(k)'
  BY DEF Metered, Brim

\* A step that lets a key in n times and gives its bucket and its bound d
\* ticks more.
LEMMA MeterGrows ==
  ASSUME TypeOK, NEW k \in Keys, Metered(k), NEW n \in Nat, NEW d \in Nat,
         window'[k] # None => window[k] # None,
         window[k] # None => /\ window'[k].taken = window[k].taken + n
                             /\ Due(window'[k]) = Due(window[k]) + d,
         Brim(k)' \in Int, Brim(k)' + n * Minute <= Brim(k) + d * MaxRpm
  PROVE  Metered(k)'
  <1> SUFFICES ASSUME window'[k] # None
               PROVE  window'[k].taken * Minute + Brim(k)'
                        <= MaxRpm * Due(window'[k])
    BY DEF Metered
  <1> DEFINE taken == window[k].taken
             due == Due(window[k])
             tm == taken * Minute
             nm == n * Minute
             md == MaxRpm * due
             dm == d * MaxRpm
  <1>1. window[k] \in Window /\ taken \in Nat /\ due \in Nat
    BY DueTyped DEF TypeOK, Window
  <1>2. Brim(k) \in Nat /\ MaxRpm \in Nat /\ Minute \in Nat
    BY BrimTyped
  <1>3. tm + Brim(k) <= md
    BY DEF Metered
  <1>4. /\ (taken + n) * Minute = tm + nm /\ MaxRpm * (due + d) = md + dm
        /\ tm \in Nat /\ nm \in Nat /\ md \in Nat /\ dm \in Nat
    <2> HIDE DEF taken, due
    <2>1. /\ Minute * (taken + n) = Minute * taken + Minute * n
          /\ Minute * (taken + n) = (taken + n) * Minute
          /\ Minute * n = n * Minute /\ Minute * n \in Nat
          /\ Minute * taken = taken * Minute /\ Minute * taken \in Nat
      BY <1>1, <1>2, Spread
    <2>2. /\ MaxRpm * (due + d) = MaxRpm * due + MaxRpm * d
          /\ MaxRpm * d = d * MaxRpm /\ MaxRpm * d \in Nat
          /\ MaxRpm * due \in Nat
      BY <1>1, <1>2, Spread
    <2> QED
      BY <2>1, <2>2
  <1>5. /\ window'[k].taken * Minute = tm + nm
        /\ MaxRpm * Due(window'[k]) = md + dm
    BY <1>4
  <1> HIDE DEF tm, nm, md, dm
  <1>6. tm + nm + Brim(k)' <= md + dm
    BY <1>2, <1>3, <1>4 DEF nm, dm
  <1> QED
    BY <1>5, <1>6

\* A bucket asked with the time now, and what it has been refilled with since.
LEMMA AskedBrim ==
  ASSUME TypeOK, NEW k \in Keys, NEW left \in 0 .. Full,
         NEW now \in 0 .. MaxTicks, now <= ticks, UNCHANGED ticks,
         Asked(k, left, now)
  PROVE  /\ Brim(k)' \in Int /\ Brim(k)' <= left + (ticks - now) * MaxRpm
         /\ \A j \in Keys \ {k} : bucket'[j] = bucket[j]
  <1>1. /\ bucket'[k] = [parts |-> left, last |-> now]
        /\ \A j \in Keys \ {k} : bucket'[j] = bucket[j]
    BY DEF Asked, TypeOK
  <1>2. left \in Nat /\ Full \in Nat /\ MaxRpm \in Nat
    BY BrimTyped
  <1>3. [parts |-> left, last |-> now] # None
    <2>1. [parts |-> left, last |-> now] \in Bucket
      BY DEF Bucket, Full
    <2> QED
      BY <2>1, NoneIsNoRecord
  <1>4. Since(ticks, now) = ticks - now /\ ticks - now \in Nat
    BY GatewayAssumption DEF Since, TypeOK
  <1> DEFINE more == (ticks - now) * MaxRpm
  <1>5. more \in Nat
    BY <1>2, <1>4, OneTimes
  <1>6. Brim(k)' = Least(left + more, Full)
    BY <1>1, <1>3, <1>4 DEF Brim, Full, Least, Since
  <1> HIDE DEF more
  <1>7. Brim(k)' \in Int /\ Brim(k)' <= left + more
    BY <1>2, <1>5, <1>6 DEF Least
  <1> QED
    BY <1>1, <1>7 DEF more

\* What an observer counts of a request that was let in, or was not.
LEMMA SeenWindow ==
  ASSUME SlotInv, NEW k \in Keys, NEW j \in Keys, NEW n \in Nat,
         NEW now \in 0 .. MaxTicks, now <= ticks, window' = Seen(j, n, now)
  PROVE  /\ j # k => window'[k] = window[k]
         /\ window[k] = None => window'[k] = window[k]
         /\ j = k /\ window[k] # None =>
              /\ window'[k].taken = window[k].taken + n
              /\ Due(window'[k]) = Due(window[k]) + (ticks - now)
  <1>1. CASE window[j] = None
    BY <1>1 DEF Seen
  <1>2. CASE window[j] # None
    <2> DEFINE w == [window[j] EXCEPT !.taken = @ + n, !.late = @ + (ticks - now)]
    <2>1. window[j] \in Window /\ ticks - now \in Nat
      BY <1>2 DEF SlotInv, TypeOK
    <2>2. window' = [window EXCEPT ![j] = w]
      BY <1>2 DEF Seen, SlotInv, TypeOK
    <2>3. window'[j] = w /\ (j # k => window'[k] = window[k])
      BY <2>2 DEF SlotInv, TypeOK
    <2>4. /\ w.taken = window[j].taken + n
          /\ w.elapsed = window[j].elapsed /\ w.restarts = window[j].restarts
          /\ w.late = window[j].late + (ticks - now)
      BY <2>1 DEF Window
    <2> DEFINE base == Minute * (1 + window[j].restarts)
    <2>5. base \in Int /\ window[j].elapsed \in Int /\ window[j].late \in Int
      <3>1. 1 + window[j].restarts \in Nat /\ Minute \in Nat
        BY <2>1, GatewayAssumption DEF Window
      <3>2. base \in Nat
        BY <3>1, OneTimes
      <3> QED
        BY <2>1, <3>2 DEF Window
    <2>6. /\ Due(w) = base + window[j].elapsed + (window[j].late + (ticks - now))
          /\ Due(window[j]) = base + window[j].elapsed + window[j].late
      BY <2>4 DEF Due
    <2> HIDE DEF base, w
    <2>7. Due(w) = Due(window[j]) + (ticks - now)
      BY <2>1, <2>5, <2>6
    <2> QED
      BY <1>2, <2>3, <2>4, <2>7
  <1> QED
    BY <1>1, <1>2

LEMMA AskedMeters ==
  ASSUME SlotInv, NEW k \in Keys, Metered(k), NEW j \in Keys,
         NEW now \in 0 .. MaxTicks, now <= ticks, UNCHANGED ticks,
         NEW n \in {0, 1}, NEW left \in 0 .. Full,
         left + n * Minute <= Brim(j),
         Asked(j, left, now), window' = Seen(j, n, now)
  PROVE  Metered(k)'
  <1> DEFINE d == ticks - now
  <1>1. d \in Nat
    BY DEF SlotInv, TypeOK
  <1>2. /\ Brim(j) \in 0 .. Full /\ Full \in Nat
        /\ MaxRpm \in Nat /\ Minute \in Nat
    BY BrimTyped DEF SlotInv
  <1> HIDE DEF d
  <1>3. /\ Brim(j)' \in Int /\ Brim(j)' <= left + d * MaxRpm
        /\ \A i \in Keys \ {j} : bucket'[i] = bucket[i]
    BY <1>1, AskedBrim DEF SlotInv, d
  <1>4. n \in Nat
    OBVIOUS
  <1>5. /\ j # k => window'[k] = window[k]
        /\ window[k] = None => window'[k] = window[k]
        /\ j = k /\ window[k] # None =>
             /\ window'[k].taken = window[k].taken + n
             /\ Due(window'[k]) = Due(window[k]) + d
    BY <1>1, <1>4, SeenWindow DEF d
  <1>6. CASE j # k
    BY <1>1, <1>3, <1>5, <1>6, MeterStays
  <1>7. CASE j = k
    <2>1. Brim(k)' \in Int /\ Brim(k)' <= left + d * MaxRpm
      BY <1>3, <1>7
    <2> DEFINE more == d * MaxRpm
               nm == n * Minute
    <2>2. more \in Nat /\ nm \in Nat
      BY <1>1, <1>2, <1>4, OneTimes
    <2>3. Brim(k)' <= left + more /\ left + nm <= Brim(k)
      BY <1>7, <2>1
    <2> HIDE DEF more, nm
    <2>4. Brim(k)' + nm <= Brim(k) + more
      BY <1>2, <1>7, <2>1, <2>2, <2>3
    <2>5. Brim(k)' + n * Minute <= Brim(k) + d * MaxRpm
      BY <2>4 DEF more, nm
    <2> QED
      BY <1>1, <1>4, <1>5, <1>7, <2>1, <2>5, MeterGrows DEF SlotInv
  <1> QED
    BY <1>6, <1>7

\* A request that asks with a time gone by refills the bucket again from then.
LEMMA TakeTokenMeters ==
  ASSUME SlotInv, Clocked, NEW k \in Keys, Metered(k), NEW s \in Slots,
         TakeToken(s)
  PROVE  Metered(k)'
  <1> DEFINE j == task[s].key
             now == task[s].now
             parts == Refilled(j, task[s].rpm, now)
  <1>1. /\ j \in Keys /\ task[s].rpm \in Rpms /\ UNCHANGED ticks
        /\ now \in 0 .. MaxTicks /\ now <= ticks
    BY GatewayAssumption
    DEF SlotInv, Keyed, Clocked, TypeOK, Task, TakeToken, At
  <1>2. /\ parts \in 0 .. Full /\ parts <= Brim(j) /\ Brim(j) \in 0 .. Full
        /\ Full \in Nat /\ MaxRpm \in Nat /\ Minute \in Nat
    BY <1>1, RefilledBounded, BrimTyped DEF SlotInv
  <1> HIDE DEF parts
  <1>4. CASE /\ parts >= Minute /\ Asked(j, parts - Minute, now)
             /\ window' = Seen(j, 1, now)
    <2>1. parts - Minute \in 0 .. Full /\ parts - Minute + 1 * Minute <= Brim(j)
      BY <1>2, <1>4
    <2> QED
      BY <1>1, <1>4, <2>1, AskedMeters
  <1>5. CASE parts < Minute /\ Asked(j, parts, now) /\ window' = Seen(j, 0, now)
    <2>1. parts + 0 * Minute <= Brim(j)
      BY <1>2, OneTimes
    <2> QED
      BY <1>1, <1>2, <1>5, <2>1, AskedMeters
  <1> QED
    BY <1>4, <1>5 DEF TakeToken, parts

\* A tick fills a bucket by at most MaxRpm.
LEMMA TickMeters ==
  ASSUME SlotInv, NEW k \in Keys, Metered(k), Tick
  PROVE  Metered(k)'
  <1>1. /\ bucket'[k] = bucket[k] /\ ticks' = ticks + 1 /\ ticks \in Nat
        /\ window'[k] = IF window[k] = None THEN None
                        ELSE [window[k] EXCEPT !.elapsed = @ + 1]
    BY DEF Tick, SlotInv, TypeOK
  <1>2. /\ Brim(k) \in 0 .. Full /\ Full \in Nat /\ MaxRpm \in Nat
        /\ Minute \in Nat
    BY BrimTyped DEF SlotInv
  <1>3. Brim(k)' \in Int /\ Brim(k)' <= Brim(k) + MaxRpm
    <2>1. CASE bucket[k] = None
      BY <1>1, <1>2, <2>1 DEF Brim, Full
    <2>2. CASE bucket[k] # None
      <3> DEFINE was == Since(ticks, bucket[k].last)
                 is == Since(ticks + 1, bucket[k].last)
                 low == was * MaxRpm
                 top == is * MaxRpm
                 par == bucket[k].parts
      <3>1. /\ was \in Nat /\ is \in Nat /\ is <= was + 1
            /\ par \in Nat
        BY <1>1, <1>2, <2>2, GatewayAssumption DEF SlotInv, TypeOK, Bucket, Since
      <3>2. top <= low + MaxRpm /\ top \in Nat /\ low \in Nat
        <4> HIDE DEF was, is
        <4>1. is * MaxRpm <= (was + 1) * MaxRpm
          BY <1>2, <3>1, Mono
        <4>2. (was + 1) * MaxRpm = was * MaxRpm + MaxRpm
          BY <1>2, <3>1, OneTimes
        <4> QED
          BY <1>2, <3>1, <4>1, <4>2, OneTimes
      <3>3. /\ Brim(k) = IF par + low < Full THEN par + low ELSE Full
            /\ Brim(k)' = IF par + top < Full THEN par + top ELSE Full
        BY <1>1, <2>2 DEF Brim, Least, Full, Since
      <3> HIDE DEF low, top, par
      <3> QED
        BY <1>2, <3>1, <3>2, <3>3
    <2> QED
      BY <2>1, <2>2
  <1>4. CASE window[k] = None
    BY <1>1, <1>4 DEF Metered
  <1>5. CASE window[k] # None
    <2>1. /\ window'[k].taken = window[k].taken + 0
          /\ Due(window'[k]) = Due(window[k]) + 1
      <3> DEFINE base == Minute * (1 + window[k].restarts)
      <3>1. /\ window[k] \in Window /\ 1 + window[k].restarts \in Nat
            /\ window[k].taken \in Nat /\ window[k].elapsed \in Nat
            /\ window[k].late \in Nat
        BY <1>5 DEF SlotInv, TypeOK, Window
      <3>2. /\ window'[k].taken = window[k].taken
            /\ window'[k].elapsed = window[k].elapsed + 1
            /\ window'[k].restarts = window[k].restarts
            /\ window'[k].late = window[k].late
        BY <1>1, <1>5, <3>1 DEF Window
      <3>3. base \in Nat
        BY <1>2, <3>1, OneTimes
      <3>4. /\ Due(window[k]) = base + window[k].elapsed + window[k].late
            /\ Due(window'[k]) = base + (window[k].elapsed + 1) + window[k].late
        BY <3>2 DEF Due
      <3> HIDE DEF base
      <3> QED
        BY <3>1, <3>2, <3>3, <3>4
    <2>2. Brim(k)' + 0 * Minute <= Brim(k) + 1 * MaxRpm
      BY <1>2, <1>3
    <2> QED
      BY <1>3, <1>5, <2>1, <2>2, MeterGrows DEF SlotInv
  <1> QED
    BY <1>4, <1>5

\* A restart forgets the bucket: the burst is there again.
LEMMA RestartMeters ==
  ASSUME SlotInv, NEW k \in Keys, Metered(k), Restart
  PROVE  Metered(k)'
  <1>1. /\ bucket'[k] = None
        /\ window'[k] = IF window[k] = None THEN None
                        ELSE [window[k] EXCEPT !.restarts = @ + 1]
    BY DEF Restart
  <1>2. /\ Brim(k) \in 0 .. Full /\ Full \in Nat /\ MaxRpm \in Nat
        /\ Minute \in Nat /\ Brim(k)' = Full
    BY <1>1, BrimTyped DEF SlotInv, Brim, Full
  <1>3. CASE window[k] = None
    BY <1>1, <1>3 DEF Metered
  <1>4. CASE window[k] # None
    <2>1. /\ window'[k].taken = window[k].taken + 0
          /\ Due(window'[k]) = Due(window[k]) + Minute
      <3> DEFINE base == Minute * (1 + window[k].restarts)
      <3>1. /\ window[k] \in Window /\ 1 + window[k].restarts \in Nat
            /\ window[k].taken \in Nat /\ window[k].elapsed \in Nat
            /\ window[k].late \in Nat
        BY <1>4 DEF SlotInv, TypeOK, Window
      <3>2. /\ window'[k].taken = window[k].taken
            /\ window'[k].elapsed = window[k].elapsed
            /\ 1 + window'[k].restarts = (1 + window[k].restarts) + 1
            /\ window'[k].late = window[k].late
        BY <1>1, <1>4, <3>1 DEF Window
      <3>3. /\ base \in Nat
            /\ Minute * ((1 + window[k].restarts) + 1) = base + Minute
        BY <1>2, <3>1, OneTimes
      <3>4. /\ Due(window[k]) = base + window[k].elapsed + window[k].late
            /\ Due(window'[k])
                 = (base + Minute) + window[k].elapsed + window[k].late
        BY <3>2, <3>3 DEF Due
      <3> HIDE DEF base
      <3> QED
        BY <1>2, <3>1, <3>2, <3>3, <3>4
    <2>2. Brim(k)' + 0 * Minute <= Brim(k) + Minute * MaxRpm
      <3>1. 0 * Minute = 0 /\ Minute * MaxRpm = Full
        BY <1>2, OneTimes DEF Full
      <3> QED
        BY <1>2, <3>1
    <2> QED
      BY <1>2, <1>4, <2>1, <2>2, MeterGrows DEF SlotInv
  <1> QED
    BY <1>3, <1>4

LEMMA ObserveMeters ==
  ASSUME SlotInv, NEW k \in Keys, Metered(k), NEW j \in Keys, Observe(j)
  PROVE  Metered(k)'
  <1>1. /\ bucket'[k] = bucket[k] /\ UNCHANGED ticks
        /\ k # j => window'[k] = window[k]
        /\ k = j => window'[k] = [taken |-> 0, elapsed |-> 0, restarts |-> 0,
                                 late |-> 0]
    BY DEF Observe, SlotInv, TypeOK
  <1>2. CASE k # j
    BY <1>1, <1>2, MeterStays
  <1>3. CASE k = j
    <2>1. /\ Brim(k) \in 0 .. Full /\ Brim(k)' = Brim(k) /\ Full \in Nat
          /\ MaxRpm \in Nat /\ Minute \in Nat
      BY <1>1, BrimTyped DEF SlotInv, Brim, Full
    <2>2. window'[k].taken = 0 /\ Due(window'[k]) = Minute * (1 + 0) + 0 + 0
      BY <1>1, <1>3 DEF Due
    <2>3. /\ 0 * Minute = 0 /\ Minute * (1 + 0) + 0 + 0 = Minute
          /\ MaxRpm * Minute = Full
      BY <2>1, OneTimes, Spread DEF Full
    <2>4. 0 + Brim(k)' <= Full
      BY <2>1
    <2>5. window'[k].taken * Minute + Brim(k)' <= MaxRpm * Due(window'[k])
      BY <2>2, <2>3, <2>4
    <2> QED
      BY <2>5 DEF Metered
  <1> QED
    BY <1>2, <1>3

LEMMA MeterStep ==
  ASSUME SlotInv, Clocked, [Next]_vars, NEW k \in Keys, Metered(k)
  PROVE  Metered(k)'
  <1>1. CASE UNCHANGED vars
    BY <1>1, MeterStays DEF vars
  <1>2. ASSUME NEW s \in Slots, NEW j \in Keys, NEW image \in BOOLEAN,
               Authenticate(s, j, image)
        PROVE  Metered(k)'
    BY <1>2, MeterStays DEF Authenticate
  <1>3. ASSUME NEW s \in Slots,
               \/ AcquireSlot(s) \/ Validate(s) \/ Reserve(s) \/ LimitsBegin(s)
               \/ CacheLookup(s) \/ Generate(s) \/ Settle(s) \/ Finish(s)
               \/ Dropped(s)
        PROVE  Metered(k)'
    <2>1. UNCHANGED <<bucket, window, ticks>>
      BY <1>3 DEF AcquireSlot, Validate, Reserve, LimitsBegin, CacheLookup,
                  Generate, Settle, Finish, Dropped
    <2> QED
      BY <2>1, MeterStays
  <1>4. ASSUME NEW s \in Slots, TakeToken(s)
        PROVE  Metered(k)'
    BY <1>4, TakeTokenMeters
  <1>5. ASSUME NEW j \in Keys, NEW q \in Quotas \cup {None},
               NEW r \in Rpms \cup {None},
               \/ CreateKey(j, q, r)
               \/ \E live \in BOOLEAN : PatchKey(j, q, r, live)
        PROVE  Metered(k)'
    BY <1>5, MeterStays DEF CreateKey, PatchKey
  <1>6. ASSUME NEW j \in Keys, KeyEnds(j) \/ Observe(j)
        PROVE  Metered(k)'
    BY <1>6, ObserveMeters, MeterStays DEF KeyEnds
  <1>7. CASE \E a \in Apps : Evict(a)
    BY <1>7, MeterStays DEF Evict
  <1>8. CASE Restart \/ Tick
    BY <1>8, RestartMeters, TickMeters
  <1> QED
    BY <1>1, <1>2, <1>3, <1>4, <1>5, <1>6, <1>7, <1>8, Steps

LEMMA MeterInvariant ==
  Spec => [](SlotInv /\ Clocked /\ \A k \in Keys : Metered(k))
  <1>1. Init => SlotInv /\ Clocked /\ \A k \in Keys : Metered(k)
    BY SlotsInit DEF Init, Clocked, Idle, Metered
  <1>2. (SlotInv /\ Clocked /\ \A k \in Keys : Metered(k)) /\ [Next]_vars
          => (SlotInv /\ Clocked /\ \A k \in Keys : Metered(k))'
    BY SlotsStep, MeterStep
  <1> QED
    BY <1>1, <1>2, PTL DEF Spec

\* From any instant on, a key is let in at most a burst of MaxRpm times per
\* process start and then at that rate, whatever rates it is patched to, and
\* once more for as long as requests waited with an old time for its bucket.
THEOREM RateBounded == Spec => []RateBound
  <1>1. SlotInv /\ Clocked /\ (\A k \in Keys : Metered(k)) => RateBound
    <2> SUFFICES ASSUME SlotInv, \A k \in Keys : Metered(k),
                        NEW k \in Keys, window[k] # None
                 PROVE  window[k].taken * Minute <= MaxRpm * Due(window[k])
      BY DEF RateBound, Due
    <2> DEFINE was == window[k].taken * Minute
               top == MaxRpm * Due(window[k])
    <2>1. was + Brim(k) <= top
      BY DEF Metered
    <2>2. /\ Brim(k) \in Nat /\ Minute \in Nat /\ MaxRpm \in Nat
          /\ window[k].taken \in Nat /\ Due(window[k]) \in Nat
      BY BrimTyped, DueTyped DEF SlotInv, TypeOK, Window
    <2>3. was \in Nat /\ top \in Nat
      BY <2>2, OneTimes
    <2> HIDE DEF was, top
    <2>4. was <= top
      BY <2>1, <2>2, <2>3
    <2> QED
      BY <2>4 DEF was, top
  <1> QED
    BY <1>1, MeterInvariant, PTL
=============================================================================
