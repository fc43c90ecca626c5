--------------------------- MODULE Dispatch_proofs --------------------------
(***************************************************************************)
(* Proofs about provider dispatch, for any number of requests, providers   *)
(* and deployments, and any threshold, opening time and retry count.       *)
(***************************************************************************)
EXTENDS Dispatch, TLAPS

----------------------------------------------------------------------------
(* The inductive invariant *)

Retries(r, i) == plan[r].deps[i].retries

\* A deployment the loop has left behind was used up.
UsedUp(r, i) == i \in spared[r] \/ tries[r][i] = Retries(r, i) + 1

Bounded(r, i) == tries[r][i] <= Retries(r, i) + 1

\* A request in the fallback loop: what is behind it, ahead of it, and how often
\* the deployment it is at was called.
Walk(r) ==
  /\ at[r] \in DOMAIN plan[r].deps
  /\ attempt[r] <= Retries(r, at[r])
  /\ tries[r][at[r]] = IF pc[r] = "report" THEN attempt[r] + 1 ELSE attempt[r]
  /\ \A i \in DOMAIN plan[r].deps :
       /\ i < at[r] => UsedUp(r, i) /\ Bounded(r, i)
       /\ i > at[r] => tries[r][i] = 0

\* Accepted generations, with a success that is not reported yet.
Accounted(r) ==
  IF (pc[r] = "report" /\ outcome[r] = "success") \/ result[r] = "ok"
  THEN jobs[r] \in 1 .. doubts[r] + 1
  ELSE IF result[r] = "dropped" THEN jobs[r] <= doubts[r] + 1
                                ELSE jobs[r] <= doubts[r]

Sound(r) ==
  /\ pc[r] = "idle" => at[r] = 1 /\ attempt[r] = 0
                       /\ \A i \in DOMAIN plan[r].deps : tries[r][i] = 0
  /\ pc[r] \in {"gate", "call", "report"} => Walk(r)
  /\ pc[r] = "gate" => attempt[r] = 0
  /\ pc[r] = "report" => outcome[r] # "none"
  /\ pc[r] = "done" => \A i \in DOMAIN plan[r].deps : Bounded(r, i)
  /\ result[r] # "none" => pc[r] = "done"
  /\ result[r] = "failed" => \A i \in DOMAIN plan[r].deps : UsedUp(r, i)
  /\ Accounted(r)

DInv == TypeOK /\ \A r \in Requests : Sound(r)

----------------------------------------------------------------------------
(* Facts about plans *)

\* Where a request is in its plan.
LEMMA DeploymentTypes ==
  ASSUME TypeOK, NEW r \in Requests
  PROVE  /\ Len(plan[r].deps) \in Nat
         /\ DOMAIN plan[r].deps = 1 .. Len(plan[r].deps)
         /\ \A i \in DOMAIN plan[r].deps :
              plan[r].deps[i].provider \in Providers /\ Retries(r, i) \in 0 .. MaxRetries
  <1>1. plan[r] \in Plan
    BY DispatchAssumption DEF TypeOK
  <1>2. plan[r].deps \in Seq(Deployment)
    BY <1>1 DEF Plan
  <1>3. /\ Len(plan[r].deps) \in Nat
        /\ DOMAIN plan[r].deps = 1 .. Len(plan[r].deps)
        /\ \A i \in DOMAIN plan[r].deps : plan[r].deps[i] \in Deployment
    BY <1>2
  <1>4. \A d \in Deployment : d.provider \in Providers /\ d.retries \in 0 .. MaxRetries
    BY DEF Deployment
  <1> QED
    BY <1>3, <1>4 DEF Retries

\* The breaker stays well typed, and an opening time still marks a full streak.
Breaker ==
  /\ failures \in [Providers -> Nat]
  /\ opened \in [Providers -> 0 .. OpenFor \cup {Nil}]

LEMMA Recorded ==
  ASSUME Breaker, NEW p \in Providers, RecordSuccess(p) \/ RecordFailure(p)
  PROVE  Breaker' /\ (OpenIffStreak => OpenIffStreak')
  <1>1. CASE RecordSuccess(p)
    BY <1>1, DispatchAssumption DEF Breaker, RecordSuccess, OpenIffStreak
  <1>2. CASE RecordFailure(p)
    <2>1. /\ failures' \in [Providers -> Nat]
          /\ failures'[p] = failures[p] + 1
          /\ \A q \in Providers : q # p => failures'[q] = failures[q]
      BY <1>2 DEF Breaker, RecordFailure
    <2>2. /\ opened' \in [Providers -> 0 .. OpenFor \cup {Nil}]
          /\ \A q \in Providers : q # p => opened'[q] = opened[q]
          /\ opened'[p] = IF failures'[p] >= Threshold /\ opened[p] = Nil THEN 0 ELSE opened[p]
      BY <1>2, DispatchAssumption DEF Breaker, RecordFailure
    <2> QED
      BY <2>1, <2>2, DispatchAssumption DEF Breaker, OpenIffStreak
  <1> QED
    BY <1>1, <1>2

----------------------------------------------------------------------------
(* What follows a call *)

\* The control state and the deployments given up, well typed.
Control ==
  /\ pc \in [Requests -> {"idle", "gate", "call", "report", "done"}]
  /\ at \in [Requests -> Nat]
  /\ attempt \in [Requests -> 0 .. MaxRetries]
  /\ outcome \in [Requests -> Outcomes]
  /\ result \in [Requests -> {"none", "ok", "failed", "dropped"}]
  /\ spared \in [Requests -> SUBSET Nat]

\* A step of r leaves the other requests alone.
Elsewhere(r) ==
  \A s \in Requests : s # r =>
    /\ pc'[s] = pc[s] /\ at'[s] = at[s] /\ attempt'[s] = attempt[s]
    /\ outcome'[s] = outcome[s] /\ result'[s] = result[s] /\ spared'[s] = spared[s]

LEMMA FinishStep ==
  ASSUME TypeOK, NEW r \in Requests, NEW res \in {"ok", "failed", "dropped"},
         Finish(r, res), UNCHANGED spared
  PROVE  /\ Control' /\ Elsewhere(r)
         /\ pc'[r] = "done" /\ result'[r] = res /\ spared'[r] = spared[r]
  BY DispatchAssumption DEF TypeOK, Control, Elsewhere, Finish, Outcomes

\* Moving on: the next deployment at its gate, or the end of the last one.
LEMMA NextStep ==
  ASSUME TypeOK, NEW r \in Requests, at[r] \in DOMAIN plan[r].deps, NextDeployment(r),
         UNCHANGED spared \/ Spare(r), result[r] = "none"
  PROVE  /\ Control' /\ Elsewhere(r)
         /\ spared'[r] = spared[r] \/ spared'[r] = spared[r] \cup {at[r]}
         /\ Spare(r) => at[r] \in spared'[r]
         /\ \/ /\ at[r] < Len(plan[r].deps)
               /\ pc'[r] = "gate" /\ at'[r] = at[r] + 1 /\ attempt'[r] = 0
               /\ result'[r] = "none"
            \/ /\ at[r] = Len(plan[r].deps)
               /\ pc'[r] = "done" /\ result'[r] = "failed"
  <1>1. /\ at[r] \in Nat /\ Len(plan[r].deps) \in Nat
        /\ at[r] \in 1 .. Len(plan[r].deps)
    BY DeploymentTypes DEF TypeOK
  <1>2. /\ spared' \in [Requests -> SUBSET Nat]
        /\ spared'[r] = spared[r] \/ spared'[r] = spared[r] \cup {at[r]}
        /\ Spare(r) => at[r] \in spared'[r]
        /\ \A s \in Requests : s # r => spared'[s] = spared[s]
    <2>1. spared \in [Requests -> SUBSET Nat] /\ spared[r] \cup {at[r]} \in SUBSET Nat
      BY <1>1 DEF TypeOK
    <2>2. CASE UNCHANGED spared /\ ~Spare(r)
      BY <2>1, <2>2
    <2>3. CASE Spare(r)
      <3>1. spared' = [spared EXCEPT ![r] = spared[r] \cup {at[r]}]
        BY <2>3 DEF Spare
      <3>2. spared'[r] = spared[r] \cup {at[r]}
        BY <2>1, <3>1
      <3> QED
        BY <2>1, <3>1, <3>2
    <2> QED
      BY <2>2, <2>3
  <1>3. CASE at[r] < Len(plan[r].deps)
    <2>1. /\ pc' = [pc EXCEPT ![r] = "gate"] /\ at' = [at EXCEPT ![r] = @ + 1]
          /\ attempt' = [attempt EXCEPT ![r] = 0] /\ outcome' = [outcome EXCEPT ![r] = "none"]
          /\ result' = result
      BY <1>3 DEF NextDeployment
    <2> QED
      BY <1>1, <1>2, <1>3, <2>1, DispatchAssumption DEF TypeOK, Control, Elsewhere, Outcomes
  <1>4. CASE ~(at[r] < Len(plan[r].deps))
    <2>1. Finish(r, "failed")
      BY <1>4 DEF NextDeployment
    <2> QED
      BY <1>1, <1>2, <1>4, <2>1, DispatchAssumption
      DEF TypeOK, Control, Elsewhere, Finish, Outcomes
  <1> QED
    BY <1>3, <1>4

\* The request whose call just ended with `out` at its deployment, the attempt
\* counted: what After leaves is sound.
LEMMA AfterStep ==
  ASSUME TypeOK, NEW r \in Requests, NEW out \in {"success", "retryable", "fatal"},
         After(r, out), UNCHANGED plan, result[r] = "none",
         at[r] \in DOMAIN plan[r].deps, attempt[r] <= Retries(r, at[r]),
         tries'[r] \in [DOMAIN plan[r].deps -> Nat],
         tries'[r][at[r]] = attempt[r] + 1,
         \A i \in DOMAIN plan[r].deps :
           /\ i < at[r] => (i \in spared[r] \/ tries'[r][i] = Retries(r, i) + 1)
                           /\ tries'[r][i] <= Retries(r, i) + 1
           /\ i > at[r] => tries'[r][i] = 0,
         jobs'[r] \in Nat, doubts'[r] \in Nat,
         out = "success" => jobs'[r] \in 1 .. doubts'[r] + 1,
         out # "success" => jobs'[r] <= doubts'[r]
  PROVE  Control' /\ Elsewhere(r) /\ Sound(r)'
  <1>1. /\ Len(plan[r].deps) \in Nat
        /\ DOMAIN plan[r].deps = 1 .. Len(plan[r].deps)
        /\ \A i \in DOMAIN plan[r].deps : Retries(r, i) \in 0 .. MaxRetries /\ Retries(r, i) \in Nat
    BY DeploymentTypes, DispatchAssumption
  <1>2. at[r] \in Nat /\ attempt[r] \in Nat /\ spared[r] \subseteq Nat
    BY DispatchAssumption DEF TypeOK
  <1>3. \A i \in DOMAIN plan[r].deps : Retries(r, i)' = Retries(r, i)
    BY DEF Retries
  <1>4. CASE out = "success"
    <2>1. Finish(r, "ok") /\ UNCHANGED spared
      BY <1>4 DEF After
    <2>2. /\ Control' /\ Elsewhere(r)
          /\ pc'[r] = "done" /\ result'[r] = "ok"
      BY <2>1, FinishStep
    <2>3. ASSUME NEW i \in DOMAIN plan[r].deps
          PROVE  tries'[r][i] <= Retries(r, i) + 1
      <3>1. i \in Nat /\ Retries(r, i) \in Nat
        BY <1>1
      <3>2. CASE i < at[r]
        BY <3>2
      <3>3. CASE i = at[r]
        BY <1>2, <3>1, <3>3
      <3>4. CASE i > at[r]
        BY <3>1, <3>4
      <3> QED
        BY <1>2, <3>1, <3>2, <3>3, <3>4
    <2> QED
      BY <1>3, <1>4, <2>2, <2>3 DEF Sound, Bounded, Accounted
  <1>5. ASSUME out # "success", NextDeployment(r),
               \/ Spare(r)
               \/ UNCHANGED spared /\ attempt[r] = Retries(r, at[r])
        PROVE  Control' /\ Elsewhere(r) /\ Sound(r)'
    <2>1. /\ Control' /\ Elsewhere(r)
          /\ spared'[r] = spared[r] \/ spared'[r] = spared[r] \cup {at[r]}
          /\ Spare(r) => at[r] \in spared'[r]
          /\ \/ /\ at[r] < Len(plan[r].deps)
                /\ pc'[r] = "gate" /\ at'[r] = at[r] + 1 /\ attempt'[r] = 0
                /\ result'[r] = "none"
             \/ /\ at[r] = Len(plan[r].deps)
                /\ pc'[r] = "done" /\ result'[r] = "failed"
      BY <1>5, NextStep
    <2>2. \A i \in DOMAIN plan[r].deps : i <= at[r] =>
            /\ i \in spared'[r] \/ tries'[r][i] = Retries(r, i) + 1
            /\ tries'[r][i] <= Retries(r, i) + 1
      <3> SUFFICES ASSUME NEW i \in DOMAIN plan[r].deps, i <= at[r]
                   PROVE  /\ i \in spared'[r] \/ tries'[r][i] = Retries(r, i) + 1
                          /\ tries'[r][i] <= Retries(r, i) + 1
        OBVIOUS
      <3>1. i \in Nat /\ Retries(r, i) \in Nat
        BY <1>1
      <3>2. CASE i < at[r]
        BY <2>1, <3>2
      <3>3. CASE i = at[r]
        BY <1>2, <1>5, <2>1, <3>1, <3>3
      <3> QED
        BY <1>2, <3>1, <3>2, <3>3
    <2>3. CASE pc'[r] = "gate"
      <3>1. /\ at[r] < Len(plan[r].deps)
            /\ at'[r] = at[r] + 1 /\ attempt'[r] = 0 /\ result'[r] = "none"
        BY <2>1, <2>3
      <3>2. at'[r] \in DOMAIN plan[r].deps
        BY <1>1, <1>2, <3>1
      <3>3. tries'[r][at'[r]] = 0 /\ 0 <= Retries(r, at'[r])
        BY <1>1, <1>2, <3>1, <3>2
      <3>4. \A i \in DOMAIN plan[r].deps :
              /\ i < at'[r] => i <= at[r]
              /\ i > at'[r] => i > at[r]
        BY <1>1, <1>2, <3>1
      <3>5. Retries(r, at[r])' = Retries(r, at'[r])
        BY DEF Retries
      <3>6. Walk(r)'
        BY <1>3, <2>2, <2>3, <3>1, <3>2, <3>3, <3>4, <3>5 DEF Walk, UsedUp, Bounded
      <3> QED
        BY <1>5, <2>1, <2>3, <3>1, <3>6 DEF Sound, Accounted
    <2>4. CASE pc'[r] = "done"
      BY <1>1, <1>2, <1>3, <1>5, <2>1, <2>2, <2>4 DEF Sound, UsedUp, Bounded, Accounted
    <2> QED
      BY <2>1, <2>3, <2>4
  <1>6. CASE out = "fatal"
    <2>1. NextDeployment(r) /\ Spare(r)
      BY <1>6 DEF After
    <2> QED
      BY <1>5, <1>6, <2>1
  <1>7. CASE out = "retryable" /\ ~Again(r)
    <2>1. NextDeployment(r) /\ UNCHANGED spared
      BY <1>7 DEF After
    <2>2. attempt[r] = Retries(r, at[r])
      BY <1>1, <1>2, <1>7 DEF Again, Here, Retries
    <2> QED
      BY <1>5, <1>7, <2>1, <2>2
  <1>8. CASE out = "retryable" /\ Again(r)
    <2>1. /\ UNCHANGED <<spared, at, result>>
          /\ pc' = [pc EXCEPT ![r] = "call"] /\ attempt' = [attempt EXCEPT ![r] = @ + 1]
          /\ outcome' = [outcome EXCEPT ![r] = "none"]
      BY <1>8 DEF After
    <2>2. attempt[r] + 1 <= Retries(r, at[r])
      BY <1>1, <1>2, <1>8 DEF Again, Here, Retries
    <2>3. attempt' \in [Requests -> 0 .. MaxRetries]
      BY <1>1, <1>2, <2>1, <2>2, DispatchAssumption DEF TypeOK
    <2>4. Control' /\ Elsewhere(r)
      BY <2>1, <2>3 DEF TypeOK, Control, Elsewhere, Outcomes
    <2>5. /\ pc'[r] = "call" /\ at'[r] = at[r] /\ attempt'[r] = attempt[r] + 1
          /\ result'[r] = "none" /\ spared'[r] = spared[r]
      BY <2>1 DEF TypeOK
    <2>6. Walk(r)'
      BY <1>1, <1>2, <1>3, <2>2, <2>5 DEF Walk, UsedUp, Bounded
    <2> QED
      BY <1>8, <2>4, <2>5, <2>6 DEF Sound, Accounted
  <1> QED
    BY <1>4, <1>6, <1>7, <1>8

----------------------------------------------------------------------------
(* The steps *)

Counts ==
  /\ DOMAIN tries = Requests
  /\ \A r \in Requests : tries[r] \in [DOMAIN plan[r].deps -> Nat]
  /\ jobs \in [Requests -> Nat]
  /\ doubts \in [Requests -> Nat]

\* What a step of r owes the invariant: everything typed, r sound, and the
\* other requests as they were.
Keeps(r) ==
  /\ Breaker' /\ Control' /\ Counts' /\ plan' = plan
  /\ OpenIffStreak => OpenIffStreak'
  /\ Sound(r)'
  /\ Elsewhere(r)
  /\ \A s \in Requests : s # r =>
       tries'[s] = tries[s] /\ jobs'[s] = jobs[s] /\ doubts'[s] = doubts[s]

LEMMA Types == TypeOK <=> Breaker /\ Control /\ Counts /\ plan \in [Requests -> Plans]
  BY DEF TypeOK, Breaker, Control, Counts

LEMMA StartStep ==
  ASSUME DInv, NEW r \in Requests, Start(r)
  PROVE  Keeps(r)
  <1>1. /\ TypeOK /\ Sound(r) /\ pc[r] = "idle" /\ result[r] = "none"
        /\ UNCHANGED <<breaker, plan, history>>
    BY DEF DInv, Start, Sound
  <1>2. Breaker' /\ Counts' /\ (OpenIffStreak => OpenIffStreak')
    BY <1>1, Types DEF Breaker, Counts, OpenIffStreak, breaker, history
  <1>3. /\ Len(plan[r].deps) \in Nat
        /\ DOMAIN plan[r].deps = 1 .. Len(plan[r].deps)
        /\ \A i \in DOMAIN plan[r].deps : Retries(r, i) \in Nat
    BY <1>1, DeploymentTypes, DispatchAssumption
  <1>4. \A i \in DOMAIN plan[r].deps : Retries(r, i)' = Retries(r, i)
    BY <1>1 DEF Retries
  <1>5. /\ at[r] = 1 /\ attempt[r] = 0 /\ jobs[r] <= doubts[r]
        /\ \A i \in DOMAIN plan[r].deps : tries[r][i] = 0
    BY <1>1 DEF Sound, Accounted
  <1>6. CASE plan[r].deps = <<>>
    <2>1. Finish(r, "failed") /\ UNCHANGED spared
      BY <1>1, <1>6 DEF Start, history
    <2>2. Control' /\ Elsewhere(r) /\ pc'[r] = "done" /\ result'[r] = "failed"
      BY <1>1, <2>1, FinishStep
    <2>3. DOMAIN plan[r].deps = {}
      BY <1>3, <1>6
    <2>4. Sound(r)'
      BY <1>1, <1>5, <2>2, <2>3 DEF Sound, Accounted, history
    <2> QED
      BY <1>1, <1>2, <2>2, <2>4 DEF Keeps, history
  <1>7. CASE plan[r].deps # <<>>
    <2>1. pc' = [pc EXCEPT ![r] = "gate"] /\ UNCHANGED <<at, attempt, outcome, result, spared>>
      BY <1>1, <1>7 DEF Start, history
    <2>2. Control' /\ Elsewhere(r) /\ pc'[r] = "gate"
      BY <1>1, <2>1 DEF TypeOK, Control, Elsewhere
    <2>3. 1 \in DOMAIN plan[r].deps
      <3>1. plan[r].deps \in Seq(Deployment)
        BY <1>1, DispatchAssumption DEF TypeOK, Plan
      <3>2. Len(plan[r].deps) # 0
        BY <1>7, <3>1
      <3> QED BY <1>3, <3>2
    <2>4. Walk(r)'
      <3>1. \A i \in DOMAIN plan[r].deps : ~(i < 1)
        BY <1>3
      <3>2. 0 <= Retries(r, 1) /\ Retries(r, 1)' = Retries(r, 1)
        BY <1>3, <1>4, <2>3
      <3> QED
        BY <1>1, <1>5, <2>1, <2>2, <2>3, <3>1, <3>2 DEF Walk, Retries, history
    <2>5. Sound(r)'
      BY <1>1, <1>5, <2>1, <2>2, <2>4 DEF Sound, Accounted, history
    <2> QED
      BY <1>1, <1>2, <2>2, <2>5 DEF Keeps, history
  <1> QED
    BY <1>6, <1>7

\* A deployment that is skipped or missing counts as used up.
LEMMA SpareStep ==
  ASSUME DInv, NEW r \in Requests, Skip(r) \/ Missing(r)
  PROVE  Keeps(r)
  <1>1. /\ TypeOK /\ Sound(r) /\ pc[r] = "gate" /\ Spare(r) /\ NextDeployment(r)
        /\ UNCHANGED <<breaker, plan, tries, jobs, doubts>>
    BY DEF DInv, Skip, Missing
  <1>2. Breaker' /\ Counts' /\ (OpenIffStreak => OpenIffStreak')
    BY <1>1, Types DEF Breaker, Counts, OpenIffStreak, breaker
  <1>3. /\ Len(plan[r].deps) \in Nat /\ at[r] \in Nat
        /\ DOMAIN plan[r].deps = 1 .. Len(plan[r].deps)
        /\ \A i \in DOMAIN plan[r].deps : Retries(r, i) \in Nat
        /\ \A i \in DOMAIN plan[r].deps : Retries(r, i)' = Retries(r, i)
    <2>1. at[r] \in Nat /\ MaxRetries \in Nat
      BY <1>1, DispatchAssumption DEF TypeOK
    <2>2. \A i \in DOMAIN plan[r].deps : Retries(r, i) \in Nat
      BY <1>1, <2>1, DeploymentTypes
    <2>3. \A i \in DOMAIN plan[r].deps : Retries(r, i)' = Retries(r, i)
      BY <1>1 DEF Retries
    <2> QED BY <1>1, <2>1, <2>2, <2>3, DeploymentTypes
  <1>4. /\ Walk(r) /\ attempt[r] = 0 /\ result[r] = "none" /\ jobs[r] <= doubts[r]
    BY <1>1 DEF Sound, Accounted
  <1>5. tries[r][at[r]] = 0 /\ at[r] \in DOMAIN plan[r].deps
    BY <1>1, <1>4 DEF Walk
  <1>6. /\ Control' /\ Elsewhere(r)
        /\ spared'[r] = spared[r] \/ spared'[r] = spared[r] \cup {at[r]}
        /\ at[r] \in spared'[r]
        /\ \/ /\ at[r] < Len(plan[r].deps)
              /\ pc'[r] = "gate" /\ at'[r] = at[r] + 1 /\ attempt'[r] = 0
              /\ result'[r] = "none"
           \/ /\ at[r] = Len(plan[r].deps)
              /\ pc'[r] = "done" /\ result'[r] = "failed"
    BY <1>1, <1>4, <1>5, NextStep
  <1>7. \A i \in DOMAIN plan[r].deps : i <= at[r] =>
          /\ i \in spared'[r] \/ tries'[r][i] = Retries(r, i) + 1
          /\ tries'[r][i] <= Retries(r, i) + 1
    <2>1. tries'[r][at[r]] = 0 /\ 0 <= Retries(r, at[r]) + 1
      BY <1>1, <1>3, <1>5
    <2>2. \A i \in DOMAIN plan[r].deps : i < at[r] =>
            /\ i \in spared'[r] \/ tries'[r][i] = Retries(r, i) + 1
            /\ tries'[r][i] <= Retries(r, i) + 1
      BY <1>1, <1>4, <1>6 DEF Walk, UsedUp, Bounded
    <2> QED
      BY <1>3, <1>6, <2>1, <2>2
  <1>8. CASE pc'[r] = "gate"
    <2>1. /\ at[r] < Len(plan[r].deps)
          /\ at'[r] = at[r] + 1 /\ attempt'[r] = 0 /\ result'[r] = "none"
      BY <1>6, <1>8
    <2>2. at'[r] \in DOMAIN plan[r].deps /\ 0 <= Retries(r, at'[r])
      BY <1>3, <2>1
    <2>3. \A i \in DOMAIN plan[r].deps :
            /\ i < at'[r] => i <= at[r]
            /\ i > at'[r] => i > at[r]
      BY <1>3, <2>1
    <2>4. \A i \in DOMAIN plan[r].deps : i > at[r] => tries'[r][i] = 0
      BY <1>1, <1>4 DEF Walk
    <2>5. at'[r] > at[r] /\ Retries(r, at[r])' = Retries(r, at'[r])
      BY <1>1, <1>3, <2>1 DEF Retries
    <2>6. Walk(r)'
      BY <1>1, <1>3, <1>7, <1>8, <2>1, <2>2, <2>3, <2>4, <2>5 DEF Walk, UsedUp, Bounded
    <2>7. Sound(r)'
      BY <1>1, <1>4, <1>8, <2>1, <2>6 DEF Sound, Accounted
    <2> QED
      BY <1>1, <1>2, <1>6, <2>7 DEF Keeps
  <1>9. CASE pc'[r] = "done"
    <2>1. \A i \in DOMAIN plan[r].deps : i <= at[r]
      BY <1>3, <1>6, <1>9
    <2>2. Sound(r)'
      BY <1>1, <1>3, <1>4, <1>6, <1>7, <1>9, <2>1 DEF Sound, UsedUp, Bounded, Accounted
    <2> QED
      BY <1>1, <1>2, <1>6, <2>2 DEF Keeps
  <1> QED
    BY <1>6, <1>8, <1>9

LEMMA PassStep ==
  ASSUME DInv, NEW r \in Requests, Pass(r)
  PROVE  Keeps(r)
  <1>1. /\ TypeOK /\ Sound(r) /\ pc[r] = "gate" /\ pc' = [pc EXCEPT ![r] = "call"]
        /\ UNCHANGED <<breaker, plan, at, attempt, outcome, result, history>>
    BY DEF DInv, Pass
  <1>2. Breaker' /\ Counts' /\ (OpenIffStreak => OpenIffStreak')
    BY <1>1, Types DEF Breaker, Counts, OpenIffStreak, breaker, history
  <1>3. Control' /\ Elsewhere(r) /\ pc'[r] = "call"
    BY <1>1 DEF TypeOK, Control, Elsewhere, history
  <1>4. Walk(r)'
    BY <1>1, <1>3 DEF Sound, Walk, UsedUp, Bounded, Retries, history
  <1>5. Sound(r)'
    BY <1>1, <1>3, <1>4 DEF Sound, Accounted, history
  <1> QED
    BY <1>1, <1>2, <1>3, <1>5 DEF Keeps, history

\* A call ended, its attempt counted: an ungated request goes on at once, a gated
\* one tells the breaker first.
LEMMA EndsStep ==
  ASSUME DInv, NEW r \in Requests, NEW out \in {"success", "retryable", "fatal"},
         pc[r] = "call", Called(r), Ends(r, out), UNCHANGED <<breaker, plan>>,
         jobs' \in [Requests -> Nat], doubts' \in [Requests -> Nat],
         \A s \in Requests : s # r => jobs'[s] = jobs[s] /\ doubts'[s] = doubts[s],
         out = "success" => jobs'[r] \in 1 .. doubts'[r] + 1,
         out # "success" => jobs'[r] <= doubts'[r]
  PROVE  Keeps(r)
  <1>1. TypeOK /\ Sound(r)
    BY DEF DInv
  <1>2. Walk(r) /\ result[r] = "none"
    BY <1>1 DEF Sound
  <1>3. at[r] \in DOMAIN plan[r].deps /\ attempt[r] <= Retries(r, at[r])
    BY <1>2 DEF Walk
  <1>4. /\ DOMAIN tries' = Requests
        /\ tries'[r] = [tries[r] EXCEPT ![at[r]] = @ + 1]
        /\ \A s \in Requests : s # r => tries'[s] = tries[s]
    BY <1>1 DEF Called, TypeOK
  <1>5. /\ tries'[r] \in [DOMAIN plan[r].deps -> Nat]
        /\ tries'[r][at[r]] = attempt[r] + 1
        /\ \A i \in DOMAIN plan[r].deps : i # at[r] => tries'[r][i] = tries[r][i]
    <2>1. tries[r] \in [DOMAIN plan[r].deps -> Nat] /\ tries[r][at[r]] = attempt[r]
      BY <1>1, <1>2 DEF TypeOK, Walk
    <2> QED
      BY <1>3, <1>4, <2>1
  <1>6. Counts'
    BY <1>1, <1>4, <1>5 DEF Counts, TypeOK
  <1>7. Breaker' /\ (OpenIffStreak => OpenIffStreak')
    BY <1>1, Types DEF Breaker, OpenIffStreak, breaker
  <1>8. at[r] \in Nat /\ DOMAIN plan[r].deps \subseteq Nat
    BY <1>1, DeploymentTypes, SMTT(30) DEF TypeOK
  <1>9. \A i \in DOMAIN plan[r].deps :
          /\ i < at[r] => (i \in spared[r] \/ tries'[r][i] = Retries(r, i) + 1)
                          /\ tries'[r][i] <= Retries(r, i) + 1
          /\ i > at[r] => tries'[r][i] = 0
    BY <1>2, <1>5, <1>8 DEF Walk, UsedUp, Bounded
  <1>10. CASE ~plan[r].gated
    <2>1. After(r, out)
      BY <1>10 DEF Ends
    <2>2. jobs'[r] \in Nat /\ doubts'[r] \in Nat
      OBVIOUS
    <2>3. Control' /\ Elsewhere(r) /\ Sound(r)'
      BY <1>1, <1>2, <1>3, <1>5, <1>9, <2>1, <2>2, AfterStep
    <2> QED
      BY <1>4, <1>6, <1>7, <2>3 DEF Keeps
  <1>11. CASE plan[r].gated
    <2>1. /\ pc' = [pc EXCEPT ![r] = "report"] /\ outcome' = [outcome EXCEPT ![r] = out]
          /\ UNCHANGED <<at, attempt, result, spared>>
      BY <1>11 DEF Ends
    <2>2. Control' /\ Elsewhere(r) /\ pc'[r] = "report" /\ outcome'[r] = out
      BY <1>1, <2>1 DEF TypeOK, Control, Elsewhere, Outcomes
    <2>3. \A i \in DOMAIN plan[r].deps : Retries(r, i)' = Retries(r, i)
      BY DEF Retries
    <2>4. Walk(r)'
      BY <1>3, <1>5, <1>9, <2>1, <2>2, <2>3 DEF Walk, UsedUp, Bounded
    <2>5. Sound(r)'
      BY <1>2, <2>1, <2>2, <2>4 DEF Sound, Accounted
    <2> QED
      BY <1>4, <1>6, <1>7, <2>2, <2>5 DEF Keeps
  <1> QED
    BY <1>10, <1>11

LEMMA CallStep ==
  ASSUME DInv, NEW r \in Requests, Succeed(r) \/ Fail(r) \/ Doubt(r)
  PROVE  Keeps(r)
  <1>1. /\ jobs \in [Requests -> Nat] /\ doubts \in [Requests -> Nat]
        /\ pc[r] = "call" /\ Called(r) /\ UNCHANGED <<breaker, plan>>
    BY DEF DInv, TypeOK, Succeed, Fail, Doubt
  <1>2. jobs[r] <= doubts[r]
    <2>1. Sound(r)
      BY DEF DInv
    <2> QED
      BY <1>1, <2>1 DEF Sound, Accounted
  <1>3. CASE Succeed(r)
    <2>1. jobs' = [jobs EXCEPT ![r] = @ + 1] /\ doubts' = doubts /\ Ends(r, "success")
      BY <1>3 DEF Succeed
    <2>2. /\ jobs' \in [Requests -> Nat] /\ doubts' \in [Requests -> Nat]
          /\ \A s \in Requests : s # r => jobs'[s] = jobs[s] /\ doubts'[s] = doubts[s]
          /\ jobs'[r] \in 1 .. doubts'[r] + 1
      BY <1>1, <1>2, <2>1
    <2> QED
      BY <1>1, <2>1, <2>2, EndsStep
  <1>4. CASE Fail(r)
    <2>1. jobs' = jobs /\ doubts' = doubts
      BY <1>4 DEF Fail
    <2>2. PICK out \in {"retryable", "fatal"} : Ends(r, out)
      BY <1>4 DEF Fail
    <2> QED
      BY <1>1, <1>2, <2>1, <2>2, EndsStep
  <1>5. CASE Doubt(r)
    <2>1. PICK accepted \in {0, 1} : jobs' = [jobs EXCEPT ![r] = @ + accepted]
      BY <1>5 DEF Doubt
    <2>2. /\ doubts' = [doubts EXCEPT ![r] = @ + 1]
          /\ \E out \in {"retryable", "fatal"} : Ends(r, out)
      BY <1>5 DEF Doubt
    <2>4. PICK out \in {"retryable", "fatal"} : Ends(r, out)
      BY <2>2
    <2>3. /\ jobs' \in [Requests -> Nat] /\ doubts' \in [Requests -> Nat]
          /\ \A s \in Requests : s # r => jobs'[s] = jobs[s] /\ doubts'[s] = doubts[s]
          /\ jobs'[r] <= doubts'[r]
      BY <1>1, <1>2, <2>1, <2>2
    <2> QED
      BY <1>1, <2>3, <2>4, EndsStep
  <1> QED
    BY <1>3, <1>4, <1>5

LEMMA ReportStep ==
  ASSUME DInv, NEW r \in Requests, Report(r)
  PROVE  Keeps(r)
  <1>1. /\ TypeOK /\ Sound(r) /\ pc[r] = "report" /\ After(r, outcome[r])
        /\ RecordSuccess(Provider(r)) \/ RecordFailure(Provider(r))
        /\ UNCHANGED <<plan, tries, jobs, doubts>>
    BY DEF DInv, Report
  <1>2. Walk(r) /\ result[r] = "none" /\ outcome[r] \in {"success", "retryable", "fatal"}
    BY <1>1 DEF Sound, TypeOK, Outcomes
  <1>3. Provider(r) \in Providers
    BY <1>1, <1>2, DeploymentTypes DEF Walk, Provider, Here
  <1>4. Breaker' /\ (OpenIffStreak => OpenIffStreak')
    BY <1>1, <1>3, Types, Recorded
  <1>5. Counts'
    BY <1>1, Types DEF Counts
  <1>6. /\ at[r] \in DOMAIN plan[r].deps /\ attempt[r] <= Retries(r, at[r])
        /\ tries'[r][at[r]] = attempt[r] + 1
        /\ \A i \in DOMAIN plan[r].deps :
             /\ i < at[r] => (i \in spared[r] \/ tries'[r][i] = Retries(r, i) + 1)
                             /\ tries'[r][i] <= Retries(r, i) + 1
             /\ i > at[r] => tries'[r][i] = 0
    BY <1>1, <1>2 DEF Walk, UsedUp, Bounded
  <1>7. /\ tries'[r] \in [DOMAIN plan[r].deps -> Nat]
        /\ jobs'[r] \in Nat /\ doubts'[r] \in Nat
        /\ outcome[r] = "success" => jobs'[r] \in 1 .. doubts'[r] + 1
        /\ outcome[r] # "success" => jobs'[r] <= doubts'[r]
    BY <1>1, <1>2 DEF TypeOK, Sound, Accounted
  <1>8. Control' /\ Elsewhere(r) /\ Sound(r)'
    BY <1>1, <1>2, <1>6, <1>7, AfterStep
  <1> QED
    BY <1>1, <1>4, <1>5, <1>8 DEF Keeps

LEMMA DropStep ==
  ASSUME DInv, NEW r \in Requests, Drop(r)
  PROVE  Keeps(r)
  <1>1. /\ TypeOK /\ Sound(r) /\ pc[r] \in {"gate", "call", "report"}
        /\ Finish(r, "dropped") /\ UNCHANGED <<breaker, plan, history>>
    BY DEF DInv, Drop
  <1>2. Breaker' /\ Counts' /\ (OpenIffStreak => OpenIffStreak')
    BY <1>1, Types DEF Breaker, Counts, OpenIffStreak, breaker, history
  <1>3. Control' /\ Elsewhere(r) /\ pc'[r] = "done" /\ result'[r] = "dropped"
    BY <1>1, FinishStep DEF history
  <1>4. \A i \in DOMAIN plan[r].deps : Bounded(r, i)
    <2>1. Walk(r) /\ at[r] \in Nat /\ attempt[r] \in Nat
      BY <1>1, DispatchAssumption DEF Sound, TypeOK
    <2>2. /\ DOMAIN plan[r].deps \subseteq Nat
          /\ \A i \in DOMAIN plan[r].deps : Retries(r, i) \in Nat
      BY <1>1, DeploymentTypes, DispatchAssumption
    <2> QED
      BY <2>1, <2>2 DEF Walk, Bounded
  <1>5. jobs'[r] <= doubts'[r] + 1
    BY <1>1 DEF Sound, Accounted, TypeOK, history
  <1>6. Sound(r)'
    BY <1>1, <1>3, <1>4, <1>5 DEF Sound, Bounded, Retries, Accounted, history
  <1> QED
    BY <1>1, <1>2, <1>3, <1>6 DEF Keeps, history

\* Time only moves opening times that are set, and not to Nil.
LEMMA TickStep ==
  ASSUME DInv, Tick
  PROVE  DInv' /\ (OpenIffStreak => OpenIffStreak')
  <1>1. /\ TypeOK /\ UNCHANGED <<failures, plan, control, history>>
        /\ opened' = [p \in Providers |-> IF Elapses(p) THEN opened[p] + 1 ELSE opened[p]]
    BY DEF DInv, Tick
  <1>2. \A p \in Providers :
          /\ opened'[p] \in 0 .. OpenFor \cup {Nil}
          /\ opened'[p] = Nil <=> opened[p] = Nil
    BY <1>1, DispatchAssumption DEF TypeOK, Elapses
  <1>3. opened' \in [Providers -> 0 .. OpenFor \cup {Nil}]
    BY <1>1, <1>2
  <1>4. TypeOK'
    BY <1>1, <1>3 DEF TypeOK, control, history
  <1>5. \A r \in Requests : Sound(r)'
    BY <1>1 DEF DInv, Sound, Walk, UsedUp, Bounded, Retries, Accounted, control, history
  <1> QED
    BY <1>1, <1>2, <1>4, <1>5 DEF DInv, OpenIffStreak

----------------------------------------------------------------------------
(* The invariant *)

LEMMA DispatchInit == Init => DInv /\ OpenIffStreak
  <1> SUFFICES ASSUME Init PROVE DInv /\ OpenIffStreak
    OBVIOUS
  <1>1. plan \in [Requests -> Plans]
    BY DEF Init
  <1>2. TypeOK
    BY <1>1, DispatchAssumption DEF Init, TypeOK, Outcomes
  <1>3. \A r \in Requests : Sound(r)
    BY DEF Init, Sound, Accounted
  <1>4. OpenIffStreak
    BY DispatchAssumption DEF Init, OpenIffStreak
  <1> QED
    BY <1>2, <1>3, <1>4 DEF DInv

LEMMA DispatchNext ==
  ASSUME DInv, [Next]_vars
  PROVE  DInv' /\ (OpenIffStreak => OpenIffStreak')
  <1>1. ASSUME NEW r \in Requests, Keeps(r)
        PROVE  DInv' /\ (OpenIffStreak => OpenIffStreak')
    <2>1. TypeOK'
      <3>1. plan \in [Requests -> Plans]
        BY DEF DInv, TypeOK
      <3>2. Breaker' /\ Control' /\ Counts' /\ plan' \in [Requests -> Plans]
        BY <1>1, <3>1 DEF Keeps
      <3> QED
        BY <3>2 DEF TypeOK, Breaker, Control, Counts
    <2>2. ASSUME NEW s \in Requests, s # r
          PROVE  Sound(s)'
      <3>1. Sound(s)
        BY DEF DInv
      <3>2. /\ pc'[s] = pc[s] /\ at'[s] = at[s] /\ attempt'[s] = attempt[s]
            /\ outcome'[s] = outcome[s] /\ result'[s] = result[s] /\ spared'[s] = spared[s]
            /\ tries'[s] = tries[s] /\ jobs'[s] = jobs[s] /\ doubts'[s] = doubts[s]
            /\ plan' = plan
        BY <1>1, <2>2 DEF Keeps, Elsewhere
      <3> QED
        BY <3>1, <3>2 DEF Sound, Walk, UsedUp, Bounded, Retries, Accounted
    <2> QED
      BY <1>1, <2>1, <2>2 DEF Keeps, DInv
  <1>2. CASE \E r \in Requests : Works(r) \/ Drop(r)
    <2>1. PICK r \in Requests : Works(r) \/ Drop(r)
      BY <1>2
    <2>2. Keeps(r)
      BY <2>1, StartStep, SpareStep, PassStep, CallStep, ReportStep, DropStep DEF Works
    <2> QED
      BY <1>1, <2>2
  <1>3. CASE Tick
    BY <1>3, TickStep
  <1>4. CASE UNCHANGED vars
    <2>1. /\ UNCHANGED <<failures, opened, plan>>
          /\ UNCHANGED <<pc, at, attempt, outcome, result, tries, spared, jobs, doubts>>
      BY <1>4 DEF vars, breaker, control, history
    <2>2. TypeOK'
      BY <2>1 DEF DInv, TypeOK
    <2>3. \A r \in Requests : Sound(r)'
      BY <2>1 DEF DInv, Sound, Walk, UsedUp, Bounded, Retries, Accounted
    <2> QED
      BY <2>1, <2>2, <2>3 DEF DInv, OpenIffStreak
  <1> QED
    BY <1>2, <1>3, <1>4 DEF Next

LEMMA DispatchSound == Spec => [](DInv /\ OpenIffStreak)
  <1>1. (DInv /\ OpenIffStreak) /\ [Next]_vars => (DInv /\ OpenIffStreak)'
    BY DispatchNext
  <1> QED
    BY <1>1, DispatchInit, PTL DEF Spec

\* Dispatch is well typed: positions, attempts and opening times stay in range.
THEOREM DispatchTypeCorrect == Spec => []TypeOK
  <1>1. DInv => TypeOK
    BY DEF DInv
  <1> QED
    BY <1>1, DispatchSound, PTL

\* record_success and record_failure, however the requests of a process report to
\* them, keep an opening time exactly while the streak is at the threshold.
THEOREM BreakerFollowsStreak == Spec => []OpenIffStreak
  BY DispatchSound, PTL

\* The fallback loop reports AllDeploymentsFailed only when every deployment was
\* skipped, missing, fatal, or tried max_retries + 1 times, never more often.
THEOREM EverythingTried == Spec => []NothingLeftUntried
  <1>1. ASSUME DInv, NEW r \in Requests, NEW i \in DOMAIN plan[r].deps
        PROVE  /\ tries[r][i] <= plan[r].deps[i].retries + 1
               /\ result[r] = "failed" =>
                    i \in spared[r] \/ tries[r][i] = plan[r].deps[i].retries + 1
    <2>1. /\ TypeOK /\ Sound(r) /\ at[r] \in Nat /\ attempt[r] \in Nat
          /\ pc[r] \in {"idle", "gate", "call", "report", "done"}
      BY <1>1, DispatchAssumption DEF DInv, TypeOK
    <2>2. i \in Nat /\ Retries(r, i) \in Nat
      BY <1>1, <2>1, DeploymentTypes, DispatchAssumption
    <2>3. Bounded(r, i)
      BY <1>1, <2>1, <2>2 DEF Sound, Walk, Bounded
    <2> QED
      BY <1>1, <2>1, <2>3 DEF Sound, UsedUp, Bounded, Retries
  <1>2. DInv => NothingLeftUntried
    BY <1>1 DEF NothingLeftUntried
  <1> QED
    BY <1>2, DispatchSound, PTL

\* Retries and fallbacks never cost a second generation by themselves: all
\* accepted jobs but one belong to calls that failed in doubt.
THEOREM OneGenerationPerRequest == Spec => []JobsAccounted
  <1>1. ASSUME DInv, NEW r \in Requests
        PROVE  /\ jobs[r] <= doubts[r] + 1
               /\ result[r] = "failed" => jobs[r] <= doubts[r]
               /\ result[r] = "ok" => jobs[r] >= 1
    <2>1. Sound(r) /\ jobs[r] \in Nat /\ doubts[r] \in Nat
      BY <1>1 DEF DInv, TypeOK
    <2> QED
      BY <2>1 DEF Sound, Accounted
  <1>2. DInv => JobsAccounted
    BY <1>1 DEF JobsAccounted
  <1> QED
    BY <1>2, DispatchSound, PTL

=============================================================================
