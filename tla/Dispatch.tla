------------------------------ MODULE Dispatch ------------------------------
(***************************************************************************)
(* How the router gets one generation out of its providers: deployments in *)
(* the order the route's strategy gave them, retries on each, and a        *)
(* circuit breaker per provider that all requests of the process share     *)
(* (proxy/router.rs, proxy/circuit_breaker.rs).                            *)
(*                                                                         *)
(* Each critical section of the breaker is a step, so the gate a request   *)
(* passed may be shut before it calls, and a late success may meet a       *)
(* breaker that others opened.  Time is the time since a breaker opened,   *)
(* counted up to OpenFor.                                                  *)
(***************************************************************************)
EXTENDS Integers, Sequences, FiniteSets

CONSTANTS
  Providers,
  Requests,    \* generation requests, each dispatched at most once
  Plans,       \* what a request may be dispatched by
  Threshold,   \* circuit_breaker.threshold
  OpenFor,     \* circuit_breaker.open_for_seconds, in ticks
  MaxRetries,  \* a bound on every deployment's max_retries
  Nil

\* A route, or a single deployment without breaker (direct dispatch).
Deployment == [provider : Providers, retries : 0 .. MaxRetries]
Plan       == [gated : BOOLEAN, deps : Seq(Deployment)]

ASSUME DispatchAssumption ==
  /\ Plans \subseteq Plan
  /\ Threshold \in Nat
  /\ OpenFor \in Nat
  /\ MaxRetries \in Nat
  /\ Nil \notin Nat

VARIABLES
  failures,  \* consecutive_failures of a provider
  opened,    \* time since opened_at, Nil while it is None
  plan,      \* the plan of a request
  pc,        \* where its dispatch is
  at,        \* the deployment it is at
  attempt,   \* the attempt on that deployment
  outcome,   \* the outcome of the last call, until the breaker is told
  result,    \* what the caller got
  tries,     \* history: calls made, per deployment of the plan
  spared,    \* history: deployments skipped, missing, or given up at once
  jobs,      \* history: generations the providers accepted for a request
  doubts     \* history: calls that failed and may have left a generation

breaker == <<failures, opened>>
control == <<pc, at, attempt, outcome, result>>
history == <<tries, spared, jobs, doubts>>
vars    == <<breaker, plan, control, history>>

Outcomes == {"none", "success", "retryable", "fatal"}

TypeOK ==
  /\ failures \in [Providers -> Nat]
  /\ opened \in [Providers -> 0 .. OpenFor \cup {Nil}]
  /\ plan \in [Requests -> Plans]
  /\ pc \in [Requests -> {"idle", "gate", "call", "report", "done"}]
  /\ at \in [Requests -> Nat]
  /\ attempt \in [Requests -> 0 .. MaxRetries]
  /\ outcome \in [Requests -> Outcomes]
  /\ result \in [Requests -> {"none", "ok", "failed", "dropped"}]
  /\ DOMAIN tries = Requests
  /\ \A r \in Requests : tries[r] \in [DOMAIN plan[r].deps -> Nat]
  /\ spared \in [Requests -> SUBSET Nat]
  /\ jobs \in [Requests -> Nat]
  /\ doubts \in [Requests -> Nat]

Init ==
  /\ failures = [p \in Providers |-> 0]
  /\ opened = [p \in Providers |-> Nil]
  /\ plan \in [Requests -> Plans]
  /\ pc = [r \in Requests |-> "idle"]
  /\ at = [r \in Requests |-> 1]
  /\ attempt = [r \in Requests |-> 0]
  /\ outcome = [r \in Requests |-> "none"]
  /\ result = [r \in Requests |-> "none"]
  /\ tries = [r \in Requests |-> [i \in DOMAIN plan[r].deps |-> 0]]
  /\ spared = [r \in Requests |-> {}]
  /\ jobs = [r \in Requests |-> 0]
  /\ doubts = [r \in Requests |-> 0]

----------------------------------------------------------------------------
(* The breaker *)

\* A faulty is_open: the time since opened_at is not looked at.
IsOpenForever(p) == opened[p] # Nil

IsOpen(p) == opened[p] # Nil /\ opened[p] < OpenFor

RecordSuccess(p) ==
  /\ failures' = [failures EXCEPT ![p] = 0]
  /\ opened' = [opened EXCEPT ![p] = Nil]

\* A faulty record_failure: opens one failure late.
RecordFailureLate(p) ==
  /\ failures' = [failures EXCEPT ![p] = @ + 1]
  /\ opened' = [opened EXCEPT ![p] =
                  IF failures'[p] > Threshold /\ @ = Nil THEN 0 ELSE @]

\* record_failure opens a breaker that is not already open; opened_at is left
\* alone once it is set.
RecordFailure(p) ==
  /\ failures' = [failures EXCEPT ![p] = @ + 1]
  /\ opened' = [opened EXCEPT ![p] =
                  IF failures'[p] >= Threshold /\ @ = Nil THEN 0 ELSE @]

----------------------------------------------------------------------------
(* One request *)

Here(r)     == plan[r].deps[at[r]]
Provider(r) == Here(r).provider

Finish(r, res) ==
  /\ pc' = [pc EXCEPT ![r] = "done"]
  /\ result' = [result EXCEPT ![r] = res]
  /\ at' = [at EXCEPT ![r] = 1]
  /\ attempt' = [attempt EXCEPT ![r] = 0]
  /\ outcome' = [outcome EXCEPT ![r] = "none"]

\* A faulty fallback loop: starts over after the last deployment.
NextDeploymentWraps(r) ==
  /\ pc' = [pc EXCEPT ![r] = "gate"]
  /\ at' = [at EXCEPT ![r] = IF @ < Len(plan[r].deps) THEN @ + 1 ELSE 1]
  /\ attempt' = [attempt EXCEPT ![r] = 0]
  /\ outcome' = [outcome EXCEPT ![r] = "none"]
  /\ UNCHANGED result

\* The next deployment, or AllDeploymentsFailed.
NextDeployment(r) ==
  IF at[r] < Len(plan[r].deps)
  THEN /\ pc' = [pc EXCEPT ![r] = "gate"]
       /\ at' = [at EXCEPT ![r] = @ + 1]
       /\ attempt' = [attempt EXCEPT ![r] = 0]
       /\ outcome' = [outcome EXCEPT ![r] = "none"]
       /\ UNCHANGED result
  ELSE Finish(r, "failed")

Spare(r) == spared' = [spared EXCEPT ![r] = @ \cup {at[r]}]

Start(r) ==
  /\ pc[r] = "idle"
  /\ IF plan[r].deps = <<>>
     THEN Finish(r, "failed")
     ELSE pc' = [pc EXCEPT ![r] = "gate"] /\ UNCHANGED <<at, attempt, outcome, result>>
  /\ UNCHANGED <<breaker, plan, history>>

\* The breaker is open.
Skip(r) ==
  /\ pc[r] = "gate"
  /\ plan[r].gated
  /\ IsOpen(Provider(r))
  /\ Spare(r)
  /\ NextDeployment(r)
  /\ UNCHANGED <<breaker, plan, tries, jobs, doubts>>

\* The provider is not configured (any more).
Missing(r) ==
  /\ pc[r] = "gate"
  /\ plan[r].gated => ~IsOpen(Provider(r))
  /\ Spare(r)
  /\ NextDeployment(r)
  /\ UNCHANGED <<breaker, plan, tries, jobs, doubts>>

\* The breaker is asked once per deployment, not once per attempt.
Pass(r) ==
  /\ pc[r] = "gate"
  /\ plan[r].gated => ~IsOpen(Provider(r))
  /\ pc' = [pc EXCEPT ![r] = "call"]
  /\ UNCHANGED <<breaker, plan, at, attempt, outcome, result, history>>

\* A faulty retry loop: one attempt too many.
AgainPlusOne(r) == attempt[r] <= Here(r).retries

\* for attempt in 0..=max_retries
Again(r) == attempt[r] < Here(r).retries

\* What follows an attempt.
After(r, out) ==
  CASE out = "success" -> Finish(r, "ok") /\ UNCHANGED spared
    [] out = "fatal"   -> NextDeployment(r) /\ Spare(r)
    [] out = "retryable" ->
         /\ UNCHANGED spared
         /\ IF Again(r)
            THEN /\ pc' = [pc EXCEPT ![r] = "call"]
                 /\ attempt' = [attempt EXCEPT ![r] = @ + 1]
                 /\ outcome' = [outcome EXCEPT ![r] = "none"]
                 /\ UNCHANGED <<at, result>>
            ELSE NextDeployment(r)

\* A gated request reports to the breaker first.
Ends(r, out) ==
  IF plan[r].gated
  THEN /\ pc' = [pc EXCEPT ![r] = "report"]
       /\ outcome' = [outcome EXCEPT ![r] = out]
       /\ UNCHANGED <<at, attempt, result, spared>>
  ELSE After(r, out)

Called(r) == tries' = [tries EXCEPT ![r][at[r]] = @ + 1]

\* provider.generate returned.
Succeed(r) ==
  /\ pc[r] = "call"
  /\ Called(r)
  /\ jobs' = [jobs EXCEPT ![r] = @ + 1]
  /\ Ends(r, "success")
  /\ UNCHANGED <<breaker, plan, doubts>>

\* It returned an error, retryable or not, and the provider accepted nothing.
Fail(r) ==
  /\ pc[r] = "call"
  /\ Called(r)
  /\ \E out \in {"retryable", "fatal"} : Ends(r, out)
  /\ UNCHANGED <<breaker, plan, jobs, doubts>>

\* It did not return in time, or returned an error although the provider may have
\* accepted the job: the answer was lost or could not be read, the adapter stopped
\* waiting for an image, or could not fetch it (module Adapters).
Doubt(r) ==
  /\ pc[r] = "call"
  /\ Called(r)
  /\ \E accepted \in {0, 1} : jobs' = [jobs EXCEPT ![r] = @ + accepted]
  /\ doubts' = [doubts EXCEPT ![r] = @ + 1]
  /\ \E out \in {"retryable", "fatal"} : Ends(r, out)
  /\ UNCHANGED <<breaker, plan>>

\* A faulty fallback loop: a success is not the end of it.
ReportGoesOn(r) ==
  /\ pc[r] = "report"
  /\ IF outcome[r] = "success" THEN RecordSuccess(Provider(r)) ELSE RecordFailure(Provider(r))
  /\ After(r, IF outcome[r] = "success" THEN "fatal" ELSE outcome[r])
  /\ UNCHANGED <<plan, tries, jobs, doubts>>

Report(r) ==
  /\ pc[r] = "report"
  /\ IF outcome[r] = "success" THEN RecordSuccess(Provider(r)) ELSE RecordFailure(Provider(r))
  /\ After(r, outcome[r])
  /\ UNCHANGED <<plan, tries, jobs, doubts>>

\* The client leaves: the dispatch stops where it is, even between an answer and
\* its report to the breaker.
Drop(r) ==
  /\ pc[r] \in {"gate", "call", "report"}
  /\ Finish(r, "dropped")
  /\ UNCHANGED <<breaker, plan, history>>

\* Time passes for every breaker that was opened.
Elapses(p) == opened[p] # Nil /\ opened[p] < OpenFor

Tick ==
  /\ \E p \in Providers : Elapses(p)
  /\ opened' = [p \in Providers |-> IF Elapses(p) THEN opened[p] + 1 ELSE opened[p]]
  /\ UNCHANGED <<failures, plan, control, history>>

----------------------------------------------------------------------------
Works(r) ==
  \/ Start(r) \/ Skip(r) \/ Missing(r) \/ Pass(r)
  \/ Succeed(r) \/ Fail(r) \/ Doubt(r) \/ Report(r)

Next ==
  \/ \E r \in Requests : Works(r) \/ Drop(r)
  \/ Tick

Spec == Init /\ [][Next]_vars

\* Every call is bounded by a timeout and every lock is held briefly; time goes on.
FairSpec ==
  /\ Spec
  /\ \A r \in Requests : WF_vars(pc[r] # "idle" /\ Works(r))
  /\ WF_vars(Tick)

----------------------------------------------------------------------------
(* Properties *)

\* A provider's breaker has an opening time exactly when its failure streak
\* reached the threshold (one failure if that is zero), however successes and
\* failures of concurrent requests are reported: no breaker opens early, and none
\* keeps an old opening time after a success.
OpenIffStreak ==
  \A p \in Providers : opened[p] # Nil <=> failures[p] > 0 /\ failures[p] >= Threshold

\* A caller is told that everything failed only if every deployment was used
\* up: skipped, missing, failed for good, or tried max_retries + 1 times; and no
\* deployment is ever called more often than that.
NothingLeftUntried ==
  \A r \in Requests : \A i \in DOMAIN plan[r].deps :
    /\ tries[r][i] <= plan[r].deps[i].retries + 1
    /\ result[r] = "failed" =>
         i \in spared[r] \/ tries[r][i] = plan[r].deps[i].retries + 1

\* A request never costs two generations unless a call failed in doubt: whatever the
\* retries and fallbacks, each accepted job but one belongs to such a call, and all
\* of them do when the request failed.
JobsAccounted ==
  \A r \in Requests :
    /\ jobs[r] <= doubts[r] + 1
    /\ result[r] = "failed" => jobs[r] <= doubts[r]
    /\ result[r] = "ok" => jobs[r] >= 1

\* Every dispatch ends.
DispatchesEnd == \A r \in Requests : pc[r] # "idle" ~> pc[r] = "done"

\* No breaker stays open: it lets a trial through after open_for, even if
\* requests that passed the gate before it opened go on failing.
Recovers == \A p \in Providers : IsOpen(p) ~> ~IsOpen(p)

\* "opens the circuit after threshold consecutive failures, preventing calls for
\* open_for duration" (proxy/circuit_breaker.rs): once a failure at or past the
\* threshold is recorded the breaker is open.
StreakOpens ==
  [][\A p \in Providers :
       failures'[p] > failures[p] /\ failures'[p] >= Threshold => IsOpen(p)']_vars

============================================================================
