---------------------------- MODULE Generations ----------------------------
(***************************************************************************)
(* The life of a video generation in one process: the video handler that   *)
(* submits the provider job and spawns the task that persists it, the      *)
(* PATCH that cancels it, GET /v1/videos, the background poller and the    *)
(* webhook tasks the poller spawns.                                        *)
(*                                                                         *)
(* The poller works through a batch of rows it read once, so every row it  *)
(* handles may have changed since.  Provider calls and SQL statements are  *)
(* separate steps.  The process may crash: its memory (router.video_jobs,  *)
(* spawned tasks, the poller's batch) is gone and the table stays.         *)
(***************************************************************************)
EXTENDS Integers, Sequences, FiniteSets

CONSTANTS
  Gens,         \* video generations, each requested at most once
  Owned,        \* those requested with an API key
  Hooked,       \* those whose key has a webhook_url
  Window,       \* how many rows the poller lists (100 in the code)
  MaxAttempts,  \* attempts per webhook
  MaxCrashes,   \* bound on the crashes of the process
  None

ASSUME GenerationsAssumption ==
  /\ IsFiniteSet(Gens)
  /\ Owned \subseteq Gens
  /\ Hooked \subseteq Owned
  /\ Window \in Nat \ {0}
  /\ MaxAttempts \in Nat \ {0}
  /\ MaxCrashes \in Nat
  /\ None \notin Gens

VARIABLES
  job,         \* the provider's job
  call,        \* the handler of POST /v1/videos/generations
  videoJobs,   \* router.video_jobs: the jobs this process can look up
  unsaved,     \* spawned persist tasks that have not inserted yet
  rows,        \* generations.status, "absent" where there is no row
  born,        \* the rows in created_at order
  aged,        \* how many of the oldest rows are past MAX_ACTIVE_AGE_SECS
  step,        \* the poller
  batch,       \* the rows the poller listed and has not come to
  row,         \* the one it is at, None between two of them
  over,        \* its over_age
  answer,      \* what the poller is about to write
  tasks,       \* running webhook tasks
  crashes,
  notices,     \* history: webhook tasks spawned per generation
  deliveries   \* table webhook_deliveries: the success column per generation

client  == <<call, videoJobs, unsaved>>
table   == <<rows, born, aged>>
poller  == <<step, batch, row, over, answer>>
hooks   == <<tasks, notices, deliveries>>
vars    == <<job, client, table, poller, hooks, crashes>>

ActiveStatus   == {"pending", "processing"}
TerminalStatus == {"completed", "failed", "cancelled"}
Status         == ActiveStatus \cup TerminalStatus

Answer == [status : Status, reap : BOOLEAN]
Task   == [gen : Gens, status : TerminalStatus, step : {"lookup", "post", "record"},
           attempt : 1 .. MaxAttempts, ok : BOOLEAN]

TypeOK ==
  /\ job \in [Gens -> {"none", "running", "completed", "failed", "purged", "lost"}]
  /\ call \in [Gens -> {"idle", "submitted", "answered", "gone"}]
  /\ videoJobs \subseteq Gens
  /\ unsaved \subseteq Gens
  /\ rows \in [Gens -> Status \cup {"absent"}]
  /\ born \in Seq(Gens)
  /\ aged \in 0 .. Len(born)
  /\ step \in {"list", "next", "ask", "write"}
  /\ batch \subseteq Gens
  /\ row \in Gens \cup {None}
  /\ over \in BOOLEAN
  /\ answer \in Answer
  /\ tasks \subseteq Task
  /\ crashes \in 0 .. MaxCrashes
  /\ notices \in [Gens -> Nat]
  /\ deliveries \in [Gens -> Seq(BOOLEAN)]

Blank == [status |-> "pending", reap |-> FALSE]

Init ==
  /\ job = [g \in Gens |-> "none"]
  /\ call = [g \in Gens |-> "idle"]
  /\ videoJobs = {}
  /\ unsaved = {}
  /\ rows = [g \in Gens |-> "absent"]
  /\ born = <<>>
  /\ aged = 0
  /\ step = "list"
  /\ batch = {}
  /\ row = None
  /\ over = FALSE
  /\ answer = Blank
  /\ tasks = {}
  /\ crashes = 0
  /\ notices = [g \in Gens |-> 0]
  /\ deliveries = [g \in Gens |-> <<>>]

Active(g)   == rows[g] \in ActiveStatus
Terminal(g) == rows[g] \in TerminalStatus

----------------------------------------------------------------------------
(* POST /v1/videos/generations *)

\* A provider accepts the job and the router stores its handle under the new
\* local id.
Submit(g) ==
  /\ call[g] = "idle"
  /\ job' = [job EXCEPT ![g] = "running"]
  /\ videoJobs' = videoJobs \cup {g}
  /\ call' = [call EXCEPT ![g] = "submitted"]
  /\ UNCHANGED <<unsaved, table, poller, hooks, crashes>>

\* The reservations are settled, the persist task is spawned, the id returned.
Respond(g) ==
  /\ call[g] = "submitted"
  /\ unsaved' = unsaved \cup {g}
  /\ call' = [call EXCEPT ![g] = "answered"]
  /\ UNCHANGED <<job, videoJobs, table, poller, hooks, crashes>>

\* The client leaves before that: the provider job runs on, unrecorded, and its
\* handle stays under an id nobody was told.
Disconnect(g) ==
  /\ call[g] = "submitted"
  /\ call' = [call EXCEPT ![g] = "gone"]
  /\ UNCHANGED <<job, videoJobs, unsaved, table, poller, hooks, crashes>>

\* The persist task: insert_generation.
Persist(g) ==
  /\ g \in unsaved
  /\ unsaved' = unsaved \ {g}
  /\ rows' = [rows EXCEPT ![g] = "pending"]
  /\ born' = Append(born, g)
  /\ UNCHANGED <<job, call, videoJobs, aged, poller, hooks, crashes>>

\* Its error is ignored.
PersistFails(g) ==
  /\ g \in unsaved
  /\ unsaved' = unsaved \ {g}
  /\ UNCHANGED <<job, call, videoJobs, table, poller, hooks, crashes>>

----------------------------------------------------------------------------
(* The other endpoints *)

\* GET /v1/videos/{id} polls the provider and forgets a job that is over.  A job
\* that is not, or a provider error, changes nothing.
Look(g) ==
  /\ g \in videoJobs
  /\ call[g] = "answered"
  /\ job[g] \in {"completed", "failed"}
  /\ videoJobs' = videoJobs \ {g}
  /\ UNCHANGED <<job, call, unsaved, table, poller, hooks, crashes>>

\* A faulty cancel_generation: no condition on the status.
CanCancelAny(g) == rows[g] # "absent"

\* cancel_generation's WHERE clause.
CanCancel(g) == Active(g)

\* PATCH /v1/generations/{id}.  The provider is not told.  The row the handler
\* reads first only serves authorization; otherwise it answers 404 or 409.
Cancel(g) ==
  /\ CanCancel(g)
  /\ rows' = [rows EXCEPT ![g] = "cancelled"]
  /\ UNCHANGED <<job, client, born, aged, poller, hooks, crashes>>

----------------------------------------------------------------------------
(* The poller *)

Before(g, h) ==
  \E i, j \in 1 .. Len(born) : i < j /\ born[i] = g /\ born[j] = h

\* list_active_generations: the oldest active rows.
Oldest ==
  {g \in Gens : /\ Active(g)
                /\ Cardinality({h \in Gens : Active(h) /\ Before(h, g)}) < Window}

List ==
  /\ step = "list"
  /\ Oldest # {}
  /\ batch' = Oldest
  /\ step' = "next"
  /\ UNCHANGED <<job, client, table, row, over, answer, hooks, crashes>>

PastMaxAge(g) == \E i \in 1 .. aged : born[i] = g

\* The loop takes the next row and computes over_age.
Pick ==
  /\ step = "next"
  /\ \E g \in batch :
       /\ \A h \in batch : ~Before(h, g)
       /\ row' = g
       /\ batch' = batch \ {g}
       /\ over' = PastMaxAge(g)
  /\ step' = "ask"
  /\ UNCHANGED <<job, client, table, answer, hooks, crashes>>

\* It goes on to the rows that are left, or waits for the next tick.
Continue(rest) ==
  /\ batch' = rest
  /\ row' = None
  /\ step' = IF rest = {} THEN "list" ELSE "next"
  /\ over' = FALSE
  /\ answer' = Blank

\* The poller settles on what to write.
Decide(status, reap) ==
  /\ answer' = [status |-> status, reap |-> reap]
  /\ step' = "write"
  /\ UNCHANGED <<batch, row, over>>

\* A faulty poller: rows it cannot poll are never reaped.
GiveUpNever == Continue(batch)

\* A row that cannot be polled is reaped past the maximum age, else skipped.
GiveUp == IF over THEN Decide("failed", TRUE) ELSE Continue(batch)

\* No provider, no provider_job_id, or a retryable error of poll_status.
Unreachable ==
  /\ step = "ask"
  /\ GiveUp
  /\ UNCHANGED <<job, client, table, hooks, crashes>>

\* poll_status fails for good: the job is gone or, whatever it is doing, the
\* provider's credentials are revoked.
Dead ==
  /\ step = "ask"
  /\ Decide("failed", TRUE)
  /\ UNCHANGED <<job, client, table, hooks, crashes>>

\* The provider reports the end of the job.
Ended ==
  /\ step = "ask"
  /\ job[row] \in {"completed", "failed"}
  /\ Decide(job[row], FALSE)
  /\ UNCHANGED <<job, client, table, hooks, crashes>>

\* The provider reports progress; past the maximum age the row is reaped.
Running ==
  /\ step = "ask"
  /\ job[row] = "running"
  /\ IF over THEN Decide("failed", TRUE) ELSE Decide("processing", FALSE)
  /\ UNCHANGED <<job, client, table, hooks, crashes>>

\* A faulty poller: announces what it reaped.
AnnouncesReaped(g) == answer.status \in TerminalStatus /\ g \in Owned

\* Only a row the provider ended, and that a key owns, is announced.
Announces(g) == ~answer.reap /\ answer.status \in TerminalStatus /\ g \in Owned

Spawn(g) ==
  /\ tasks' = tasks \cup {[gen |-> g, status |-> answer.status, step |-> "lookup",
                           attempt |-> 1, ok |-> FALSE]}
  /\ notices' = [notices EXCEPT ![g] = @ + 1]
  /\ UNCHANGED deliveries

\* update_generation_status: unconditional, whatever the row is by now.
Write ==
  /\ step = "write"
  /\ rows' = [rows EXCEPT ![row] = answer.status]
  /\ IF Announces(row) THEN Spawn(row) ELSE UNCHANGED hooks
  /\ Continue(batch)
  /\ UNCHANGED <<job, client, born, aged, crashes>>

\* A faulty poller: announces the end it could not write.
WriteFailsLoudly ==
  /\ step = "write"
  /\ IF Announces(row) THEN Spawn(row) ELSE UNCHANGED hooks
  /\ Continue(batch)
  /\ UNCHANGED <<job, client, table, crashes>>

\* The statement failed: the row stays active, nothing is announced.
WriteFails ==
  /\ step = "write"
  /\ Continue(batch)
  /\ UNCHANGED <<job, client, table, hooks, crashes>>

----------------------------------------------------------------------------
(* Webhook tasks (dispatch_webhook_logged) *)

Replace(t, next) == tasks' = (tasks \ {t}) \cup next

\* The key has a webhook_url.
Lookup(t) ==
  /\ t.step = "lookup"
  /\ t.gen \in Hooked
  /\ Replace(t, {[t EXCEPT !.step = "post"]})
  /\ UNCHANGED <<job, client, table, poller, notices, deliveries, crashes>>

\* No webhook_url, no key, a failed lookup, or a URL that is not public.
LookupEnds(t) ==
  /\ t.step = "lookup"
  /\ Replace(t, {})
  /\ UNCHANGED <<job, client, table, poller, notices, deliveries, crashes>>

\* One POST; ok is a 2xx answer.
Post(t) ==
  /\ t.step = "post"
  /\ \E ok \in BOOLEAN : Replace(t, {[t EXCEPT !.step = "record", !.ok = ok]})
  /\ UNCHANGED <<job, client, table, poller, notices, deliveries, crashes>>

\* A faulty loop: an attempt is repeated, not counted.
RetryUncounted(t) == {[t EXCEPT !.step = "post", !.ok = FALSE]}

\* The next attempt after the back-off, if one is left.
Retry(t) ==
  IF t.attempt < MaxAttempts
  THEN {[t EXCEPT !.step = "post", !.attempt = @ + 1, !.ok = FALSE]}
  ELSE {}

After(t) == IF t.ok THEN {} ELSE Retry(t)

\* The attempt is recorded, then the task ends or retries.
Record(t) ==
  /\ t.step = "record"
  /\ deliveries' = [deliveries EXCEPT ![t.gen] = Append(@, t.ok)]
  /\ Replace(t, After(t))
  /\ UNCHANGED <<job, client, table, poller, notices, crashes>>

\* A failed insert never aborts the delivery.
RecordFails(t) ==
  /\ t.step = "record"
  /\ Replace(t, After(t))
  /\ UNCHANGED <<job, client, table, poller, notices, deliveries, crashes>>

----------------------------------------------------------------------------
(* The environment *)

\* The provider's job ends; one that completed is purged, another is lost.
JobEnds(g) ==
  /\ \/ /\ job[g] = "running"
        /\ \E end \in {"completed", "failed", "lost"} : job' = [job EXCEPT ![g] = end]
     \/ /\ job[g] = "completed"
        /\ job' = [job EXCEPT ![g] = "purged"]
     \/ /\ job[g] = "failed"
        /\ job' = [job EXCEPT ![g] = "lost"]
  /\ UNCHANGED <<client, table, poller, hooks, crashes>>

\* Rows grow old, the oldest first.
Age ==
  /\ aged < Len(born)
  /\ aged' = aged + 1
  /\ UNCHANGED <<job, client, rows, born, poller, hooks, crashes>>

Crash ==
  /\ crashes < MaxCrashes
  /\ crashes' = crashes + 1
  /\ call' = [g \in Gens |-> IF call[g] \in {"idle", "answered"} THEN call[g] ELSE "gone"]
  /\ videoJobs' = {}
  /\ unsaved' = {}
  /\ Continue({})
  /\ tasks' = {}
  /\ UNCHANGED <<job, table, notices, deliveries>>

----------------------------------------------------------------------------
Handlers(g) == Submit(g) \/ Respond(g) \/ Persist(g) \/ Look(g)

Poller == List \/ Pick \/ Unreachable \/ Dead \/ Ended \/ Running \/ Write

Hook(t) == Lookup(t) \/ LookupEnds(t) \/ Post(t) \/ Record(t)

Works ==
  \/ \E g \in Gens : Handlers(g) \/ Cancel(g) \/ JobEnds(g)
  \/ Poller
  \/ \E t \in tasks : Hook(t)
  \/ Age

Fails ==
  \/ \E g \in Gens : Disconnect(g) \/ PersistFails(g)
  \/ WriteFails
  \/ \E t \in tasks : RecordFails(t)
  \/ Crash

Next == Works \/ Fails

Spec == Init /\ [][Next]_vars

\* Time passes, the interval ticks and every await of the poller ends; a write
\* that is tried again and again eventually succeeds; spawned webhook tasks are
\* polled and their requests time out.
FairSpec ==
  /\ Spec
  /\ WF_vars(Age)
  /\ WF_vars(Poller \/ WriteFails)
  /\ \A g \in Gens : SF_vars(Write /\ row = g)
  /\ WF_vars(\E t \in tasks : Hook(t) \/ RecordFails(t))

\* The same system with nothing failing.
FaultFreeSpec == Init /\ [][Works]_vars

----------------------------------------------------------------------------
(* Properties *)

\* No row starves: whatever the provider answers, and however many rows are
\* older, every persisted generation ends in a terminal status and stays there.
\* This is what the poller's reaper and the oldest-first window are for.
Settles == \A g \in Gens : Active(g) ~> []Terminal(g)

\* A terminal status a webhook announces is final: the row still has it while
\* the task runs, although cancels and a stale batch race with the poller.
NoticesTrue == \A t \in tasks : rows[t.gen] = t.status

\* A generation is announced at most once, and after a delivery that the
\* receiver accepted nothing more is sent; failed writes and crashes included.
AnnouncedOnce ==
  \A g \in Gens :
    /\ notices[g] <= 1
    /\ Len(deliveries[g]) <= MaxAttempts
    /\ \A i \in DOMAIN deliveries[g] : deliveries[g][i] => i = Len(deliveries[g])

\* A row says completed only if the provider's job did complete, and a webhook
\* is only about a job that ended; reaping and cancelling never invent a result.
ResultsReal ==
  \A g \in Gens :
    /\ rows[g] = "completed" => job[g] \in {"completed", "purged"}
    /\ notices[g] > 0 => job[g] # "running"

\* An active row whose job GET /v1/videos can no longer look up is one whose job
\* is over at the provider, until a crash empties the process's memory.
ForgottenOver ==
  \A g \in Gens :
    Active(g) /\ g \notin videoJobs =>
      crashes > 0 \/ job[g] \in {"completed", "failed", "purged", "lost"}

\* Every webhook task ends.
NoticesEnd == (tasks # {}) ~> (tasks = {})

============================================================================
