------------------------- MODULE Generations_proofs -------------------------
(***************************************************************************)
(* Proofs about the life of a video generation, for any number of          *)
(* generations, any batch size and any number of attempts and crashes.     *)
(***************************************************************************)
EXTENDS Generations, TLAPS

----------------------------------------------------------------------------
(* The inductive invariant *)

\* Only a generation whose handler has answered has a row, inserted once.
Persisted ==
  \A g \in Gens :
    /\ call[g] = "idle" => job[g] = "none"
    /\ call[g] # "answered" => g \notin unsaved
    /\ call[g] # "answered" \/ g \in unsaved => rows[g] = "absent"

\* The poller works on rows that exist, each once in a batch.
Walk ==
  /\ row = None <=> step \in {"list", "next"}
  /\ row \notin batch
  /\ \A g \in Gens : g \in batch \/ g = row => rows[g] # "absent"

\* What the provider said the job came to.
Ends(g, status) ==
  /\ job[g] # "running"
  /\ status = "completed" => job[g] \in {"completed", "purged"}

\* The end the poller is about to write is the job's, unless it reaps.
Truthful ==
  /\ answer.status = "completed" => ~answer.reap
  /\ step = "write" /\ ~answer.reap /\ answer.status \in TerminalStatus
       => Ends(row, answer.status)

\* What was announced is over, for the poller too.
Closed ==
  \A g \in Gens :
    notices[g] # 0 => notices[g] = 1 /\ Terminal(g) /\ g \notin batch /\ g # row

\* A webhook task is the only one of its generation, says what the row says,
\* and nothing it has sent was accepted.
Single ==
  /\ \A g \in Gens : notices[g] = 0 => deliveries[g] = <<>>
  /\ \A t \in tasks :
       /\ notices[t.gen] # 0
       /\ rows[t.gen] = t.status
       /\ Len(deliveries[t.gen]) < t.attempt
       /\ \A i \in DOMAIN deliveries[t.gen] : ~deliveries[t.gen][i]
  /\ \A t, u \in tasks : t.gen = u.gen => t = u

\* The process has the handle of every job it started that is not over.
Handles ==
  \A g \in Gens :
    /\ call[g] # "idle" => job[g] # "none"
    /\ job[g] = "running" /\ crashes = 0 => g \in videoJobs

GInv ==
  /\ TypeOK /\ Persisted /\ Walk /\ Truthful /\ Closed /\ Single
  /\ AnnouncedOnce /\ ResultsReal /\ Handles

LEMMA GInit == Init => GInv
  <1> SUFFICES ASSUME Init PROVE GInv
    OBVIOUS
  <1>1. TypeOK
    <2>1. Blank \in Answer
      BY DEF Blank, Answer, Status, ActiveStatus
    <2>2. <<>> \in Seq(Gens) /\ <<>> \in Seq(BOOLEAN) /\ Len(born) = 0
      BY DEF Init
    <2>3. crashes \in 0 .. MaxCrashes /\ aged \in 0 .. Len(born)
      BY <2>2, GenerationsAssumption DEF Init
    <2>4. deliveries \in [Gens -> Seq(BOOLEAN)] /\ born \in Seq(Gens)
      BY <2>2 DEF Init
    <2> QED
      BY <2>1, <2>3, <2>4 DEF Init, TypeOK
  <1>2. Persisted /\ Walk /\ Truthful
    BY GenerationsAssumption DEF Init, Persisted, Walk, Truthful, Blank
  <1>3. Closed /\ Single /\ AnnouncedOnce /\ ResultsReal /\ Handles
    BY GenerationsAssumption
    DEF Init, Closed, Single, AnnouncedOnce, ResultsReal, Handles
  <1> QED
    BY <1>1, <1>2, <1>3 DEF GInv

----------------------------------------------------------------------------
(* Types *)

\* The row the poller is at.
LEMMA AtRow ==
  ASSUME GInv, step \in {"ask", "write"}
  PROVE  row \in Gens /\ rows[row] # "absent" /\ row \notin batch
  BY GenerationsAssumption DEF GInv, Walk, TypeOK

\* What a webhook task becomes.
LEMMA TaskMoves ==
  ASSUME NEW t \in Task
  PROVE  /\ [t EXCEPT !.step = "post"] \in Task
         /\ \A ok \in BOOLEAN : [t EXCEPT !.step = "record", !.ok = ok] \in Task
         /\ t.attempt < MaxAttempts =>
              [t EXCEPT !.step = "post", !.attempt = t.attempt + 1, !.ok = FALSE] \in Task
         /\ After(t) \subseteq Task
  <1>1. /\ [t EXCEPT !.step = "post"] \in Task
        /\ \A ok \in BOOLEAN : [t EXCEPT !.step = "record", !.ok = ok] \in Task
    BY DEF Task
  <1>2. t.attempt < MaxAttempts =>
          [t EXCEPT !.step = "post", !.attempt = t.attempt + 1, !.ok = FALSE] \in Task
    <2>1. t.attempt < MaxAttempts => t.attempt + 1 \in 1 .. MaxAttempts
      BY GenerationsAssumption DEF Task
    <2> QED
      BY <2>1 DEF Task
  <1> QED
    BY <1>1, <1>2 DEF After, Retry

LEMMA HandlerTypes ==
  ASSUME GInv, NEW g \in Gens,
         \/ Submit(g) \/ Respond(g) \/ Persist(g) \/ Look(g) \/ Cancel(g)
         \/ Disconnect(g) \/ PersistFails(g) \/ JobEnds(g)
  PROVE  TypeOK'
  <1>1. CASE Submit(g)
    BY <1>1 DEF GInv, TypeOK, Submit, table, poller, hooks
  <1>2. CASE Respond(g) \/ Disconnect(g)
    BY <1>2 DEF GInv, TypeOK, Respond, Disconnect, table, poller, hooks
  <1>3. CASE Persist(g)
    BY <1>3 DEF GInv, TypeOK, Persist, poller, hooks, Status, ActiveStatus
  <1>4. CASE PersistFails(g) \/ Look(g)
    BY <1>4 DEF GInv, TypeOK, PersistFails, Look, table, poller, hooks
  <1>5. CASE Cancel(g)
    BY <1>5 DEF GInv, TypeOK, Cancel, client, poller, hooks, Status, TerminalStatus
  <1>6. CASE JobEnds(g)
    BY <1>6 DEF GInv, TypeOK, JobEnds, client, table, poller, hooks
  <1> QED
    BY <1>1, <1>2, <1>3, <1>4, <1>5, <1>6

LEMMA PollerTypes ==
  ASSUME GInv, Poller \/ WriteFails
  PROVE  TypeOK'
  <1>1. Blank \in Answer /\ [status |-> "failed", reap |-> TRUE] \in Answer
        /\ \A s \in Status : [status |-> s, reap |-> FALSE] \in Answer
    BY DEF Blank, Answer, Status, ActiveStatus, TerminalStatus
  <1>2. CASE List
    BY <1>2 DEF GInv, TypeOK, List, Oldest, client, table, hooks
  <1>3. CASE Pick
    BY <1>3 DEF GInv, TypeOK, Pick, PastMaxAge, client, table, hooks
  <1>4. ASSUME \/ Continue(batch)
               \/ \E s \in Status : Decide(s, FALSE)
               \/ Decide("failed", TRUE)
        PROVE  /\ step' \in {"list", "next", "ask", "write"} /\ batch' \subseteq Gens
               /\ row' \in Gens \cup {None} /\ over' \in BOOLEAN /\ answer' \in Answer
    BY <1>1, <1>4 DEF GInv, TypeOK, Continue, Decide
  <1>5. CASE Unreachable \/ Dead \/ Ended \/ Running
    <2>1. /\ UNCHANGED <<job, client, table, hooks, crashes>>
          /\ \/ Continue(batch)
             \/ \E s \in Status : Decide(s, FALSE)
             \/ Decide("failed", TRUE)
      BY <1>5
      DEF Unreachable, Dead, Ended, Running, GiveUp, Status, ActiveStatus,
          TerminalStatus
    <2> QED
      BY <1>4, <2>1 DEF GInv, TypeOK, client, table, hooks
  <1>6. CASE WriteFails
    BY <1>4, <1>6 DEF GInv, TypeOK, WriteFails, client, table, hooks
  <1>7. CASE Write
    <2>1. /\ row \in Gens /\ answer.status \in Status /\ Continue(batch)
          /\ rows' = [rows EXCEPT ![row] = answer.status]
          /\ UNCHANGED <<job, client, born, aged, crashes>>
      BY <1>7, AtRow DEF Write, GInv, TypeOK, Answer
    <2>2. tasks' \subseteq Task /\ notices' \in [Gens -> Nat]
          /\ deliveries' \in [Gens -> Seq(BOOLEAN)]
      <3>1. CASE UNCHANGED hooks
        BY <3>1 DEF hooks, GInv, TypeOK
      <3>2. CASE Announces(row) /\ Spawn(row)
        <4>1. [gen |-> row, status |-> answer.status, step |-> "lookup",
               attempt |-> 1, ok |-> FALSE] \in Task
          BY <2>1, <3>2, GenerationsAssumption DEF Announces, Task
        <4>2. notices' = [notices EXCEPT ![row] = notices[row] + 1]
          BY <3>2 DEF Spawn
        <4>3. notices' \in [Gens -> Nat]
          BY <2>1, <4>2 DEF GInv, TypeOK
        <4> QED
          BY <3>2, <4>1, <4>3 DEF Spawn, GInv, TypeOK
      <3> QED
        BY <1>7, <3>1, <3>2 DEF Write
    <2> QED
      BY <1>4, <2>1, <2>2 DEF GInv, TypeOK, client
  <1> QED
    BY <1>2, <1>3, <1>5, <1>6, <1>7 DEF Poller

LEMMA HookTypes ==
  ASSUME GInv, NEW t \in tasks, Hook(t) \/ RecordFails(t)
  PROVE  TypeOK'
  <1>1. t \in Task /\ tasks \subseteq Task
    BY DEF GInv, TypeOK
  <1>2. /\ UNCHANGED <<job, client, table, poller, notices, crashes>>
        /\ tasks' \subseteq Task
    BY <1>1, TaskMoves
    DEF Hook, Lookup, LookupEnds, Post, Record, RecordFails, Replace
  <1>3. deliveries' \in [Gens -> Seq(BOOLEAN)]
    <2>1. t.gen \in Gens /\ t.ok \in BOOLEAN /\ deliveries \in [Gens -> Seq(BOOLEAN)]
      BY <1>1 DEF Task, GInv, TypeOK
    <2>2. \/ UNCHANGED deliveries
          \/ deliveries' = [deliveries EXCEPT ![t.gen] = Append(deliveries[t.gen], t.ok)]
      BY DEF Hook, Lookup, LookupEnds, Post, Record, RecordFails
    <2>3. Append(deliveries[t.gen], t.ok) \in Seq(BOOLEAN)
      BY <2>1
    <2> QED
      BY <2>1, <2>2, <2>3
  <1> QED
    BY <1>2, <1>3 DEF GInv, TypeOK, client, table, poller

LEMMA TypesStep ==
  ASSUME GInv, [Next]_vars
  PROVE  TypeOK'
  <1>1. CASE Age
    BY <1>1 DEF GInv, TypeOK, Age, client, poller, hooks
  <1>2. CASE Crash
    <2>1. Blank \in Answer
      BY DEF Blank, Answer, Status, ActiveStatus
    <2>2. crashes' \in 0 .. MaxCrashes
      BY <1>2, GenerationsAssumption DEF GInv, TypeOK, Crash
    <2>3. call' \in [Gens -> {"idle", "submitted", "answered", "gone"}]
      BY <1>2 DEF GInv, TypeOK, Crash
    <2> QED
      BY <1>2, <2>1, <2>2, <2>3 DEF GInv, TypeOK, Crash, Continue, table
  <1>3. CASE UNCHANGED vars
    BY <1>3 DEF GInv, TypeOK, vars, client, table, poller, hooks
  <1> QED
    BY <1>1, <1>2, <1>3, HandlerTypes, PollerTypes, HookTypes
    DEF Next, Works, Fails, Handlers, Poller

----------------------------------------------------------------------------
(* The rows and the poller *)

LEMMA PersistedStep ==
  ASSUME GInv, [Next]_vars
  PROVE  Persisted'
  <1> USE DEF GInv, TypeOK, Persisted
  <1>1. ASSUME NEW g \in Gens, Submit(g) \/ Respond(g) \/ Disconnect(g)
        PROVE  Persisted'
    BY <1>1 DEF Submit, Respond, Disconnect, table
  <1>2. ASSUME NEW g \in Gens, Persist(g) \/ PersistFails(g) \/ Look(g)
        PROVE  Persisted'
    BY <1>2 DEF Persist, PersistFails, Look, table
  <1>3. ASSUME NEW g \in Gens, Cancel(g) \/ JobEnds(g)
        PROVE  Persisted'
    BY <1>3 DEF Cancel, CanCancel, Active, ActiveStatus, JobEnds, client, table
  <1>4. CASE Write
    BY <1>4, AtRow DEF Write, client
  <1>5. CASE Crash
    BY <1>5 DEF Crash, table
  <1>6. CASE UNCHANGED <<job, client, rows>>
    BY <1>6 DEF client
  <1>7. CASE \/ List \/ Pick \/ Unreachable \/ Dead \/ Ended \/ Running \/ WriteFails
             \/ Age \/ UNCHANGED vars
    BY <1>6, <1>7
    DEF List, Pick, Unreachable, Dead, Ended, Running, WriteFails, Age, table, vars
  <1>8. ASSUME NEW t \in tasks, Hook(t) \/ RecordFails(t)
        PROVE  Persisted'
    BY <1>6, <1>8 DEF Hook, Lookup, LookupEnds, Post, Record, RecordFails, table
  <1> QED
    BY <1>1, <1>2, <1>3, <1>4, <1>5, <1>7, <1>8
    DEF Next, Works, Fails, Handlers, Poller

\* The steps outside the poller, and how they change the table.
Elsewhere ==
  /\ UNCHANGED <<poller, notices>>
  /\ \/ UNCHANGED rows
     \/ \E g \in Gens : Persist(g) \/ Cancel(g)

LEMMA ElsewhereMoves ==
  ASSUME [Next]_vars
  PROVE  \/ Poller \/ WriteFails \/ Crash
         \/ Elsewhere
  <1>1. ASSUME NEW g \in Gens,
               \/ Submit(g) \/ Respond(g) \/ Disconnect(g) \/ Persist(g)
               \/ PersistFails(g) \/ Look(g) \/ Cancel(g) \/ JobEnds(g)
        PROVE  Elsewhere
    BY <1>1
    DEF Submit, Respond, Disconnect, Persist, PersistFails, Look, Cancel, JobEnds,
        table, hooks, Elsewhere
  <1>2. ASSUME NEW t \in tasks, Hook(t) \/ RecordFails(t)
        PROVE  Elsewhere
    BY <1>2
    DEF Hook, Lookup, LookupEnds, Post, Record, RecordFails, table, Elsewhere
  <1>3. CASE Age \/ UNCHANGED vars
    BY <1>3 DEF Age, vars, table, hooks, Elsewhere
  <1> QED
    BY <1>1, <1>2, <1>3 DEF Next, Works, Fails, Handlers

LEMMA WalkStep ==
  ASSUME GInv, [Next]_vars
  PROVE  Walk'
  <1> USE DEF GInv, TypeOK, Walk
  <1>1. CASE Elsewhere
    <2>1. \A g \in Gens : rows[g] # "absent" => rows'[g] # "absent"
      BY <1>1 DEF Elsewhere, Persist, Cancel
    <2> QED
      BY <1>1, <2>1 DEF Elsewhere, poller
  <1>2. CASE List
    <2>1. \A g \in Oldest : g \in Gens /\ rows[g] # "absent"
      BY DEF Oldest, Active, ActiveStatus
    <2> QED
      BY <1>2, <2>1, GenerationsAssumption DEF List, table
  <1>3. CASE Pick
    BY <1>3, GenerationsAssumption DEF Pick, table
  <1>4. ASSUME Continue(batch), UNCHANGED rows
        PROVE  Walk'
    BY <1>4, GenerationsAssumption DEF Continue
  <1>5. CASE Unreachable \/ Dead \/ Ended \/ Running \/ WriteFails
    BY <1>4, <1>5, AtRow, GenerationsAssumption
    DEF Unreachable, Dead, Ended, Running, WriteFails, GiveUp, Decide, table
  <1>6. CASE Write
    <2>1. \A g \in Gens : rows[g] # "absent" => rows'[g] # "absent"
      BY <1>6, AtRow DEF Write, Answer, Status, ActiveStatus, TerminalStatus
    <2> QED
      BY <1>6, <2>1, GenerationsAssumption DEF Write, Continue
  <1>7. CASE Crash
    BY <1>7, GenerationsAssumption DEF Crash, Continue
  <1> QED
    BY <1>1, <1>2, <1>3, <1>5, <1>6, <1>7, ElsewhereMoves DEF Poller

\* A job that a row knows of never starts again.
LEMMA JobsEnd ==
  ASSUME GInv, [Next]_vars, NEW g \in Gens, call[g] # "idle"
  PROVE  /\ job[g] # "running" => job'[g] # "running"
         /\ job[g] \in {"completed", "purged"} => job'[g] \in {"completed", "purged"}
  <1> USE DEF GInv, TypeOK
  <1>1. CASE \E h \in Gens : Submit(h) \/ JobEnds(h)
    BY <1>1 DEF Submit, JobEnds
  <1>2. CASE UNCHANGED job
    BY <1>2
  <1>3. CASE \E h \in Gens : \/ Respond(h) \/ Disconnect(h) \/ Persist(h)
                            \/ PersistFails(h) \/ Look(h) \/ Cancel(h)
    BY <1>2, <1>3 DEF Respond, Disconnect, Persist, PersistFails, Look, Cancel
  <1>4. CASE Poller \/ WriteFails \/ Age \/ Crash \/ UNCHANGED vars
    BY <1>2, <1>4
    DEF Poller, List, Pick, Unreachable, Dead, Ended, Running, Write, WriteFails,
        Age, Crash, vars
  <1>5. CASE \E t \in tasks : Hook(t) \/ RecordFails(t)
    BY <1>2, <1>5 DEF Hook, Lookup, LookupEnds, Post, Record, RecordFails
  <1> QED
    BY <1>1, <1>3, <1>4, <1>5 DEF Next, Works, Fails, Handlers

LEMMA TruthfulStep ==
  ASSUME GInv, [Next]_vars
  PROVE  Truthful'
  <1> USE DEF GInv, TypeOK, Truthful
  <1>1. CASE Elsewhere \/ List \/ Pick
    <2>1. step' = "write" => step = "write" /\ row' = row
      BY <1>1 DEF Elsewhere, poller, List, Pick
    <2>2. answer' = answer
      BY <1>1 DEF Elsewhere, poller, List, Pick
    <2>3. CASE step' = "write" /\ ~answer.reap /\ answer.status \in TerminalStatus
      <3>1. row \in Gens /\ call[row] # "idle"
        BY <2>1, <2>3, AtRow DEF Persisted
      <3> QED
        BY <2>1, <2>2, <2>3, <3>1, JobsEnd DEF Ends
    <2> QED
      BY <2>2, <2>3
  <1>2. CASE Continue(batch) \/ Crash
    BY <1>2 DEF Crash, Continue, Blank, TerminalStatus
  <1>3. CASE Decide("failed", TRUE) \/ Decide("processing", FALSE)
    BY <1>3 DEF Decide, TerminalStatus
  <1>4. CASE Ended
    BY <1>4 DEF Ended, Decide, Ends
  <1> QED
    BY <1>1, <1>2, <1>3, <1>4, ElsewhereMoves
    DEF Poller, Unreachable, Dead, Running, GiveUp, Write, WriteFails

----------------------------------------------------------------------------
(* Announcements *)

\* The write of the poller, in the two ways it goes.
LEMMA Writes ==
  ASSUME GInv, Write
  PROVE  /\ row \in Gens /\ row \notin batch /\ notices[row] = 0
         /\ rows' = [rows EXCEPT ![row] = answer.status]
         /\ Continue(batch) /\ UNCHANGED <<job, call>>
         /\ \/ UNCHANGED hooks
            \/ Announces(row) /\ Spawn(row)
  BY AtRow DEF Write, client, GInv, Closed, TypeOK

\* What was announced stays as it is.
LEMMA StaysClosed ==
  ASSUME GInv, [Next]_vars, NEW g \in Gens, notices[g] # 0
  PROVE  /\ notices'[g] = notices[g] /\ rows'[g] = rows[g]
         /\ g \notin batch' /\ g # row'
  <1> USE DEF GInv, TypeOK
  <1>1. Terminal(g) /\ ~Active(g) /\ rows[g] # "absent" /\ g \notin batch /\ g # row
    BY DEF Closed, Terminal, Active, TerminalStatus, ActiveStatus
  <1>2. CASE Elsewhere
    BY <1>1, <1>2 DEF Elsewhere, poller, Persist, Cancel, CanCancel, Persisted
  <1>3. CASE List
    BY <1>1, <1>3 DEF List, Oldest, table, hooks
  <1>4. CASE Pick
    BY <1>1, <1>4 DEF Pick, table, hooks
  <1>5. CASE \/ Unreachable \/ Dead \/ Ended \/ Running \/ WriteFails \/ Crash
    BY <1>1, <1>5, GenerationsAssumption
    DEF Unreachable, Dead, Ended, Running, WriteFails, Crash, GiveUp, Decide,
        Continue, table, hooks
  <1>6. CASE Write
    <2>1. /\ row \in Gens /\ rows' = [rows EXCEPT ![row] = answer.status]
          /\ Continue(batch)
          /\ notices' = notices \/ notices' = [notices EXCEPT ![row] = notices[row] + 1]
      BY <1>6, Writes DEF hooks, Spawn
    <2> QED
      BY <1>1, <2>1, GenerationsAssumption DEF Continue
  <1> QED
    BY <1>2, <1>3, <1>4, <1>5, <1>6, ElsewhereMoves DEF Poller

LEMMA ClosedStep ==
  ASSUME GInv, [Next]_vars
  PROVE  Closed'
  <1> SUFFICES ASSUME NEW g \in Gens, notices'[g] # 0
               PROVE  /\ notices'[g] = 1 /\ Terminal(g)'
                      /\ g \notin batch' /\ g # row'
    BY DEF Closed
  <1>1. CASE notices[g] # 0
    BY <1>1, StaysClosed DEF GInv, Closed, Terminal
  <1>2. CASE notices[g] = 0
    <2>1. Write
      BY <1>2, ElsewhereMoves
      DEF Elsewhere, Poller, List, Pick, Unreachable, Dead, Ended, Running,
          WriteFails, Crash, hooks
    <2>2. Announces(row) /\ Spawn(row) /\ g = row
      BY <1>2, <2>1, Writes DEF hooks, Spawn, GInv, TypeOK
    <2>3. /\ notices'[g] = 1 /\ rows'[g] = answer.status
      BY <1>2, <2>1, <2>2, Writes DEF Spawn, GInv, TypeOK
    <2> QED
      BY <2>1, <2>2, <2>3, Writes, GenerationsAssumption
      DEF Announces, Terminal, Continue
  <1> QED
    BY <1>1, <1>2

\* A webhook task that goes on goes on about the same end, and what it has
\* recorded before was refused.
LEMMA HookMoves ==
  ASSUME GInv, NEW t \in tasks, Hook(t) \/ RecordFails(t)
  PROVE  /\ t.gen \in Gens /\ notices[t.gen] # 0 /\ UNCHANGED <<rows, notices>>
         /\ \/ tasks' = tasks \ {t}
            \/ \E u \in Task :
                 /\ tasks' = (tasks \ {t}) \cup {u}
                 /\ u.gen = t.gen /\ u.status = t.status
                 /\ Len(deliveries'[t.gen]) < u.attempt
                 /\ \A i \in DOMAIN deliveries'[t.gen] : ~deliveries'[t.gen][i]
         /\ \A g \in Gens \ {t.gen} : deliveries'[g] = deliveries[g]
         /\ Len(deliveries'[t.gen]) <= MaxAttempts
         /\ \A i \in DOMAIN deliveries'[t.gen] :
              deliveries'[t.gen][i] => i = Len(deliveries'[t.gen])
  <1> DEFINE sent == deliveries[t.gen]
  <1>1. /\ t \in Task /\ t.gen \in Gens /\ sent \in Seq(BOOLEAN)
        /\ deliveries \in [Gens -> Seq(BOOLEAN)]
        /\ notices[t.gen] # 0 /\ Len(sent) < t.attempt
        /\ \A i \in DOMAIN sent : ~sent[i]
        /\ t.attempt \in 1 .. MaxAttempts /\ MaxAttempts \in Nat
    BY GenerationsAssumption DEF GInv, TypeOK, Single, Task
  <1>2. UNCHANGED <<rows, notices>>
    BY DEF Hook, Lookup, LookupEnds, Post, Record, RecordFails, table
  <1>3. CASE Lookup(t) \/ LookupEnds(t) \/ Post(t)
    <2>1. UNCHANGED deliveries
      BY <1>3 DEF Lookup, LookupEnds, Post
    <2>2. PICK next : /\ tasks' = (tasks \ {t}) \cup next
                      /\ next = {} \/ \E u \in Task : next = {u} /\ u.gen = t.gen
                           /\ u.status = t.status /\ u.attempt = t.attempt
      <3>1. CASE Lookup(t)
        <4> DEFINE u == [t EXCEPT !.step = "post"]
        <4>1. u \in Task /\ u.gen = t.gen /\ u.status = t.status /\ u.attempt = t.attempt
          BY <1>1 DEF Task
        <4>2. tasks' = (tasks \ {t}) \cup {u}
          BY <3>1 DEF Lookup, Replace
        <4> HIDE DEF u
        <4> QED
          BY <4>1, <4>2
      <3>2. CASE LookupEnds(t)
        BY <3>2 DEF LookupEnds, Replace
      <3>3. CASE Post(t)
        <4>1. PICK ok \in BOOLEAN :
                tasks' = (tasks \ {t}) \cup {[t EXCEPT !.step = "record", !.ok = ok]}
          BY <3>3 DEF Post, Replace
        <4> DEFINE u == [t EXCEPT !.step = "record", !.ok = ok]
        <4>2. u \in Task /\ u.gen = t.gen /\ u.status = t.status /\ u.attempt = t.attempt
          BY <1>1 DEF Task
        <4> QED
          BY <4>1, <4>2
      <3> QED
        BY <1>3, <3>1, <3>2, <3>3
    <2> QED
      BY <1>1, <1>2, <2>1, <2>2
  <1>4. CASE Record(t) \/ RecordFails(t)
    <2>1. PICK next : /\ tasks' = (tasks \ {t}) \cup next
                      /\ next = {} \/ \E u \in Task : next = {u} /\ u.gen = t.gen
                           /\ u.status = t.status /\ u.attempt = t.attempt + 1
                           /\ ~t.ok
      <3>1. tasks' = (tasks \ {t}) \cup After(t)
        BY <1>4 DEF Record, RecordFails, Replace
      <3> DEFINE u == [t EXCEPT !.step = "post", !.attempt = t.attempt + 1, !.ok = FALSE]
      <3>2. After(t) = {} \/ (~t.ok /\ t.attempt < MaxAttempts /\ After(t) = {u})
        BY DEF After, Retry
      <3>3. t.attempt < MaxAttempts =>
              u \in Task /\ u.gen = t.gen /\ u.status = t.status
                /\ u.attempt = t.attempt + 1
        <4>1. t.attempt < MaxAttempts => u \in Task
          BY <1>1, TaskMoves
        <4>2. u.gen = t.gen /\ u.status = t.status /\ u.attempt = t.attempt + 1
          BY <1>1 DEF Task
        <4> QED
          BY <4>1, <4>2
      <3> HIDE DEF u
      <3> QED
        BY <3>1, <3>2, <3>3
    <2>2. \/ deliveries' = deliveries
          \/ deliveries' = [deliveries EXCEPT ![t.gen] = Append(sent, t.ok)]
      BY <1>4 DEF Record, RecordFails
    <2>3. /\ deliveries'[t.gen] = sent \/ deliveries'[t.gen] = Append(sent, t.ok)
          /\ \A g \in Gens \ {t.gen} : deliveries'[g] = deliveries[g]
      BY <1>1, <2>2
    <2>4. /\ Append(sent, t.ok) \in Seq(BOOLEAN)
          /\ Len(Append(sent, t.ok)) = Len(sent) + 1
          /\ \A i \in 1 .. Len(sent) : Append(sent, t.ok)[i] = sent[i]
          /\ Append(sent, t.ok)[Len(sent) + 1] = t.ok
          /\ Len(sent) \in Nat /\ DOMAIN sent = 1 .. Len(sent)
          /\ DOMAIN Append(sent, t.ok) = 1 .. Len(sent) + 1
      <3>1. t.ok \in BOOLEAN
        BY <1>1 DEF Task
      <3> QED
        BY <1>1, <3>1
    <2>5. /\ Len(deliveries'[t.gen]) \in Nat
          /\ Len(deliveries'[t.gen]) <= Len(sent) + 1
          /\ \A i \in DOMAIN deliveries'[t.gen] :
               deliveries'[t.gen][i] => t.ok /\ i = Len(deliveries'[t.gen])
      <3>1. CASE deliveries'[t.gen] = sent
        BY <1>1, <2>4, <3>1
      <3>2. CASE deliveries'[t.gen] = Append(sent, t.ok)
        BY <1>1, <2>4, <3>2
      <3> QED
        BY <2>3, <3>1, <3>2
    <2>6. \/ tasks' = tasks \ {t}
          \/ \E u \in Task :
               /\ tasks' = (tasks \ {t}) \cup {u}
               /\ u.gen = t.gen /\ u.status = t.status
               /\ Len(deliveries'[t.gen]) < u.attempt
               /\ \A i \in DOMAIN deliveries'[t.gen] : ~deliveries'[t.gen][i]
      <3>1. CASE next = {}
        BY <2>1, <3>1
      <3>2. ASSUME NEW u \in Task, next = {u}, u.gen = t.gen, u.status = t.status,
                   u.attempt = t.attempt + 1, ~t.ok
            PROVE  /\ Len(deliveries'[t.gen]) < u.attempt
                   /\ \A i \in DOMAIN deliveries'[t.gen] : ~deliveries'[t.gen][i]
        BY <1>1, <2>4, <2>5, <3>2
      <3> QED
        BY <2>1, <3>1, <3>2
    <2>7. Len(deliveries'[t.gen]) <= MaxAttempts
      BY <1>1, <2>4, <2>5
    <2>8. \A i \in DOMAIN deliveries'[t.gen] :
            deliveries'[t.gen][i] => i = Len(deliveries'[t.gen])
      BY <2>5
    <2> QED
      BY <1>1, <1>2, <2>3, <2>6, <2>7, <2>8
  <1>5. Lookup(t) \/ LookupEnds(t) \/ Post(t) \/ Record(t) \/ RecordFails(t)
    BY Zenon DEF Hook
  <1> QED
    BY <1>3, <1>4, <1>5

LEMMA SingleStep ==
  ASSUME GInv, [Next]_vars
  PROVE  Single'
  <1>0. Closed /\ Single /\ tasks \subseteq Task
    BY DEF GInv, TypeOK
  <1>1. ASSUME NEW t \in tasks, Hook(t) \/ RecordFails(t)
        PROVE  Single'
    <2>1. \A g \in Gens : notices'[g] = 0 => deliveries'[g] = <<>>
      BY <1>0, <1>1, HookMoves DEF Single
    \* The other tasks are about other generations.
    <2>2. \A u \in tasks \ {t} : u.gen \in Gens /\ u.gen # t.gen
      BY <1>0 DEF Single, Task
    <2>3. ASSUME NEW u \in tasks \ {t}
          PROVE  /\ notices'[u.gen] # 0 /\ rows'[u.gen] = u.status
                 /\ Len(deliveries'[u.gen]) < u.attempt
                 /\ \A i \in DOMAIN deliveries'[u.gen] : ~deliveries'[u.gen][i]
      <3>1. deliveries'[u.gen] = deliveries[u.gen] /\ UNCHANGED <<rows, notices>>
        BY <1>1, <2>2, HookMoves
      <3> QED
        BY <1>0, <3>1 DEF Single
    <2>4. CASE tasks' = tasks \ {t}
      BY <1>0, <2>1, <2>3, <2>4 DEF Single
    <2>5. ASSUME NEW u \in Task,
                 /\ tasks' = (tasks \ {t}) \cup {u}
                 /\ u.gen = t.gen /\ u.status = t.status
                 /\ Len(deliveries'[t.gen]) < u.attempt
                 /\ \A i \in DOMAIN deliveries'[t.gen] : ~deliveries'[t.gen][i]
          PROVE  Single'
      <3>1. /\ notices'[u.gen] # 0 /\ rows'[u.gen] = u.status
        BY <1>0, <1>1, <2>5, HookMoves DEF Single
      <3>2. \A v, w \in tasks' : v.gen = w.gen => v = w
        BY <1>0, <2>2, <2>5 DEF Single
      <3> QED
        BY <2>1, <2>3, <2>5, <3>1, <3>2 DEF Single
    <2> QED
      BY <1>1, <2>4, <2>5, HookMoves
  <1>2. ASSUME UNCHANGED <<tasks, deliveries>>
        PROVE  Single'
    <2>1. ASSUME NEW g \in Gens, notices'[g] = 0
          PROVE  deliveries'[g] = <<>>
      BY <1>0, <1>2, <2>1, StaysClosed DEF Single
    <2>2. ASSUME NEW t \in tasks
          PROVE  notices'[t.gen] # 0 /\ rows'[t.gen] = t.status
      BY <1>0, StaysClosed DEF Single, Task
    <2> QED
      BY <1>0, <1>2, <2>1, <2>2 DEF Single
  <1>3. ASSUME Write, Announces(row), Spawn(row)
        PROVE  Single'
    <2> DEFINE new == [gen |-> row, status |-> answer.status, step |-> "lookup",
                       attempt |-> 1, ok |-> FALSE]
    <2>1. /\ row \in Gens /\ notices[row] = 0 /\ deliveries[row] = <<>>
          /\ rows' = [rows EXCEPT ![row] = answer.status]
          /\ notices' = [notices EXCEPT ![row] = notices[row] + 1]
          /\ tasks' = tasks \cup {new} /\ UNCHANGED deliveries
          /\ rows \in [Gens -> Status \cup {"absent"}] /\ notices \in [Gens -> Nat]
      BY <1>0, <1>3, Writes DEF Spawn, Single, GInv, TypeOK
    <2>2. /\ new.gen = row /\ new.status = answer.status /\ new.attempt = 1
          /\ rows'[row] = answer.status /\ notices'[row] = 1
      BY <2>1
    <2> HIDE DEF new
    <2>3. \A t \in tasks : t.gen \in Gens /\ t.gen # row
      BY <1>0, <2>1 DEF Single, Task
    <2>4. \A g \in Gens \ {row} : rows'[g] = rows[g] /\ notices'[g] = notices[g]
      BY <2>1
    <2>5. \A g \in Gens : notices'[g] = 0 => deliveries'[g] = <<>>
      BY <1>0, <2>1, <2>2, <2>4 DEF Single
    <2>6. \A t, u \in tasks' : t.gen = u.gen => t = u
      BY <1>0, <2>1, <2>2, <2>3 DEF Single
    <2>7. ASSUME NEW t \in tasks'
          PROVE  /\ notices'[t.gen] # 0 /\ rows'[t.gen] = t.status
                 /\ Len(deliveries'[t.gen]) < t.attempt
                 /\ \A i \in DOMAIN deliveries'[t.gen] : ~deliveries'[t.gen][i]
      <3>1. CASE t = new
        <4>1. deliveries'[row] = <<>> /\ Len(<<>>) = 0 /\ DOMAIN <<>> = {}
          BY <2>1
        <4> QED
          BY <2>2, <3>1, <4>1
      <3>2. CASE t \in tasks
        BY <1>0, <2>1, <2>3, <2>4, <3>2 DEF Single
      <3> QED
        BY <2>1, <3>1, <3>2
    <2> QED
      BY <2>5, <2>6, <2>7 DEF Single
  <1>4. CASE Crash
    <2>1. tasks' = {} /\ UNCHANGED <<notices, deliveries>>
      BY <1>4 DEF Crash
    <2> QED
      BY <1>0, <2>1 DEF Single
  <1>5. ASSUME NEW g \in Gens,
               \/ Submit(g) \/ Respond(g) \/ Disconnect(g) \/ Persist(g)
               \/ PersistFails(g) \/ Look(g) \/ Cancel(g) \/ JobEnds(g)
        PROVE  UNCHANGED hooks
    BY <1>5
    DEF Submit, Respond, Disconnect, Persist, PersistFails, Look, Cancel, JobEnds
  <1>6. CASE \/ List \/ Pick \/ Unreachable \/ Dead \/ Ended \/ Running \/ WriteFails
             \/ Age \/ UNCHANGED vars
    <2>1. UNCHANGED hooks
      BY <1>6 DEF List, Pick, Unreachable, Dead, Ended, Running, WriteFails, Age, vars
    <2> QED
      BY <1>2, <2>1 DEF hooks
  <1> QED
    BY <1>1, <1>2, <1>3, <1>4, <1>5, <1>6, Writes
    DEF Next, Works, Fails, Handlers, Poller, hooks

LEMMA AnnouncedOnceStep ==
  ASSUME GInv, [Next]_vars
  PROVE  AnnouncedOnce'
  <1> SUFFICES ASSUME NEW g \in Gens
               PROVE  /\ notices'[g] <= 1
                      /\ Len(deliveries'[g]) <= MaxAttempts
                      /\ \A i \in DOMAIN deliveries'[g] :
                           deliveries'[g][i] => i = Len(deliveries'[g])
    BY DEF AnnouncedOnce
  <1>1. notices'[g] <= 1
    BY ClosedStep DEF Closed
  <1>2. CASE UNCHANGED deliveries
    BY <1>1, <1>2 DEF GInv, AnnouncedOnce
  <1>3. ASSUME NEW t \in tasks, Hook(t) \/ RecordFails(t)
        PROVE  /\ Len(deliveries'[g]) <= MaxAttempts
               /\ \A i \in DOMAIN deliveries'[g] :
                    deliveries'[g][i] => i = Len(deliveries'[g])
    <2>1. CASE g = t.gen
      BY <1>3, <2>1, HookMoves
    <2>2. CASE g # t.gen
      <3>1. deliveries'[g] = deliveries[g]
        BY <1>3, <2>2, HookMoves
      <3> QED
        BY <3>1 DEF GInv, AnnouncedOnce
    <2> QED
      BY <2>1, <2>2
  <1>4. ASSUME NEW h \in Gens,
               \/ Submit(h) \/ Respond(h) \/ Disconnect(h) \/ Persist(h)
               \/ PersistFails(h) \/ Look(h) \/ Cancel(h) \/ JobEnds(h)
        PROVE  UNCHANGED deliveries
    BY <1>4
    DEF Submit, Respond, Disconnect, Persist, PersistFails, Look, Cancel, JobEnds,
        hooks
  <1>5. CASE \/ Poller \/ WriteFails \/ Age \/ Crash \/ UNCHANGED vars
    BY <1>2, <1>5
    DEF Poller, List, Pick, Unreachable, Dead, Ended, Running, Write, Spawn,
        WriteFails, Age, Crash, vars, hooks
  <1> QED
    BY <1>1, <1>2, <1>3, <1>4, <1>5 DEF Next, Works, Fails, Handlers

LEMMA ResultsRealStep ==
  ASSUME GInv, [Next]_vars
  PROVE  ResultsReal'
  <1> SUFFICES ASSUME NEW g \in Gens
               PROVE  /\ rows'[g] = "completed" => job'[g] \in {"completed", "purged"}
                      /\ notices'[g] > 0 => job'[g] # "running"
    BY DEF ResultsReal
  <1> USE DEF GInv, TypeOK
  <1>1. rows[g] # "absent" => call[g] # "idle"
    BY DEF Persisted
  <1>2. notices[g] # 0 => rows[g] # "absent"
    BY DEF Closed, Terminal, TerminalStatus
  <1>3. ASSUME rows[g] = "completed"
        PROVE  job'[g] \in {"completed", "purged"}
    BY <1>1, <1>3, JobsEnd DEF ResultsReal
  <1>4. ASSUME notices[g] # 0
        PROVE  job'[g] # "running"
    BY <1>1, <1>2, <1>4, JobsEnd DEF ResultsReal
  <1>5. CASE Write
    <2>1. /\ row \in Gens /\ UNCHANGED job /\ step = "write"
          /\ rows' = [rows EXCEPT ![row] = answer.status]
          /\ \/ UNCHANGED notices
             \/ Announces(row) /\ notices' = [notices EXCEPT ![row] = notices[row] + 1]
      BY <1>5, Writes DEF Write, hooks, Spawn
    <2>2. CASE g = row
      <3>1. rows'[g] = answer.status
        BY <2>1, <2>2
      <3>2. answer.status = "completed" => job[g] \in {"completed", "purged"}
        BY <2>1, <2>2 DEF Truthful, Ends, TerminalStatus
      <3>3. Announces(row) => job[g] # "running"
        BY <2>1, <2>2 DEF Truthful, Ends, Announces
      <3> QED
        BY <1>4, <2>1, <2>2, <3>1, <3>2, <3>3
    <2>3. CASE g # row
      BY <1>3, <1>4, <2>1, <2>3
    <2> QED
      BY <2>2, <2>3
  <1>6. ASSUME rows'[g] = rows[g] \/ rows'[g] # "completed", UNCHANGED notices
        PROVE  /\ rows'[g] = "completed" => job'[g] \in {"completed", "purged"}
               /\ notices'[g] > 0 => job'[g] # "running"
    BY <1>3, <1>4, <1>6
  <1>7. CASE Elsewhere
    BY <1>6, <1>7 DEF Elsewhere, Persist, Cancel
  <1>8. CASE List \/ Pick \/ Unreachable \/ Dead \/ Ended \/ Running \/ WriteFails
    BY <1>6, <1>8
    DEF List, Pick, Unreachable, Dead, Ended, Running, WriteFails, table, hooks
  <1>9. CASE Crash
    BY <1>6, <1>9 DEF Crash, table
  <1> QED
    BY <1>5, <1>7, <1>8, <1>9, ElsewhereMoves DEF Poller

LEMMA HandlesStep ==
  ASSUME GInv, [Next]_vars
  PROVE  Handles'
  <1> USE DEF GInv, TypeOK, Handles
  <1>1. ASSUME NEW g \in Gens, Submit(g) \/ Look(g) \/ JobEnds(g)
        PROVE  Handles'
    BY <1>1 DEF Submit, Look, JobEnds, client
  <1>2. CASE Crash
    BY <1>2, GenerationsAssumption DEF Crash
  <1>3. CASE UNCHANGED <<job, call, videoJobs, crashes>>
    BY <1>3
  <1>4. ASSUME NEW g \in Gens, Respond(g) \/ Disconnect(g)
        PROVE  Handles'
    BY <1>4 DEF Respond, Disconnect
  <1>5. ASSUME NEW g \in Gens, Persist(g) \/ PersistFails(g) \/ Cancel(g)
        PROVE  Handles'
    BY <1>3, <1>5 DEF Persist, PersistFails, Cancel, client
  <1>6. CASE Poller \/ WriteFails \/ Age \/ UNCHANGED vars
    BY <1>3, <1>6
    DEF Poller, List, Pick, Unreachable, Dead, Ended, Running, Write, WriteFails,
        Age, client, vars
  <1>7. ASSUME NEW t \in tasks, Hook(t) \/ RecordFails(t)
        PROVE  Handles'
    BY <1>3, <1>7 DEF Hook, Lookup, LookupEnds, Post, Record, RecordFails, client
  <1> QED
    BY <1>1, <1>2, <1>4, <1>5, <1>6, <1>7 DEF Next, Works, Fails, Handlers

LEMMA GStep == GInv /\ [Next]_vars => GInv'
  <1> SUFFICES ASSUME GInv, [Next]_vars PROVE GInv'
    OBVIOUS
  <1> QED
    BY TypesStep, PersistedStep, WalkStep, TruthfulStep, ClosedStep, SingleStep,
       AnnouncedOnceStep, ResultsRealStep, HandlesStep DEF GInv

LEMMA GInvariant == Spec => []GInv
  BY GInit, GStep, PTL DEF Spec

----------------------------------------------------------------------------
(* Theorems *)

\* The types of the table, the poller and the webhook tasks.
THEOREM GenerationsTypeCorrect == Spec => []TypeOK
  <1>1. GInv => TypeOK
    BY DEF GInv
  <1> QED
    BY <1>1, GInvariant, PTL

\* What a webhook announces is the row's status for as long as the task runs:
\* cancels, a stale batch and a late write never change an announced row.
THEOREM NoticesAreTrue == Spec => []NoticesTrue
  <1>1. GInv => NoticesTrue
    BY DEF GInv, Single, NoticesTrue
  <1> QED
    BY <1>1, GInvariant, PTL

\* One announcement per generation, of at most MaxAttempts deliveries, the
\* last of which may be the accepted one.
THEOREM AnnouncementsOnce == Spec => []AnnouncedOnce
  <1>1. GInv => AnnouncedOnce
    BY DEF GInv
  <1> QED
    BY <1>1, GInvariant, PTL

\* No row is completed, and none announced, before the provider's job is over.
THEOREM ResultsAreReal == Spec => []ResultsReal
  <1>1. GInv => ResultsReal
    BY DEF GInv
  <1> QED
    BY <1>1, GInvariant, PTL

\* Until a crash, a row still pending or processing that GET /v1/videos cannot
\* look up is one whose job the provider has ended, so what is left of it is the
\* poller's: no row of a running job is out of its client's reach.
THEOREM ForgottenIsOver == Spec => []ForgottenOver
  <1>1. ASSUME GInv, NEW g \in Gens, Active(g), g \notin videoJobs, ~(crashes > 0)
        PROVE  job[g] \in {"completed", "failed", "purged", "lost"}
    <2>1. call[g] # "idle"
      BY <1>1, GenerationsAssumption DEF GInv, Persisted, Active, ActiveStatus
    <2>2. crashes = 0
      BY <1>1, GenerationsAssumption DEF GInv, TypeOK
    <2>3. job[g] # "none" /\ job[g] # "running"
      BY <1>1, <2>1, <2>2 DEF GInv, Handles
    <2> QED
      BY <1>1, <2>3 DEF GInv, TypeOK
  <1>2. GInv => ForgottenOver
    BY <1>1 DEF ForgottenOver
  <1> QED
    BY <1>2, GInvariant, PTL
============================================================================
