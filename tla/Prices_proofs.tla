---------------------------- MODULE Prices_proofs ---------------------------
(***************************************************************************)
(* Proofs about the price API: for any number of scrapes, administrators   *)
(* and models, curated prices are served, the history explains the prices, *)
(* and a degraded price keeps its amount.                                  *)
(***************************************************************************)
EXTENDS Prices, TLAPS

----------------------------------------------------------------------------
(* The inductive invariant *)

\* The models a job may write from the provider's page.
Own(job) == {m \in Models : Effective(m, job.mode) = "scraped"}

\* What a scrape holds at its step.
ScrapeOK(job) ==
  /\ InFlight(job) => job.mode \in Mode
  /\ job.step \in {"next", "save", "record", "degrade"} => job.todo \subseteq Own(job)
  /\ job.step \in {"next", "save", "record"} => \A m \in job.todo : job.found[m] # None
  /\ job.step \in {"save", "record"} => job.at \in job.todo
  /\ job.step = "degrade" => \A m \in job.todo : job.copies[m] # None

\* What an edit of an administrator holds at its step.
EditOK(job) ==
  /\ job.step \in {"idle", "save", "record", "done"}
  /\ job.step = "idle" => job.at = None
  /\ job.step \in {"save", "record"} /\ job.at # None => job.found[job.at] # None
  /\ job.step = "save" /\ job.at = None => job.mode \in Mode
  /\ job.step = "record" => job.at # None

\* What the seed holds at its step.
BootOK(job) ==
  /\ job.step \in {"next", "save", "record", "done"}
  /\ job.step # "done" =>
       /\ job.found = Seed /\ job.copies = Idle.copies
       /\ \A m \in job.todo : Seed[m] # None
  /\ job.step \in {"save", "record"} => job.at \in job.todo

PTypes ==
  /\ PricesTypeOK
  /\ \A s \in Scrapes : ScrapeOK(scrapes[s])
  /\ \A e \in Edits : EditOK(edits[e])
  /\ BootOK(boot)

\* A curated price is served, its model is manual, and no scrape thinks otherwise.
Curated ==
  \A m \in Models : curated[m] # None =>
    /\ prices[m] # None /\ prices[m].amount = curated[m] /\ prices[m].source = "manual"
    /\ Effective(m, mode) = "manual"
    /\ \A s \in Scrapes : InFlight(scrapes[s]) => Effective(m, scrapes[s].mode) = "manual"

\* What is loaded of a row nobody met on is the row, and what is to be recorded of it is
\* its amount.
Copied(job, m) ==
  /\ job.step = "save" /\ job.at = m => job.copies[m] = prices[m]
  /\ job.step = "degrade" /\ m \in job.todo => job.copies[m] = prices[m]
  /\ job.step = "record" /\ job.at = m => prices[m] # None /\ prices[m].amount = job.found[m]

Recording(m) == \E p \in Jobs : JobOf(p).step = "record" /\ JobOf(p).at = m

Told(m) == Recording(m) \/ history[m] = IF prices[m] = None THEN None ELSE prices[m].amount

Explained ==
  \A m \in Models \ met : Told(m) /\ \A p \in Jobs : Copied(JobOf(p), m)

PInv == PTypes /\ Curated /\ Explained

----------------------------------------------------------------------------
(* Types *)

LEMMA Parts ==
  /\ Idle \in Job /\ Done \in Job
  /\ ScrapeOK(Idle) /\ ScrapeOK(Done) /\ EditOK(Idle) /\ EditOK(Done)
  /\ Booting \in Job /\ BootOK(Booting) /\ BootOK(Done)
  /\ ~InFlight(Idle) /\ ~InFlight(Done)
  <1>1. /\ Idle \in Job /\ Done \in Job
        /\ ScrapeOK(Idle) /\ ScrapeOK(Done) /\ EditOK(Idle) /\ EditOK(Done)
        /\ ~InFlight(Idle) /\ ~InFlight(Done)
    BY DEF Idle, Done, Job, ScrapeOK, EditOK, InFlight
  <1>2. Booting \in Job
    BY <1>1, PricesAssumption DEF Booting, Job
  <1>3. /\ Booting.step = "next" /\ Booting.found = Seed /\ Booting.copies = Idle.copies
        /\ \A m \in Booting.todo : Seed[m] # None
    BY DEF Booting, Idle
  <1>4. Done.step = "done"
    BY DEF Done, Idle
  <1>5. BootOK(Booting) /\ BootOK(Done)
    BY <1>3, <1>4 DEF BootOK
  <1> QED BY <1>1, <1>2, <1>5

LEMMA Modes ==
  ASSUME NEW m \in Models, NEW md \in Mode
  PROVE  Effective(m, md) \in Mode
  BY PricesAssumption DEF Effective

LEMMA PricesOf ==
  /\ \A amount \in Amounts, source \in {"scraped", "manual", "fallback"} :
       Fresh(amount, source) \in Price
  /\ \A price \in Price : Degraded(price) \in Price
  /\ \A m \in Models : Seeded(m) \in Price \cup {None}
  <1>1. \A amount \in Amounts, source \in {"scraped", "manual", "fallback"} :
          Fresh(amount, source) \in Price
    BY DEF Fresh, Price
  <1>2. ASSUME NEW price \in Price
        PROVE  Degraded(price) \in Price
    <2> DEFINE failures == price.failures + 1
               freshness == IF failures >= StaleAfter THEN "failed" ELSE "stale"
    <2>1. failures \in Nat /\ freshness \in {"fresh", "stale", "failed"}
      BY DEF Price
    <2>2. Degraded(price) = [price EXCEPT !.failures = failures, !.freshness = freshness]
      BY DEF Degraded
    <2> HIDE DEF failures, freshness
    <2> QED BY <2>1, <2>2 DEF Price
  <1>3. \A m \in Models : Seeded(m) \in Price \cup {None}
    BY <1>1, PricesAssumption DEF Seeded
  <1> QED BY <1>1, <1>2, <1>3

\* One scrape, or one edit, moves.
LEMMA ScrapeMoves ==
  ASSUME PTypes, NEW s \in Scrapes, NEW job \in Job, ScrapeOK(job),
         scrapes' = [scrapes EXCEPT ![s] = job]
  PROVE  /\ scrapes' \in [Scrapes -> Job] /\ \A t \in Scrapes : ScrapeOK(scrapes'[t])
         /\ scrapes'[s] = job /\ \A t \in Scrapes \ {s} : scrapes'[t] = scrapes[t]
  BY DEF PTypes, PricesTypeOK

LEMMA EditMoves ==
  ASSUME PTypes, NEW e \in Edits, NEW job \in Job, EditOK(job),
         edits' = [edits EXCEPT ![e] = job]
  PROVE  /\ edits' \in [Edits -> Job] /\ \A t \in Edits : EditOK(edits'[t])
         /\ edits'[e] = job /\ \A t \in Edits \ {e} : edits'[t] = edits[t]
  BY DEF PTypes, PricesTypeOK

LEMMA MetTypes ==
  ASSUME PTypes, NEW o, NEW m \in Models, Meets(o, m)
  PROVE  met' \subseteq Models /\ met \subseteq met'
  BY DEF Meets, PTypes, PricesTypeOK

LEMMA ModeTypes ==
  ASSUME PTypes, NEW new \in Mode, SetMode(new)
  PROVE  mode' \in Mode /\ curated' \in [Models -> Amounts \cup {None}]
  BY DEF SetMode, PTypes, PricesTypeOK

LEMMA LoadTypes ==
  ASSUME PTypes, NEW s \in Scrapes, Load(s) \/ Fetch(s) \/ FetchFails(s) \/ Missing(s)
  PROVE  PTypes'
  <1>1. scrapes[s] \in Job /\ ScrapeOK(scrapes[s])
    BY DEF PTypes, PricesTypeOK
  <1>2. SUFFICES /\ scrapes' \in [Scrapes -> Job]
                 /\ \A t \in Scrapes : ScrapeOK(scrapes'[t])
    BY DEF PTypes, PricesTypeOK, EditOK, BootOK, Load, Fetch, FetchFails, Missing, tables, ghosts, process
  <1>3. CASE Load(s)
    <2> DEFINE job == [scrapes[s] EXCEPT !.step = "fetch", !.mode = mode]
    <2>1. job \in Job /\ ScrapeOK(job)
      BY <1>1 DEF Job, ScrapeOK, PTypes, PricesTypeOK
    <2>2. scrapes' = [scrapes EXCEPT ![s] = job]
      BY <1>3 DEF Load
    <2> QED BY <2>1, <2>2, ScrapeMoves
  <1>4. CASE Fetch(s)
    <2>1. PICK found \in Pages :
            scrapes' = [scrapes EXCEPT ![s].step = "next", ![s].found = found,
                          ![s].todo = {m \in Scraped(s) : found[m] # None}]
      BY <1>4 DEF Fetch
    <2> DEFINE todo == {m \in Scraped(s) : found[m] # None}
               job == [scrapes[s] EXCEPT !.step = "next", !.found = found, !.todo = todo]
    <2>2. /\ todo \subseteq Own(scrapes[s]) /\ todo \subseteq Models
          /\ \A m \in todo : found[m] # None
          /\ found \in [Models -> Amounts \cup {None}] /\ scrapes[s].mode \in Mode
      BY <1>1, <1>4, PricesAssumption DEF Scraped, Own, ScrapeOK, InFlight, Fetch
    <2>3. scrapes' = [scrapes EXCEPT ![s] = job]
      BY <2>1
    <2> HIDE DEF todo
    <2>4. job \in Job /\ ScrapeOK(job)
      BY <1>1, <2>2 DEF Job, ScrapeOK, InFlight, Own
    <2> QED BY <2>3, <2>4, ScrapeMoves
  <1>5. ASSUME NEW models \in SUBSET Own(scrapes[s]), Degrade(s, models),
               scrapes[s].step \in {"fetch", "next"}
        PROVE  /\ scrapes' \in [Scrapes -> Job]
               /\ \A t \in Scrapes : ScrapeOK(scrapes'[t])
    <2> DEFINE todo == {m \in models : prices[m] # None}
               job == [scrapes[s] EXCEPT !.step = "degrade", !.at = None, !.todo = todo,
                                         !.copies = prices]
    <2>1. /\ todo \subseteq Own(scrapes[s]) /\ todo \subseteq Models
          /\ \A m \in todo : prices[m] # None
          /\ prices \in [Models -> Price \cup {None}] /\ scrapes[s].mode \in Mode
      BY <1>1, <1>5 DEF Own, ScrapeOK, InFlight, PTypes, PricesTypeOK
    <2>2. scrapes' = [scrapes EXCEPT ![s] = job]
      BY <1>5 DEF Degrade
    <2> HIDE DEF todo
    <2>3. job \in Job /\ ScrapeOK(job)
      BY <1>1, <2>1 DEF Job, ScrapeOK, InFlight, Own
    <2> QED BY <2>2, <2>3, ScrapeMoves
  <1>6. CASE FetchFails(s)
    BY <1>5, <1>6 DEF FetchFails, Scraped, Own
  <1>7. CASE Missing(s)
    BY <1>5, <1>7 DEF Missing, Scraped, Own
  <1> QED BY <1>3, <1>4, <1>6, <1>7

LEMMA OnwardOK ==
  ASSUME NEW job \in Job, ScrapeOK(job), job.step \in {"save", "record"}
  PROVE  Onward(job) \in Job /\ ScrapeOK(Onward(job))
  <1> DEFINE new == Onward(job)
  <1>1. /\ new.step = "next" /\ new.mode = job.mode /\ new.found = job.found
        /\ new.todo = job.todo \ {job.at} /\ new \in Job
    BY DEF Onward, Job, Idle
  <1> HIDE DEF new
  <1>2. ScrapeOK(new)
    BY <1>1 DEF ScrapeOK, InFlight, Own
  <1> QED BY <1>1, <1>2 DEF new

LEMMA ApplyTypes ==
  ASSUME PTypes, NEW s \in Scrapes,
         \/ \E m \in Models : Find(s, m)
         \/ Save(s) \/ SaveClashes(s) \/ Record(s)
  PROVE  PTypes'
  <1>1. scrapes[s] \in Job /\ ScrapeOK(scrapes[s]) /\ prices \in [Models -> Price \cup {None}]
    BY DEF PTypes, PricesTypeOK
  <1>2. ASSUME scrapes' \in [Scrapes -> Job], \A t \in Scrapes : ScrapeOK(scrapes'[t]),
               prices' \in [Models -> Price \cup {None}],
               history' \in [Models -> Amounts \cup {None}], met' \subseteq Models,
               UNCHANGED <<mode, edits, curated, process>>
        PROVE  PTypes'
    BY <1>2 DEF process, PTypes, PricesTypeOK, EditOK, BootOK
  <1>3. ASSUME NEW m \in Models, Find(s, m)
        PROVE  PTypes'
    <2> DEFINE job == [scrapes[s] EXCEPT !.step = "save", !.at = m, !.copies[m] = prices[m]]
    <2>1. scrapes' = [scrapes EXCEPT ![s] = job] /\ m \in scrapes[s].todo
          /\ scrapes[s].step = "next"
      BY <1>3 DEF Find
    <2>2. job \in Job
      BY <1>1 DEF Job
    <2>3. ScrapeOK(job)
      BY <1>1, <2>1 DEF ScrapeOK, InFlight, Own, Job
    <2>4. scrapes' \in [Scrapes -> Job] /\ \A t \in Scrapes : ScrapeOK(scrapes'[t])
      BY <2>1, <2>2, <2>3, ScrapeMoves
    <2>5. UNCHANGED <<mode, prices, history, edits, met, curated, process>>
      BY <1>3 DEF Find, tables, ghosts, process
    <2> QED BY <1>2, <2>4, <2>5 DEF PTypes, PricesTypeOK
  <1>4. CASE Save(s)
    <2> DEFINE m == scrapes[s].at
    <2>1. m \in Models /\ scrapes[s].found[m] \in Amounts
      BY <1>1, <1>4 DEF Save, ScrapeOK, Own, Job
    <2>2. prices' \in [Models -> Price \cup {None}]
      <3>1. Fresh(scrapes[s].found[m], "scraped") \in Price
        BY <2>1, PricesOf
      <3> QED BY <1>1, <1>4, <2>1, <3>1 DEF Save
    <2>3. PICK job \in {[scrapes[s] EXCEPT !.step = "record", !.copies = Idle.copies],
                        Onward(scrapes[s])} : scrapes' = [scrapes EXCEPT ![s] = job]
      BY <1>4 DEF Save
    <2>4. job \in Job /\ ScrapeOK(job)
      <3>1. CASE job = [scrapes[s] EXCEPT !.step = "record", !.copies = Idle.copies]
        BY <1>1, <1>4, <3>1 DEF Save, ScrapeOK, InFlight, Own, Job, Idle
      <3>2. CASE job = Onward(scrapes[s])
        BY <1>1, <1>4, <3>2, OnwardOK DEF Save
      <3> QED BY <3>1, <3>2
    <2>5. scrapes' \in [Scrapes -> Job] /\ \A t \in Scrapes : ScrapeOK(scrapes'[t])
      BY <2>3, <2>4, ScrapeMoves
    <2>6. met' \subseteq Models /\ UNCHANGED <<mode, history, edits, curated, process>>
      BY <1>4, <2>1, MetTypes DEF Save
    <2> QED BY <1>2, <2>2, <2>5, <2>6 DEF PTypes, PricesTypeOK
  <1>5. CASE SaveClashes(s)
    <2>1. scrapes' \in [Scrapes -> Job] /\ \A t \in Scrapes : ScrapeOK(scrapes'[t])
      BY <1>5, Parts, ScrapeMoves DEF SaveClashes
    <2> QED BY <1>2, <1>5, <2>1 DEF SaveClashes, tables, ghosts, process, PTypes, PricesTypeOK
  <1>6. CASE Record(s)
    <2>1. scrapes' \in [Scrapes -> Job] /\ \A t \in Scrapes : ScrapeOK(scrapes'[t])
      BY <1>1, <1>6, OnwardOK, ScrapeMoves DEF Record
    <2>2. scrapes[s].found[scrapes[s].at] \in Amounts
      BY <1>1, <1>6 DEF Record, ScrapeOK, Own, Job
    <2> QED BY <1>2, <1>6, <2>1, <2>2 DEF Record, ghosts, process, PTypes, PricesTypeOK
  <1> QED BY <1>3, <1>4, <1>5, <1>6

LEMMA MarkTypes ==
  ASSUME PTypes, NEW s \in Scrapes, Close(s) \/ \E m \in Models : MarkStale(s, m)
  PROVE  PTypes'
  <1>1. scrapes[s] \in Job /\ ScrapeOK(scrapes[s]) /\ prices \in [Models -> Price \cup {None}]
    BY DEF PTypes, PricesTypeOK
  <1>2. ASSUME NEW m \in Models, MarkStale(s, m)
        PROVE  PTypes'
    <2> DEFINE job == [scrapes[s] EXCEPT !.todo = scrapes[s].todo \ {m}]
    <2>1. m \in scrapes[s].todo /\ scrapes[s].copies[m] \in Price
      BY <1>1, <1>2 DEF MarkStale, ScrapeOK, Job
    <2>2. Degraded(scrapes[s].copies[m]) \in Price
      BY <2>1, PricesOf
    <2>3. prices' \in [Models -> Price \cup {None}]
      BY <1>1, <1>2, <2>2 DEF MarkStale
    <2>4. job \in Job /\ ScrapeOK(job) /\ scrapes' = [scrapes EXCEPT ![s] = job]
      BY <1>1, <1>2 DEF MarkStale, ScrapeOK, InFlight, Own, Job
    <2>5. scrapes' \in [Scrapes -> Job] /\ \A t \in Scrapes : ScrapeOK(scrapes'[t])
      BY <2>4, ScrapeMoves
    <2>6. met' \subseteq Models
      BY <1>2, MetTypes DEF MarkStale
    <2> QED BY <1>2, <2>3, <2>5, <2>6 DEF process, MarkStale, PTypes, PricesTypeOK, EditOK, BootOK
  <1>3. CASE Close(s)
    <2>1. scrapes[s].mode \in Mode
      BY <1>1, <1>3 DEF Close, ScrapeOK, InFlight
    <2>2. mode' \in Mode /\ curated' \in [Models -> Amounts \cup {None}]
      BY <1>3, <2>1, ModeTypes DEF Close
    <2>3. scrapes' \in [Scrapes -> Job] /\ \A t \in Scrapes : ScrapeOK(scrapes'[t])
      BY <1>3, Parts, ScrapeMoves DEF Close
    <2> QED BY <1>3, <2>2, <2>3 DEF process, Close, PTypes, PricesTypeOK, EditOK, BootOK
  <1> QED BY <1>2, <1>3

LEMMA EditTypes ==
  ASSUME PTypes, NEW e \in Edits, Edit(e)
  PROVE  PTypes'
  <1>1. edits[e] \in Job /\ EditOK(edits[e]) /\ prices \in [Models -> Price \cup {None}]
    BY DEF PTypes, PricesTypeOK
  <1>2. ASSUME edits' \in [Edits -> Job], \A t \in Edits : EditOK(edits'[t]),
               prices' \in [Models -> Price \cup {None}],
               history' \in [Models -> Amounts \cup {None}], met' \subseteq Models,
               mode' \in Mode, curated' \in [Models -> Amounts \cup {None}],
               UNCHANGED <<scrapes, process>>
        PROVE  PTypes'
    BY <1>2 DEF process, PTypes, PricesTypeOK, ScrapeOK, BootOK
  <1>3. ASSUME NEW m \in Models, FindPrice(e, m)
        PROVE  PTypes'
    <2>1. PICK amount \in Amounts :
            edits' = [edits EXCEPT ![e].step = "save", ![e].at = m, ![e].found[m] = amount,
                                   ![e].copies[m] = prices[m]]
      BY <1>3 DEF FindPrice
    <2> DEFINE job == [edits[e] EXCEPT !.step = "save", !.at = m, !.found[m] = amount,
                                       !.copies[m] = prices[m]]
    <2>2. edits' = [edits EXCEPT ![e] = job]
      BY <2>1
    <2>3. job \in Job
      BY <1>1 DEF Job
    <2>4. job.step = "save" /\ job.at = m /\ job.found[m] = amount
      BY <1>1 DEF Job
    <2>5. EditOK(job)
      BY <2>4, PricesAssumption DEF EditOK
    <2>6. edits' \in [Edits -> Job] /\ \A t \in Edits : EditOK(edits'[t])
      BY <2>2, <2>3, <2>5, EditMoves
    <2> QED BY <1>2, <1>3, <2>6 DEF FindPrice, tables, ghosts, process, PTypes, PricesTypeOK
  <1>4. CASE SavePrice(e)
    <2> DEFINE m == edits[e].at
               job == [edits[e] EXCEPT !.step = "record"]
    <2>1. m \in Models /\ edits[e].found[m] \in Amounts /\ m # None
      BY <1>1, <1>4 DEF SavePrice, EditOK, Job
    <2>2. prices' \in [Models -> Price \cup {None}]
      <3>1. Fresh(edits[e].found[m], "manual") \in Price
        BY <2>1, PricesOf
      <3> QED BY <1>1, <1>4, <2>1, <3>1 DEF SavePrice
    <2>3. job \in Job /\ EditOK(job) /\ edits' = [edits EXCEPT ![e] = job]
      BY <1>1, <1>4, <2>1 DEF SavePrice, EditOK, Job
    <2>4. edits' \in [Edits -> Job] /\ \A t \in Edits : EditOK(edits'[t])
      BY <2>3, EditMoves
    <2>5. met' \subseteq Models
      BY <1>4, <2>1, MetTypes DEF SavePrice
    <2>6. curated' \in [Models -> Amounts \cup {None}]
      BY <1>4, <2>1 DEF SavePrice, PTypes, PricesTypeOK
    <2>7. mode' \in Mode /\ history' \in [Models -> Amounts \cup {None}]
          /\ UNCHANGED <<scrapes, process>>
      BY <1>4 DEF SavePrice, PTypes, PricesTypeOK
    <2> QED BY <1>2, <2>2, <2>4, <2>5, <2>6, <2>7
  <1>5. CASE SavePriceClashes(e)
    <2>1. edits' \in [Edits -> Job] /\ \A t \in Edits : EditOK(edits'[t])
      BY <1>5, Parts, EditMoves DEF SavePriceClashes
    <2> QED BY <1>2, <1>5, <2>1 DEF SavePriceClashes, tables, ghosts, process, PTypes, PricesTypeOK
  <1>6. CASE RecordPrice(e)
    <2>1. edits' \in [Edits -> Job] /\ \A t \in Edits : EditOK(edits'[t])
      BY <1>6, Parts, EditMoves DEF RecordPrice
    <2>2. edits[e].at \in Models /\ edits[e].found[edits[e].at] \in Amounts
      BY <1>1, <1>6 DEF RecordPrice, EditOK, Job
    <2>3. history' \in [Models -> Amounts \cup {None}]
      BY <1>6, <2>2 DEF RecordPrice, PTypes, PricesTypeOK
    <2> QED BY <1>2, <1>6, <2>1, <2>3 DEF RecordPrice, ghosts, process, PTypes, PricesTypeOK
  <1>7. CASE FindProvider(e)
    <2>1. PICK asked \in Mode \cup {None} :
            edits' = [edits EXCEPT ![e].step = "save",
                                   ![e].mode = IF asked = None THEN mode ELSE asked]
      BY <1>7 DEF FindProvider
    <2> DEFINE new == IF asked = None THEN mode ELSE asked
               job == [edits[e] EXCEPT !.step = "save", !.mode = new]
    <2>2. new \in Mode
      BY DEF PTypes, PricesTypeOK
    <2>3. edits' = [edits EXCEPT ![e] = job]
      BY <2>1
    <2> HIDE DEF new
    <2>4. job \in Job /\ job.step = "save" /\ job.mode = new
          /\ job.at = edits[e].at /\ job.found = edits[e].found
      BY <1>1, <2>2 DEF Job
    <2>5. edits[e].at = None
      BY <1>1, <1>7 DEF FindProvider, EditOK
    <2> HIDE DEF job
    <2>6. EditOK(job)
      BY <2>2, <2>4, <2>5 DEF EditOK
    <2>7. edits' \in [Edits -> Job] /\ \A t \in Edits : EditOK(edits'[t])
      BY <2>3, <2>4, <2>6, EditMoves
    <2> QED BY <1>2, <1>7, <2>7 DEF FindProvider, tables, ghosts, process, PTypes, PricesTypeOK
  <1>8. CASE SaveProvider(e)
    <2>1. edits[e].mode \in Mode
      BY <1>1, <1>8 DEF SaveProvider, EditOK
    <2>2. mode' \in Mode /\ curated' \in [Models -> Amounts \cup {None}]
      BY <1>8, <2>1, ModeTypes DEF SaveProvider
    <2>3. edits' \in [Edits -> Job] /\ \A t \in Edits : EditOK(edits'[t])
      BY <1>8, Parts, EditMoves DEF SaveProvider
    <2> QED BY <1>2, <1>8, <2>2, <2>3 DEF process, SaveProvider, PTypes, PricesTypeOK, BootOK
  <1> QED BY <1>3, <1>4, <1>5, <1>6, <1>7, <1>8 DEF Edit

LEMMA RebootTypes ==
  ASSUME PTypes, Reboot, faults' \in 0 .. MaxFaults
  PROVE  PTypes'
  <1>1. \A p \in Jobs : Unrecorded(JobOf(p)) \subseteq Models
    <2>1. \A s \in Scrapes : Unrecorded(scrapes[s]) \subseteq Models
      BY DEF PTypes, PricesTypeOK, Unrecorded, ScrapeOK, Own
    <2>2. \A e \in Edits : Unrecorded(edits[e]) \subseteq Models
      BY DEF PTypes, PricesTypeOK, Unrecorded, EditOK, Job
    <2>3. Unrecorded(boot) \subseteq Models
      BY DEF PTypes, PricesTypeOK, Unrecorded, BootOK, Job
    <2> QED BY <2>1, <2>2, <2>3 DEF Jobs, JobOf
  <1>2. met' \subseteq Models
    BY <1>1 DEF Reboot, PTypes, PricesTypeOK
  <1>3. /\ scrapes' \in [Scrapes -> Job] /\ \A t \in Scrapes : ScrapeOK(scrapes'[t])
        /\ edits' \in [Edits -> Job] /\ \A t \in Edits : EditOK(edits'[t])
        /\ boot' \in Job /\ BootOK(boot')
    BY Parts DEF Reboot, PTypes, PricesTypeOK
  <1> QED BY <1>2, <1>3 DEF Reboot, tables, PTypes, PricesTypeOK

LEMMA FaultTypes ==
  ASSUME PTypes,
         \/ \E s \in Scrapes : ScrapeThrows(s)
         \/ \E e \in Edits : EditThrows(e)
         \/ Restart
  PROVE  PTypes'
  <1>1. ASSUME NEW s \in Scrapes, ScrapeThrows(s)
        PROVE  PTypes'
    <2>1. scrapes' \in [Scrapes -> Job] /\ \A t \in Scrapes : ScrapeOK(scrapes'[t])
      BY <1>1, Parts, ScrapeMoves DEF ScrapeThrows
    <2>2. Unrecorded(scrapes[s]) \subseteq Models
      <3>1. scrapes[s] \in Job /\ ScrapeOK(scrapes[s])
        BY DEF PTypes, PricesTypeOK
      <3> QED BY <3>1 DEF Unrecorded, ScrapeOK, Own
    <2>3. met' \subseteq Models /\ faults' \in 0 .. MaxFaults
      BY <1>1, <2>2, PricesAssumption DEF ScrapeThrows, PTypes, PricesTypeOK
    <2> QED BY <1>1, <2>1, <2>3 DEF ScrapeThrows, tables, PTypes, PricesTypeOK, EditOK
  <1>2. ASSUME NEW e \in Edits, EditThrows(e)
        PROVE  PTypes'
    <2>1. edits' \in [Edits -> Job] /\ \A t \in Edits : EditOK(edits'[t])
      BY <1>2, Parts, EditMoves DEF EditThrows
    <2>2. Unrecorded(edits[e]) \subseteq Models
      BY DEF PTypes, PricesTypeOK, Unrecorded, EditOK, Job
    <2>3. met' \subseteq Models /\ faults' \in 0 .. MaxFaults
      BY <1>2, <2>2, PricesAssumption DEF EditThrows, PTypes, PricesTypeOK
    <2> QED BY <1>2, <2>1, <2>3 DEF EditThrows, tables, PTypes, PricesTypeOK, ScrapeOK
  <1>3. CASE Restart
    <2>1. faults < MaxFaults /\ faults' = faults + 1
      BY <1>3 DEF Restart
    <2>2. faults' \in 0 .. MaxFaults
      BY <2>1, PricesAssumption DEF PTypes, PricesTypeOK
    <2> QED BY <1>3, <2>2, RebootTypes DEF Restart
  <1> QED BY <1>1, <1>2, <1>3

LEMMA SeedTypes ==
  ASSUME PTypes,
         \/ \E m \in Models : SeedFind(m)
         \/ SeedSave \/ SeedRecord \/ SeedEnds \/ SeedClashes
  PROVE  PTypes'
  <1>1. boot \in Job /\ BootOK(boot) /\ prices \in [Models -> Price \cup {None}]
    BY DEF PTypes, PricesTypeOK
  <1>2. ASSUME boot' \in Job, BootOK(boot'),
               prices' \in [Models -> Price \cup {None}],
               history' \in [Models -> Amounts \cup {None}], met' \subseteq Models,
               UNCHANGED <<mode, scrapes, edits, curated, faults>>
        PROVE  PTypes'
    BY <1>2 DEF PTypes, PricesTypeOK, ScrapeOK, EditOK
  <1>3. ASSUME NEW m \in Models, SeedFind(m)
        PROVE  PTypes'
    <2>1. boot.step = "next" /\ m \in boot.todo
      BY <1>3 DEF SeedFind
    <2>2. CASE boot' = [boot EXCEPT !.todo = boot.todo \ {m}]
      <3>1. boot' \in Job /\ BootOK(boot')
        BY <1>1, <2>1, <2>2 DEF Job, BootOK
      <3> QED BY <1>2, <1>3, <3>1 DEF SeedFind, tables, ghosts, PTypes, PricesTypeOK
    <2>3. CASE boot' = [boot EXCEPT !.step = "save", !.at = m]
      <3>1. boot' \in Job /\ BootOK(boot')
        BY <1>1, <2>1, <2>3 DEF Job, BootOK
      <3> QED BY <1>2, <1>3, <3>1 DEF SeedFind, tables, ghosts, PTypes, PricesTypeOK
    <2> QED BY <1>3, <2>2, <2>3 DEF SeedFind
  <1>4. CASE SeedSave
    <2> DEFINE m == boot.at
    <2>1. m \in Models /\ boot' = [boot EXCEPT !.step = "record"] /\ boot.step = "save"
          /\ prices' = [prices EXCEPT ![m] = Seeded(m)] /\ Meets("boot", m)
          /\ UNCHANGED <<mode, history, scrapes, edits, curated, faults>>
      BY <1>1, <1>4 DEF SeedSave, BootOK, Job
    <2>2. boot' \in Job /\ BootOK(boot')
      BY <1>1, <2>1 DEF Job, BootOK
    <2>3. prices' \in [Models -> Price \cup {None}]
      BY <1>1, <2>1, PricesOf
    <2>4. met' \subseteq Models
      BY <2>1, MetTypes
    <2> QED BY <1>2, <2>1, <2>2, <2>3, <2>4 DEF PTypes, PricesTypeOK
  <1>5. CASE SeedRecord
    <2>1. boot.at \in Models /\ boot.found[boot.at] \in Amounts /\ boot.step = "record"
          /\ boot' = Onward(boot)
      BY <1>1, <1>5 DEF SeedRecord, BootOK, Job
    <2>2. boot'.step = "next" /\ boot'.found = boot.found /\ boot'.copies = Idle.copies
          /\ boot'.todo \subseteq boot.todo /\ boot' \in Job
      BY <1>1, <2>1 DEF Onward, Job, Idle
    <2>3. BootOK(boot')
      BY <1>1, <2>1, <2>2 DEF BootOK
    <2>4. history' \in [Models -> Amounts \cup {None}]
      BY <1>5, <2>1 DEF SeedRecord, PTypes, PricesTypeOK
    <2> QED BY <1>2, <1>5, <2>2, <2>3, <2>4 DEF SeedRecord, ghosts, PTypes, PricesTypeOK
  <1>6. CASE SeedEnds
    BY <1>2, <1>6, Parts DEF SeedEnds, tables, ghosts, PTypes, PricesTypeOK
  <1>7. CASE SeedClashes
    BY <1>7, RebootTypes DEF SeedClashes, PTypes, PricesTypeOK
  <1> QED BY <1>3, <1>4, <1>5, <1>6, <1>7

LEMMA TypesInit == Init => PTypes
  BY Parts, PricesOf, PricesAssumption DEF Init, PTypes, PricesTypeOK

LEMMA TypesStep == PTypes /\ [Next]_vars => PTypes'
  <1> SUFFICES ASSUME PTypes, [Next]_vars
               PROVE  PTypes'
    OBVIOUS
  <1>1. CASE UNCHANGED vars
    BY <1>1 DEF vars, tables, ghosts, process, PTypes, PricesTypeOK, ScrapeOK, EditOK, BootOK
  <1>2. ASSUME NEW s \in Scrapes, Scrape(s)
        PROVE  PTypes'
    BY <1>2, LoadTypes, ApplyTypes, MarkTypes DEF Scrape
  <1> QED BY <1>1, <1>2, EditTypes, FaultTypes, SeedTypes DEF Next

----------------------------------------------------------------------------
(* Curated prices *)

\* A step that writes no price and no mode, after which a scrape has the mode it had or
\* has ended.
LEMMA CuratedKept ==
  ASSUME PTypes, Curated, UNCHANGED <<mode, prices, curated>>,
         \A s \in Scrapes : InFlight(scrapes'[s]) =>
           InFlight(scrapes[s]) /\ scrapes'[s].mode = scrapes[s].mode
  PROVE  Curated'
  BY DEF Curated

\* A new mode of the provider ends what is curated of models it leaves to the scraper.
LEMMA CuratedMode ==
  ASSUME PTypes, Curated, NEW new \in Mode, SetMode(new), prices' = prices,
         \A s \in Scrapes : InFlight(scrapes'[s]) =>
           InFlight(scrapes[s]) /\ scrapes'[s].mode = scrapes[s].mode
  PROVE  Curated'
  BY DEF Curated, SetMode

\* What a scrape writes is not curated.
LEMMA NotCurated ==
  ASSUME PTypes, Curated, NEW s \in Scrapes, InFlight(scrapes[s]),
         NEW m \in Own(scrapes[s])
  PROVE  curated[m] = None
  BY PricesAssumption DEF Curated, Own

LEMMA CuratedWrite ==
  ASSUME PTypes, Curated, NEW m \in Models, curated[m] = None, NEW price,
         prices' = [prices EXCEPT ![m] = price], UNCHANGED <<mode, curated>>,
         \A s \in Scrapes : InFlight(scrapes'[s]) =>
           InFlight(scrapes[s]) /\ scrapes'[s].mode = scrapes[s].mode
  PROVE  Curated'
  BY DEF Curated, PTypes, PricesTypeOK

LEMMA ScrapeCurated ==
  ASSUME PTypes, Curated, NEW s \in Scrapes, Scrape(s)
  PROVE  Curated'
  <1>1. scrapes[s] \in Job /\ ScrapeOK(scrapes[s])
    BY DEF PTypes, PricesTypeOK
  <1>2. ASSUME NEW job, scrapes' = [scrapes EXCEPT ![s] = job],
               InFlight(job) => InFlight(scrapes[s]) /\ job.mode = scrapes[s].mode
        PROVE  \A t \in Scrapes : InFlight(scrapes'[t]) =>
                 InFlight(scrapes[t]) /\ scrapes'[t].mode = scrapes[t].mode
    BY <1>2 DEF PTypes, PricesTypeOK
  <1>3. CASE Load(s)
    <2>1. /\ scrapes'[s].mode = mode
          /\ \A t \in Scrapes \ {s} : scrapes'[t] = scrapes[t]
      BY <1>1, <1>3 DEF Load, PTypes, PricesTypeOK, Job
    <2>2. UNCHANGED <<mode, prices, curated>>
      BY <1>3 DEF Load, tables, ghosts
    <2> QED BY <2>1, <2>2 DEF Curated
  <1>4. ASSUME UNCHANGED <<mode, prices, curated>>, scrapes[s].step # "idle",
               scrapes[s].step # "done",
               \/ Fetch(s) \/ FetchFails(s) \/ Missing(s) \/ \E m \in Models : Find(s, m)
        PROVE  Curated'
    <2>1. /\ scrapes'[s].mode = scrapes[s].mode
          /\ \A t \in Scrapes \ {s} : scrapes'[t] = scrapes[t]
      <3>1. CASE Fetch(s)
        BY <1>1, <3>1 DEF Fetch, PTypes, PricesTypeOK, Job
      <3>2. ASSUME NEW models, Degrade(s, models)
            PROVE  /\ scrapes'[s].mode = scrapes[s].mode
                   /\ \A t \in Scrapes \ {s} : scrapes'[t] = scrapes[t]
        BY <1>1, <3>2 DEF Degrade, PTypes, PricesTypeOK, Job
      <3>3. ASSUME NEW m \in Models, Find(s, m)
            PROVE  /\ scrapes'[s].mode = scrapes[s].mode
                   /\ \A t \in Scrapes \ {s} : scrapes'[t] = scrapes[t]
        BY <1>1, <3>3 DEF Find, PTypes, PricesTypeOK, Job
      <3> QED BY <1>4, <3>1, <3>2, <3>3 DEF FetchFails, Missing
    <2> QED BY <1>4, <2>1, CuratedKept DEF InFlight
  <1>5. CASE \/ Fetch(s) \/ FetchFails(s) \/ Missing(s) \/ \E m \in Models : Find(s, m)
    BY <1>4, <1>5 DEF Fetch, FetchFails, Missing, Find, tables, ghosts
  <1>6. CASE Save(s)
    <2> DEFINE m == scrapes[s].at
    <2>1. InFlight(scrapes[s]) /\ m \in Own(scrapes[s]) /\ m \in Models
      BY <1>1, <1>6 DEF Save, InFlight, ScrapeOK, Own
    <2>2. curated[m] = None
      BY <2>1, NotCurated
    <2>3. PICK job \in {[scrapes[s] EXCEPT !.step = "record", !.copies = Idle.copies],
                        Onward(scrapes[s])} : scrapes' = [scrapes EXCEPT ![s] = job]
      BY <1>6 DEF Save
    <2>4. job.mode = scrapes[s].mode
      BY <1>1, <2>3 DEF Onward, Job
    <2>5. UNCHANGED <<mode, curated>>
          /\ prices' = [prices EXCEPT ![m] = Fresh(scrapes[s].found[m], "scraped")]
      BY <1>6 DEF Save
    <2> QED BY <1>2, <2>1, <2>2, <2>3, <2>4, <2>5, CuratedWrite
  <1>7. CASE SaveClashes(s)
    BY <1>2, <1>7, Parts, CuratedKept DEF SaveClashes, tables, ghosts
  <1>8. CASE Record(s)
    <2>1. Onward(scrapes[s]).mode = scrapes[s].mode /\ InFlight(scrapes[s])
      BY <1>1, <1>8 DEF Onward, Job, Record, InFlight
    <2> QED BY <1>2, <1>8, <2>1, CuratedKept DEF Record, ghosts
  <1>9. ASSUME NEW m \in Models, MarkStale(s, m)
        PROVE  Curated'
    <2>1. InFlight(scrapes[s]) /\ m \in Own(scrapes[s])
      BY <1>1, <1>9 DEF MarkStale, InFlight, ScrapeOK
    <2>2. curated[m] = None
      BY <2>1, NotCurated
    <2>3. /\ scrapes'[s].mode = scrapes[s].mode
          /\ \A t \in Scrapes \ {s} : scrapes'[t] = scrapes[t]
      BY <1>1, <1>9 DEF MarkStale, PTypes, PricesTypeOK, Job
    <2>4. UNCHANGED <<mode, curated>>
          /\ prices' = [prices EXCEPT ![m] = Degraded(scrapes[s].copies[m])]
      BY <1>9 DEF MarkStale
    <2> QED BY <2>1, <2>2, <2>3, <2>4, CuratedWrite
  <1>10. CASE Close(s)
    <2>1. scrapes[s].mode \in Mode
      BY <1>1, <1>10 DEF Close, ScrapeOK, InFlight
    <2> QED BY <1>2, <1>10, <2>1, Parts, CuratedMode DEF Close
  <1> QED BY <1>3, <1>5, <1>6, <1>7, <1>8, <1>9, <1>10 DEF Scrape

LEMMA EditCurated ==
  ASSUME PTypes, Curated, NEW e \in Edits, Edit(e)
  PROVE  Curated'
  <1>1. edits[e] \in Job /\ EditOK(edits[e])
    BY DEF PTypes, PricesTypeOK
  <1>2. CASE SavePrice(e)
    <2> DEFINE m == edits[e].at
               amount == edits[e].found[m]
    <2>1. m \in Models /\ amount # None
      BY <1>1, <1>2 DEF SavePrice, EditOK, Job
    <2>2. prices'[m] = Fresh(amount, "manual")
          /\ \A n \in Models \ {m} : prices'[n] = prices[n] /\ curated'[n] = curated[n]
      BY <1>2, <2>1 DEF SavePrice, PTypes, PricesTypeOK
    <2>3. curated'[m] # None =>
            curated'[m] = amount /\ Effective(m, mode) = "manual"
            /\ \A s \in Scrapes : ~InFlight(scrapes[s])
      BY <1>2, <2>1 DEF SavePrice, PTypes, PricesTypeOK
    <2>4. Fresh(amount, "manual") # None /\ Fresh(amount, "manual").amount = amount
          /\ Fresh(amount, "manual").source = "manual"
      <3>1. amount \in Amounts
        BY <1>1, <2>1 DEF Job
      <3>2. Fresh(amount, "manual") \in Price
        BY <3>1, PricesOf
      <3> QED BY <3>2, PricesAssumption DEF Fresh
    <2>5. UNCHANGED <<mode, scrapes>>
      BY <1>2 DEF SavePrice
    <2> HIDE DEF m, amount
    <2> SUFFICES ASSUME NEW n \in Models, curated'[n] # None
                 PROVE  /\ prices'[n] # None /\ prices'[n].amount = curated'[n]
                        /\ prices'[n].source = "manual"
                        /\ Effective(n, mode) = "manual"
                        /\ \A s \in Scrapes : InFlight(scrapes[s]) =>
                             Effective(n, scrapes[s].mode) = "manual"
      BY <2>5 DEF Curated
    <2>6. CASE n = m
      BY <2>2, <2>3, <2>4, <2>6
    <2>7. CASE n # m
      BY <2>2, <2>7 DEF Curated
    <2> QED BY <2>6, <2>7
  <1>3. CASE SaveProvider(e)
    <2>1. edits[e].mode \in Mode
      BY <1>1, <1>3 DEF SaveProvider, EditOK
    <2> QED BY <1>3, <2>1, CuratedMode DEF SaveProvider
  <1>4. CASE SavePriceClashes(e) \/ RecordPrice(e) \/ FindProvider(e)
             \/ \E m \in Models : FindPrice(e, m)
    <2>1. UNCHANGED <<mode, prices, curated, scrapes>>
      BY <1>4 DEF SavePriceClashes, RecordPrice, FindProvider, FindPrice, tables, ghosts
    <2> QED BY <2>1, CuratedKept
  <1> QED BY <1>2, <1>3, <1>4 DEF Edit

LEMMA CuratedStep == PTypes /\ Curated /\ [Next]_vars => Curated'
  <1> SUFFICES ASSUME PTypes, Curated, [Next]_vars
               PROVE  Curated'
    OBVIOUS
  <1>1. CASE UNCHANGED vars
    BY <1>1 DEF vars, tables, ghosts, Curated
  <1>2. ASSUME NEW s \in Scrapes, ScrapeThrows(s)
        PROVE  Curated'
    <2>1. \A t \in Scrapes : InFlight(scrapes'[t]) => scrapes'[t] = scrapes[t]
      BY <1>2, Parts DEF ScrapeThrows, PTypes, PricesTypeOK
    <2> QED BY <1>2, <2>1, CuratedKept DEF ScrapeThrows, tables
  <1>3. ASSUME NEW e \in Edits, EditThrows(e)
        PROVE  Curated'
    BY <1>3, CuratedKept DEF EditThrows, tables
  <1>4. CASE Reboot
    BY <1>4, Parts, CuratedKept DEF Reboot, tables
  <1>5. CASE SeedSave
    <2> DEFINE m == boot.at
    <2>1. m \in Models /\ prices[m] = None
      BY <1>5, PricesAssumption
      DEF SeedSave, Inserts, PTypes, PricesTypeOK, BootOK, Job, Idle
    <2>2. curated[m] = None
      BY <2>1 DEF Curated
    <2>3. prices' = [prices EXCEPT ![m] = Seeded(m)]
          /\ UNCHANGED <<mode, scrapes, curated>>
      BY <1>5 DEF SeedSave
    <2> QED BY <2>1, <2>2, <2>3, CuratedWrite
  <1>6. CASE SeedRecord \/ SeedEnds \/ \E m \in Models : SeedFind(m)
    BY <1>6, CuratedKept DEF SeedRecord, SeedEnds, SeedFind, tables, ghosts
  <1> QED
    BY <1>1, <1>2, <1>3, <1>4, <1>5, <1>6, ScrapeCurated, EditCurated
    DEF Next, Restart, SeedClashes

----------------------------------------------------------------------------
(* The history *)

LEMMA JobsOf ==
  /\ \A s \in Scrapes : s \in Jobs /\ JobOf(s) = scrapes[s] /\ JobOf(s)' = scrapes'[s]
  /\ \A e \in Edits : e \in Jobs /\ JobOf(e) = edits[e] /\ JobOf(e)' = edits'[e]
  /\ "boot" \in Jobs /\ JobOf("boot") = boot /\ JobOf("boot")' = boot'
  BY PricesAssumption DEF Jobs, JobOf

OthersStay(o) == \A p \in Jobs \ {o} : JobOf(p)' = JobOf(p)

LEMMA ScrapeAlone ==
  ASSUME PTypes, NEW s \in Scrapes, UNCHANGED <<edits, boot>>,
         \E job : scrapes' = [scrapes EXCEPT ![s] = job]
  PROVE  OthersStay(s)
  BY DEF PTypes, PricesTypeOK, OthersStay, JobOf

LEMMA EditAlone ==
  ASSUME PTypes, NEW e \in Edits, UNCHANGED <<scrapes, boot>>,
         \E job : edits' = [edits EXCEPT ![e] = job]
  PROVE  OthersStay(e)
  BY DEF PTypes, PricesTypeOK, OthersStay, JobOf, Jobs

\* A model nobody met on: nobody else holds its row.
LEMMA NobodyElse ==
  ASSUME NEW o \in Jobs, NEW m, Meets(o, m), m \notin met'
  PROVE  \A p \in Jobs \ {o} : ~Holds(JobOf(p), m)
  BY DEF Meets, Jobs, JobOf

\* The step of a job that writes no price and no entry.
LEMMA QuietExplained ==
  ASSUME PTypes, Explained, NEW o \in Jobs, OthersStay(o),
         UNCHANGED <<prices, history>>, met \subseteq met',
         JobOf(o).step = "record" => JobOf(o).at \in met',
         \A m \in Models \ met' : Copied(JobOf(o), m)'
  PROVE  Explained'
  <1> SUFFICES ASSUME NEW m \in Models, m \notin met'
               PROVE  Told(m)' /\ \A p \in Jobs : Copied(JobOf(p), m)'
    BY DEF Explained
  <1>1. m \notin met /\ Told(m) /\ \A p \in Jobs : Copied(JobOf(p), m)
    BY DEF Explained
  <1>2. \A p \in Jobs : Copied(JobOf(p), m)'
    BY <1>1 DEF OthersStay, Copied
  <1>3. Recording(m) => Recording(m)'
    BY DEF Recording, OthersStay
  <1> QED BY <1>1, <1>2, <1>3 DEF Told

\* The step of a job that saves the row of a model.
LEMMA WriteExplained ==
  ASSUME PTypes, Explained, NEW o \in Jobs, OthersStay(o), NEW m \in Models, Meets(o, m),
         NEW price, price # None, prices' = [prices EXCEPT ![m] = price],
         history' = history, JobOf(o).step # "record",
         \A n \in Models \ met' : Copied(JobOf(o), n)',
         m \notin met' => \/ JobOf(o)'.step = "record" /\ JobOf(o)'.at = m
                          \/ history[m] = price.amount
  PROVE  Explained'
  <1>1. met \subseteq met' /\ prices'[m] = price
        /\ \A n \in Models \ {m} : prices'[n] = prices[n]
    BY MetTypes DEF PTypes, PricesTypeOK
  <1> SUFFICES ASSUME NEW n \in Models, n \notin met'
               PROVE  Told(n)' /\ \A p \in Jobs : Copied(JobOf(p), n)'
    BY DEF Explained
  <1>2. n \notin met /\ Told(n) /\ \A p \in Jobs : Copied(JobOf(p), n)
    BY <1>1 DEF Explained
  <1>3. CASE n = m
    <2>1. \A p \in Jobs \ {o} : ~Holds(JobOf(p), m) /\ JobOf(p)' = JobOf(p)
      BY <1>3, NobodyElse DEF OthersStay
    <2>2. \A p \in Jobs : Copied(JobOf(p), n)'
      BY <1>3, <2>1 DEF Copied, Holds
    <2>3. Told(n)'
      BY <1>1, <1>3 DEF Told, Recording
    <2> QED BY <2>2, <2>3
  <1>4. CASE n # m
    <2>1. \A p \in Jobs : Copied(JobOf(p), n)'
      BY <1>1, <1>2, <1>4 DEF OthersStay, Copied
    <2>2. Recording(n) => Recording(n)'
      BY DEF Recording, OthersStay
    <2> QED BY <1>1, <1>2, <1>4, <2>1, <2>2 DEF Told
  <1> QED BY <1>3, <1>4

\* The step of a job that records the amount it saved.
LEMMA RecordExplained ==
  ASSUME PTypes, Explained, NEW o \in Jobs, OthersStay(o), NEW m \in Models,
         JobOf(o).step = "record", JobOf(o).at = m,
         history' = [history EXCEPT ![m] = JobOf(o).found[m]],
         UNCHANGED <<prices, met>>, JobOf(o)'.step \notin {"save", "degrade", "record"}
  PROVE  Explained'
  <1> SUFFICES ASSUME NEW n \in Models, n \notin met'
               PROVE  Told(n)' /\ \A p \in Jobs : Copied(JobOf(p), n)'
    BY DEF Explained
  <1>1. n \notin met /\ Told(n) /\ \A p \in Jobs : Copied(JobOf(p), n)
    BY DEF Explained
  <1>2. \A p \in Jobs : Copied(JobOf(p), n)'
    BY <1>1 DEF OthersStay, Copied
  <1>3. CASE n = m
    <2>1. prices[m] # None /\ prices[m].amount = JobOf(o).found[m]
      BY <1>1, <1>3 DEF Copied
    <2>2. history'[m] = JobOf(o).found[m]
      BY DEF PTypes, PricesTypeOK
    <2> QED BY <1>2, <1>3, <2>1, <2>2 DEF Told
  <1>4. CASE n # m
    <2>1. Recording(n) => Recording(n)'
      BY <1>4 DEF Recording, OthersStay
    <2>2. history'[n] = history[n]
      BY <1>4 DEF PTypes, PricesTypeOK
    <2> QED BY <1>1, <1>2, <2>1, <2>2 DEF Told
  <1> QED BY <1>3, <1>4

\* A job that holds nothing.
LEMMA HoldsNothing ==
  ASSUME NEW p, JobOf(p)'.step \notin {"save", "degrade", "record"}
  PROVE  \A m : Copied(JobOf(p), m)'
  BY DEF Copied

LEMMA LoadExplained ==
  ASSUME PTypes, Explained, NEW s \in Scrapes,
         \/ Load(s) \/ Fetch(s) \/ FetchFails(s) \/ Missing(s) \/ Close(s) \/ SaveClashes(s)
         \/ \E m \in Models : Find(s, m)
  PROVE  Explained'
  <1>1. scrapes[s] \in Job /\ scrapes \in [Scrapes -> Job]
        /\ prices \in [Models -> Price \cup {None}]
        /\ s \in Jobs /\ JobOf(s) = scrapes[s] /\ JobOf(s)' = scrapes'[s]
    BY JobsOf DEF PTypes, PricesTypeOK
  <1>2. UNCHANGED <<prices, history, met, edits, boot>> /\ scrapes[s].step # "record"
    BY DEF Load, Fetch, FetchFails, Missing, Close, SaveClashes, Find, tables, ghosts, process
  <1>3. ASSUME \E job : scrapes' = [scrapes EXCEPT ![s] = job],
               \A m \in Models : Copied(JobOf(s), m)'
        PROVE  Explained'
    BY <1>1, <1>2, <1>3, ScrapeAlone, QuietExplained
  <1>4. ASSUME NEW job, scrapes' = [scrapes EXCEPT ![s] = job],
               job.step \notin {"save", "degrade", "record"}
        PROVE  Explained'
    BY <1>1, <1>3, <1>4, HoldsNothing
  <1>5. CASE Load(s)
    <2> DEFINE job == [scrapes[s] EXCEPT !.step = "fetch", !.mode = mode]
    <2>1. scrapes' = [scrapes EXCEPT ![s] = job] /\ job.step = "fetch"
      BY <1>1, <1>5 DEF Load, Job
    <2> HIDE DEF job
    <2> QED BY <1>4, <2>1
  <1>6. CASE Fetch(s)
    <2>1. PICK found \in Pages :
            scrapes' = [scrapes EXCEPT ![s].step = "next", ![s].found = found,
                          ![s].todo = {m \in Scraped(s) : found[m] # None}]
      BY <1>6 DEF Fetch
    <2> DEFINE todo == {m \in Scraped(s) : found[m] # None}
               job == [scrapes[s] EXCEPT !.step = "next", !.found = found, !.todo = todo]
    <2>2. scrapes' = [scrapes EXCEPT ![s] = job] /\ job.step = "next"
      BY <1>1, <2>1 DEF Job
    <2> HIDE DEF job
    <2> QED BY <1>4, <2>2
  <1>7. ASSUME NEW models, Degrade(s, models)
        PROVE  Explained'
    <2> DEFINE todo == {m \in models : prices[m] # None}
               job == [scrapes[s] EXCEPT !.step = "degrade", !.at = None, !.todo = todo,
                                         !.copies = prices]
    <2>1. scrapes' = [scrapes EXCEPT ![s] = job]
      BY <1>7 DEF Degrade
    <2>2. job.step = "degrade" /\ job.copies = prices
      BY <1>1 DEF Job
    <2> HIDE DEF job
    <2>3. \A m \in Models : Copied(JobOf(s), m)'
      BY <1>1, <1>2, <2>1, <2>2 DEF Copied
    <2> QED BY <1>3, <2>1, <2>3
  <1>8. ASSUME NEW m \in Models, Find(s, m)
        PROVE  Explained'
    <2> DEFINE job == [scrapes[s] EXCEPT !.step = "save", !.at = m, !.copies[m] = prices[m]]
    <2>1. scrapes' = [scrapes EXCEPT ![s] = job]
      BY <1>1, <1>8 DEF Find, Job
    <2>2. job.step = "save" /\ job.at = m /\ job.copies[m] = prices[m]
      BY <1>1 DEF Job
    <2> HIDE DEF job
    <2>3. \A n \in Models : Copied(JobOf(s), n)'
      BY <1>1, <1>2, <2>1, <2>2 DEF Copied
    <2> QED BY <1>3, <2>1, <2>3
  <1>9. CASE Close(s) \/ SaveClashes(s)
    <2>1. scrapes' = [scrapes EXCEPT ![s] = Done] /\ Done.step = "done"
      BY <1>9 DEF Close, SaveClashes, Done, Idle
    <2> QED BY <1>4, <2>1
  <1> QED BY <1>5, <1>6, <1>7, <1>8, <1>9 DEF FetchFails, Missing

LEMMA ApplyExplained ==
  ASSUME PTypes, Explained, NEW s \in Scrapes, Save(s) \/ Record(s)
  PROVE  Explained'
  <1> DEFINE m == scrapes[s].at
  <1>1. scrapes[s] \in Job /\ scrapes \in [Scrapes -> Job] /\ ScrapeOK(scrapes[s])
        /\ s \in Jobs /\ JobOf(s) = scrapes[s] /\ JobOf(s)' = scrapes'[s]
    BY JobsOf DEF PTypes, PricesTypeOK
  <1>2. m \in Models /\ scrapes[s].found[m] \in Amounts
    BY <1>1 DEF Save, Record, ScrapeOK, Own, Job
  <1>3. Onward(scrapes[s]).step = "next"
    BY <1>1 DEF Onward, Job
  <1>4. CASE Record(s)
    <2>1. OthersStay(s)
      BY <1>4, ScrapeAlone DEF Record, process
    <2>2. scrapes'[s] = Onward(scrapes[s])
      BY <1>1, <1>4 DEF Record
    <2>3. /\ JobOf(s).step = "record" /\ JobOf(s).at = m
          /\ history' = [history EXCEPT ![m] = JobOf(s).found[m]]
          /\ UNCHANGED <<prices, met>>
      BY <1>1, <1>4 DEF Record, ghosts
    <2> HIDE DEF m
    <2> QED BY <1>1, <1>2, <1>3, <2>1, <2>2, <2>3, RecordExplained
  <1>5. CASE Save(s)
    <2> DEFINE price == Fresh(scrapes[s].found[m], "scraped")
               recorded == [scrapes[s] EXCEPT !.step = "record", !.copies = Idle.copies]
    <2>1. price \in Price /\ price.amount = scrapes[s].found[m]
      BY <1>2, PricesOf DEF Fresh
    <2>2. /\ recorded.step = "record" /\ recorded.at = m
          /\ recorded.found = scrapes[s].found
      BY <1>1 DEF Job
    <2>3. /\ prices' = [prices EXCEPT ![m] = price] /\ Meets(s, m)
          /\ history' = history /\ edits' = edits /\ scrapes[s].step = "save"
      BY <1>5 DEF Save
    <2>4. prices'[m] = price
      BY <1>2, <2>3 DEF PTypes, PricesTypeOK
    <2>5. OthersStay(s)
      BY <1>5, ScrapeAlone DEF Save, process
    <2>6. \/ scrapes'[s] = recorded
          \/ scrapes'[s] = Onward(scrapes[s]) /\ ~Changed(scrapes[s].copies[m], scrapes[s].found[m])
      BY <1>1, <1>5 DEF Save
    <2> HIDE DEF m, price, recorded
    <2>7. \A n \in Models : Copied(JobOf(s), n)'
      BY <1>1, <1>3, <2>1, <2>2, <2>4, <2>6, PricesAssumption DEF Copied
    <2>8. ASSUME m \notin met', scrapes'[s] = Onward(scrapes[s])
          PROVE  history[m] = price.amount
      <3>1. m \notin met
        BY <1>2, <2>3, <2>8, MetTypes
      <3>2. scrapes[s].copies[m] # None /\ scrapes[s].copies[m].amount = scrapes[s].found[m]
        BY <1>3, <2>2, <2>6, <2>8 DEF Changed
      <3>3. scrapes[s].copies[m] = prices[m]
        BY <1>1, <1>2, <2>3, <3>1 DEF Explained, Copied, m
      <3>4. ~Recording(m)
        BY <1>1, <2>3, <2>8, NobodyElse DEF Recording, Holds
      <3> QED BY <1>2, <2>1, <3>1, <3>2, <3>3, <3>4 DEF Explained, Told
    <2>9. m \notin met' => \/ JobOf(s)'.step = "record" /\ JobOf(s)'.at = m
                           \/ history[m] = price.amount
      BY <1>1, <2>2, <2>6, <2>8
    <2>10. price # None /\ JobOf(s).step # "record"
      BY <1>1, <2>1, <2>3, PricesAssumption
    <2> QED BY <1>1, <1>2, <2>3, <2>5, <2>7, <2>9, <2>10, WriteExplained
  <1> QED BY <1>4, <1>5

LEMMA MarkExplained ==
  ASSUME PTypes, Explained, NEW s \in Scrapes, NEW m \in Models, MarkStale(s, m)
  PROVE  /\ Explained'
         /\ m \notin met' => scrapes[s].copies[m] = prices[m]
  <1> DEFINE price == Degraded(scrapes[s].copies[m])
             job == [scrapes[s] EXCEPT !.todo = scrapes[s].todo \ {m}]
  <1>1. scrapes[s] \in Job /\ scrapes \in [Scrapes -> Job] /\ ScrapeOK(scrapes[s])
        /\ s \in Jobs /\ JobOf(s) = scrapes[s] /\ JobOf(s)' = scrapes'[s]
    BY JobsOf DEF PTypes, PricesTypeOK
  <1>2. /\ scrapes[s].step = "degrade" /\ m \in scrapes[s].todo
        /\ prices' = [prices EXCEPT ![m] = price] /\ Meets(s, m)
        /\ UNCHANGED <<history, edits, boot>> /\ scrapes' = [scrapes EXCEPT ![s] = job]
    BY <1>1 DEF MarkStale, Job, process
  <1>3. scrapes[s].copies[m] \in Price
    BY <1>1, <1>2 DEF ScrapeOK, Job
  <1>4. price \in Price /\ price.amount = scrapes[s].copies[m].amount
    <2>1. price \in Price
      BY <1>3, PricesOf
    <2>2. price.amount = scrapes[s].copies[m].amount
      BY <1>3 DEF Degraded, Price
    <2> QED BY <2>1, <2>2
  <1>5. /\ scrapes'[s].step = "degrade" /\ scrapes'[s].todo = scrapes[s].todo \ {m}
        /\ scrapes'[s].copies = scrapes[s].copies
    BY <1>1, <1>2 DEF Job
  <1>6. OthersStay(s)
    BY <1>2, ScrapeAlone
  <1>7. \A n \in Models \ {m} : prices'[n] = prices[n]
    BY <1>2 DEF PTypes, PricesTypeOK
  <1>8. met \subseteq met'
    BY <1>2, MetTypes
  <1> HIDE DEF price, job
  <1>9. \A n \in Models \ met' : Copied(JobOf(s), n)'
    <2> SUFFICES ASSUME NEW n \in Models \ met'
                 PROVE  Copied(JobOf(s), n)'
      OBVIOUS
    <2>1. Copied(scrapes[s], n)
      BY <1>1, <1>8 DEF Explained
    <2> QED BY <1>1, <1>2, <1>5, <1>7, <2>1 DEF Copied
  <1>10. ASSUME m \notin met'
         PROVE  scrapes[s].copies[m] = prices[m] /\ history[m] = price.amount
    <2>1. m \notin met /\ Copied(scrapes[s], m) /\ Told(m)
      BY <1>1, <1>8, <1>10 DEF Explained
    <2>2. scrapes[s].copies[m] = prices[m]
      BY <1>2, <2>1 DEF Copied
    <2>3. ~Recording(m)
      BY <1>1, <1>2, <1>10, NobodyElse DEF Recording, Holds
    <2> QED BY <1>3, <1>4, <2>1, <2>2, <2>3, PricesAssumption DEF Told
  <1>11. price # None /\ JobOf(s).step # "record"
    BY <1>1, <1>2, <1>4, PricesAssumption
  <1>12. Explained'
    BY <1>1, <1>2, <1>6, <1>9, <1>10, <1>11, WriteExplained
  <1> QED BY <1>10, <1>12

LEMMA EditExplained ==
  ASSUME PTypes, Explained, NEW e \in Edits, Edit(e)
  PROVE  Explained'
  <1>1. edits[e] \in Job /\ edits \in [Edits -> Job] /\ EditOK(edits[e])
        /\ e \in Jobs /\ JobOf(e) = edits[e] /\ JobOf(e)' = edits'[e]
    BY JobsOf DEF PTypes, PricesTypeOK
  <1>2. ASSUME UNCHANGED <<prices, history, met, scrapes, boot>>, edits[e].step # "record",
               \E job : edits' = [edits EXCEPT ![e] = job],
               \A m \in Models : Copied(JobOf(e), m)'
        PROVE  Explained'
    BY <1>1, <1>2, EditAlone, QuietExplained
  <1>3. ASSUME NEW m \in Models, FindPrice(e, m)
        PROVE  Explained'
    <2>1. PICK amount \in Amounts :
            edits' = [edits EXCEPT ![e].step = "save", ![e].at = m, ![e].found[m] = amount,
                                   ![e].copies[m] = prices[m]]
      BY <1>3 DEF FindPrice
    <2> DEFINE job == [edits[e] EXCEPT !.step = "save", !.at = m, !.found[m] = amount,
                                       !.copies[m] = prices[m]]
    <2>2. edits' = [edits EXCEPT ![e] = job]
      BY <1>1, <2>1 DEF Job
    <2>3. job.step = "save" /\ job.at = m /\ job.copies[m] = prices[m]
      BY <1>1 DEF Job
    <2>4. UNCHANGED <<prices, history, met, scrapes, boot>> /\ edits[e].step # "record"
      BY <1>3 DEF FindPrice, tables, ghosts, process
    <2> HIDE DEF job
    <2>5. \A n \in Models : Copied(JobOf(e), n)'
      BY <1>1, <2>2, <2>3, <2>4 DEF Copied
    <2> QED BY <1>2, <2>2, <2>4, <2>5
  <1>4. CASE FindProvider(e)
    <2>1. PICK asked \in Mode \cup {None} :
            edits' = [edits EXCEPT ![e].step = "save",
                                   ![e].mode = IF asked = None THEN mode ELSE asked]
      BY <1>4 DEF FindProvider
    <2> DEFINE new == IF asked = None THEN mode ELSE asked
               job == [edits[e] EXCEPT !.step = "save", !.mode = new]
    <2>2. edits' = [edits EXCEPT ![e] = job]
      BY <1>1, <2>1 DEF Job
    <2>3. job.step = "save" /\ job.at = edits[e].at
      BY <1>1 DEF Job
    <2>4. edits[e].at = None
      BY <1>1, <1>4 DEF FindProvider, EditOK
    <2>5. UNCHANGED <<prices, history, met, scrapes, boot>> /\ edits[e].step # "record"
      BY <1>4 DEF FindProvider, tables, ghosts, process
    <2> HIDE DEF job
    <2>6. \A n \in Models : Copied(JobOf(e), n)'
      BY <1>1, <2>2, <2>3, <2>4, PricesAssumption DEF Copied
    <2> QED BY <1>2, <2>2, <2>5, <2>6
  <1>5. CASE SaveProvider(e) \/ SavePriceClashes(e)
    <2>1. UNCHANGED <<prices, history, met, scrapes, boot>> /\ edits[e].step # "record"
          /\ edits' = [edits EXCEPT ![e] = Done]
      BY <1>5 DEF SaveProvider, SavePriceClashes, tables, ghosts, process
    <2>2. edits'[e].step = "done"
      BY <1>1, <2>1 DEF Done, Idle
    <2> QED BY <1>1, <1>2, <2>1, <2>2, HoldsNothing
  <1>6. CASE SavePrice(e)
    <2> DEFINE m == edits[e].at
               price == Fresh(edits[e].found[m], "manual")
               job == [edits[e] EXCEPT !.step = "record"]
    <2>1. m \in Models /\ edits[e].found[m] \in Amounts
      BY <1>1, <1>6 DEF SavePrice, EditOK, Job
    <2>2. price \in Price /\ price.amount = edits[e].found[m]
      BY <2>1, PricesOf DEF Fresh
    <2>3. /\ prices' = [prices EXCEPT ![m] = price] /\ Meets(e, m)
          /\ UNCHANGED <<history, scrapes, boot>> /\ edits[e].step = "save"
          /\ edits' = [edits EXCEPT ![e] = job]
      BY <1>1, <1>6 DEF SavePrice, Job, process
    <2>4. edits'[e].step = "record" /\ edits'[e].at = m /\ edits'[e].found = edits[e].found
      BY <1>1, <2>3 DEF Job
    <2>5. prices'[m] = price
      BY <2>1, <2>3 DEF PTypes, PricesTypeOK
    <2>6. OthersStay(e)
      BY <2>3, EditAlone
    <2> HIDE DEF m, price, job
    <2>7. \A n \in Models : Copied(JobOf(e), n)'
      BY <1>1, <2>2, <2>4, <2>5, PricesAssumption DEF Copied
    <2>8. price # None /\ JobOf(e).step # "record"
      BY <1>1, <2>2, <2>3, PricesAssumption
    <2> QED BY <1>1, <2>1, <2>3, <2>4, <2>6, <2>7, <2>8, WriteExplained
  <1>7. CASE RecordPrice(e)
    <2> DEFINE m == edits[e].at
    <2>1. m \in Models
      BY <1>1, <1>7 DEF RecordPrice, EditOK, Job
    <2>2. /\ history' = [history EXCEPT ![m] = edits[e].found[m]]
          /\ UNCHANGED <<prices, met, scrapes, boot>> /\ edits[e].step = "record"
          /\ edits' = [edits EXCEPT ![e] = Done]
      BY <1>7 DEF RecordPrice, ghosts, process
    <2>3. edits'[e].step = "done"
      BY <1>1, <2>2 DEF Done, Idle
    <2>4. OthersStay(e)
      BY <2>2, EditAlone
    <2> HIDE DEF m
    <2>5. JobOf(e).at = m
      BY <1>1 DEF m
    <2> QED BY <1>1, <2>1, <2>2, <2>3, <2>4, <2>5, RecordExplained
  <1> QED BY <1>3, <1>4, <1>5, <1>6, <1>7 DEF Edit

\* Nothing is in flight after a reboot, and what was not recorded is met.
LEMMA RebootExplained ==
  ASSUME PTypes, Explained, Reboot
  PROVE  Explained'
  <1> SUFFICES ASSUME NEW m \in Models, m \notin met'
               PROVE  Told(m)' /\ \A p \in Jobs : Copied(JobOf(p), m)'
    BY DEF Explained
  <1>1. Done.step = "done" /\ Booting.step = "next"
    BY DEF Done, Booting, Idle
  <1>2. \A p \in Jobs : JobOf(p)'.step \in {"idle", "next", "done"}
    BY <1>1 DEF Reboot, InFlight, Jobs, JobOf
  <1>3. m \notin met /\ ~Recording(m)
    BY DEF Reboot, Unrecorded, Recording
  <1>4. history[m] = IF prices[m] = None THEN None ELSE prices[m].amount
    BY <1>3 DEF Explained, Told
  <1> QED BY <1>2, <1>4 DEF Reboot, tables, Told, Copied

LEMMA FaultExplained ==
  ASSUME PTypes, Explained,
         \/ \E s \in Scrapes : ScrapeThrows(s)
         \/ \E e \in Edits : EditThrows(e)
         \/ Restart
  PROVE  Explained'
  <1>0. Done.step = "done"
    BY DEF Done, Idle
  <1>1. ASSUME NEW s \in Scrapes, ScrapeThrows(s)
        PROVE  Explained'
    <2>1. s \in Jobs /\ JobOf(s) = scrapes[s] /\ JobOf(s)' = scrapes'[s]
      BY JobsOf
    <2>2. /\ UNCHANGED <<prices, history, edits, boot>>
          /\ scrapes' = [scrapes EXCEPT ![s] = Done]
          /\ met' = met \cup Unrecorded(scrapes[s])
      BY <1>1 DEF ScrapeThrows, tables
    <2>3. scrapes'[s].step = "done"
      BY <1>0, <2>2 DEF PTypes, PricesTypeOK
    <2>4. scrapes[s].step = "record" => scrapes[s].at \in met'
      BY <2>2 DEF Unrecorded
    <2>5. OthersStay(s)
      BY <2>2, ScrapeAlone
    <2> QED BY <2>1, <2>2, <2>3, <2>4, <2>5, HoldsNothing, QuietExplained
  <1>2. ASSUME NEW e \in Edits, EditThrows(e)
        PROVE  Explained'
    <2>1. e \in Jobs /\ JobOf(e) = edits[e] /\ JobOf(e)' = edits'[e]
      BY JobsOf
    <2>2. /\ UNCHANGED <<prices, history, scrapes, boot>>
          /\ edits' = [edits EXCEPT ![e] = Done]
          /\ met' = met \cup Unrecorded(edits[e])
      BY <1>2 DEF EditThrows, tables
    <2>3. edits'[e].step = "done"
      BY <1>0, <2>2 DEF PTypes, PricesTypeOK
    <2>4. edits[e].step = "record" => edits[e].at \in met'
      BY <2>2 DEF Unrecorded
    <2>5. OthersStay(e)
      BY <2>2, EditAlone
    <2> QED BY <2>1, <2>2, <2>3, <2>4, <2>5, HoldsNothing, QuietExplained
  <1>3. CASE Restart
    BY <1>3, RebootExplained DEF Restart
  <1> QED BY <1>1, <1>2, <1>3

LEMMA SeedExplained ==
  ASSUME PTypes, Explained,
         \/ \E m \in Models : SeedFind(m)
         \/ SeedSave \/ SeedRecord \/ SeedEnds \/ SeedClashes
  PROVE  Explained'
  <1>1. boot \in Job /\ BootOK(boot) /\ prices \in [Models -> Price \cup {None}]
        /\ "boot" \in Jobs /\ JobOf("boot") = boot /\ JobOf("boot")' = boot'
    BY JobsOf DEF PTypes, PricesTypeOK
  <1>2. UNCHANGED <<scrapes, edits>> => OthersStay("boot")
    BY DEF OthersStay, Jobs, JobOf
  <1>3. ASSUME UNCHANGED <<prices, history, met, scrapes, edits>>, boot.step # "record",
               \A m \in Models : Copied(JobOf("boot"), m)'
        PROVE  Explained'
    BY <1>1, <1>2, <1>3, QuietExplained
  <1>4. ASSUME NEW m \in Models, SeedFind(m)
        PROVE  Explained'
    <2>1. boot.step = "next" /\ UNCHANGED <<prices, history, met, scrapes, edits>>
      BY <1>4 DEF SeedFind, tables, ghosts
    <2>2. CASE boot' = [boot EXCEPT !.todo = boot.todo \ {m}]
      <3>1. boot'.step = "next"
        BY <1>1, <2>1, <2>2 DEF Job
      <3> QED BY <1>1, <1>3, <2>1, <3>1, HoldsNothing
    <2>3. CASE boot' = [boot EXCEPT !.step = "save", !.at = m] /\ prices[m] = None
      <3>1. boot'.step = "save" /\ boot'.at = m /\ boot'.copies[m] = None
        BY <1>1, <2>1, <2>3 DEF Job, BootOK, Idle
      <3>2. \A n \in Models : Copied(JobOf("boot"), n)'
        BY <1>1, <2>1, <2>3, <3>1, PricesAssumption DEF Copied
      <3> QED BY <1>3, <2>1, <3>2
    <2> QED BY <1>4, <2>2, <2>3 DEF SeedFind
  <1>5. CASE SeedSave
    <2> DEFINE m == boot.at
               price == Seeded(m)
    <2>1. m \in Models /\ Seed[m] \in Amounts /\ boot.found[m] = Seed[m]
      <3>1. boot.step = "save"
        BY <1>5 DEF SeedSave
      <3>2. m \in Models /\ Seed[m] # None /\ boot.found = Seed
        BY <1>1, <3>1 DEF BootOK, Job
      <3> QED BY <3>2, PricesAssumption
    <2>2. price \in Price /\ price.amount = Seed[m]
      <3>1. price = Fresh(Seed[m],
                          IF Effective(m, DefaultMode) = "manual" THEN "manual" ELSE "fallback")
        BY <2>1, PricesAssumption DEF Seeded
      <3>2. price.amount = Seed[m]
        BY <3>1 DEF Fresh
      <3> QED BY <2>1, <3>1, <3>2, PricesOf
    <2>3. /\ prices' = [prices EXCEPT ![m] = price] /\ Meets("boot", m)
          /\ UNCHANGED <<history, scrapes, edits>> /\ boot.step = "save"
          /\ boot' = [boot EXCEPT !.step = "record"]
      BY <1>5 DEF SeedSave
    <2>4. boot'.step = "record" /\ boot'.at = m /\ boot'.found = boot.found
      BY <1>1, <2>3 DEF Job
    <2>5. prices'[m] = price
      BY <1>1, <2>1, <2>3
    <2> HIDE DEF m, price
    <2>6. \A n \in Models : Copied(JobOf("boot"), n)'
      BY <1>1, <2>1, <2>2, <2>4, <2>5, PricesAssumption DEF Copied
    <2>7. price # None /\ JobOf("boot").step # "record"
      BY <1>1, <2>2, <2>3, PricesAssumption
    <2> QED BY <1>1, <1>2, <2>1, <2>3, <2>4, <2>6, <2>7, WriteExplained
  <1>6. CASE SeedRecord
    <2> DEFINE m == boot.at
    <2>1. m \in Models
      BY <1>1, <1>6 DEF SeedRecord, BootOK, Job
    <2>2. /\ history' = [history EXCEPT ![m] = boot.found[m]]
          /\ UNCHANGED <<prices, met, scrapes, edits>> /\ boot.step = "record"
          /\ boot' = Onward(boot)
      BY <1>6 DEF SeedRecord, ghosts
    <2>3. boot'.step = "next"
      BY <1>1, <2>2 DEF Onward, Job
    <2> HIDE DEF m
    <2>4. JobOf("boot").at = m
      BY <1>1 DEF m
    <2> QED BY <1>1, <1>2, <2>1, <2>2, <2>3, <2>4, RecordExplained
  <1>7. CASE SeedEnds
    <2>1. boot'.step = "done" /\ boot.step = "next"
          /\ UNCHANGED <<prices, history, met, scrapes, edits>>
      BY <1>7 DEF SeedEnds, Done, Idle, tables, ghosts
    <2> QED BY <1>1, <1>3, <2>1, HoldsNothing
  <1>8. CASE SeedClashes
    BY <1>8, RebootExplained DEF SeedClashes
  <1> QED BY <1>4, <1>5, <1>6, <1>7, <1>8

LEMMA ExplainedStep == PTypes /\ Explained /\ [Next]_vars => Explained'
  <1> SUFFICES ASSUME PTypes, Explained, [Next]_vars
               PROVE  Explained'
    OBVIOUS
  <1>1. CASE UNCHANGED vars
    BY <1>1
    DEF vars, tables, ghosts, process, Explained, Told, Recording, Copied, Jobs, JobOf
  <1>2. ASSUME NEW s \in Scrapes, Scrape(s)
        PROVE  Explained'
    BY <1>2, LoadExplained, ApplyExplained, MarkExplained DEF Scrape
  <1> QED BY <1>1, <1>2, EditExplained, FaultExplained, SeedExplained DEF Next

----------------------------------------------------------------------------
(* The theorems *)

LEMMA Starts == Init => PInv
  <1> SUFFICES ASSUME Init
               PROVE  PInv
    OBVIOUS
  <1>1. Curated
    BY DEF Init, Curated
  <1>2. Explained
    <2> SUFFICES ASSUME NEW m \in Models
                 PROVE  Told(m) /\ \A p \in Jobs : Copied(JobOf(p), m)
      BY DEF Explained
    <2>1. \A p \in Jobs : JobOf(p).step \in {"idle", "next"}
      BY DEF Init, Jobs, JobOf, Booting, Idle
    <2>2. prices[m] = None /\ history[m] = None
      BY DEF Init
    <2> QED BY <2>1, <2>2 DEF Told, Copied
  <1> QED BY <1>1, <1>2, TypesInit DEF PInv

LEMMA Steady == PInv /\ [Next]_vars => PInv'
  BY TypesStep, CuratedStep, ExplainedStep DEF PInv

LEMMA Invariant == Spec => []PInv
  BY Starts, Steady, PTL DEF Spec

\* Every table, every scrape and every edit has the types of the entities the services
\* load and save (model-price.entity.ts, provider.entity.ts).
THEOREM PricesTypeCorrect == Spec => []PricesTypeOK
  <1>1. PInv => PricesTypeOK
    BY DEF PInv, PTypes
  <1> QED BY <1>1, Invariant, PTL

\* Whatever scrapes and edits are under way, fail or are lost in a restart, a price that was
\* curated while no scrape was under way stays what the administrator set (enums.ts: manual
\* prices are "never overwritten by a scraper").
THEOREM CuratedPricesServed == Spec => []CuratedServed
  <1>1. PInv => CuratedServed
    BY DEF PInv, Curated, CuratedServed
  <1> QED BY <1>1, Invariant, PTL

\* The last entry of a price's history has the amount that is served, unless operations met
\* on the price or one was cut short between the two (applyComponent, upsertPrice).
THEOREM HistoryExplains == Spec => []HistoryCurrent
  <1>1. PInv => HistoryCurrent
    BY DEF PInv, Explained, Told, Recording, JobOf, Jobs, HistoryCurrent
  <1> QED BY <1>1, Invariant, PTL

LEMMA Degrades ==
  ASSUME PInv, Next, NEW m \in Models \ met', prices[m] # None, prices'[m] # prices[m],
         prices'[m].freshness # "fresh"
  PROVE  prices'[m].amount = prices[m].amount /\ prices'[m].source = prices[m].source
  <1>1. PTypes /\ Explained
    BY DEF PInv
  <1>2. prices \in [Models -> Price \cup {None}]
    BY <1>1 DEF PTypes, PricesTypeOK
  <1>3. ASSUME NEW n, NEW amount, NEW source,
               prices' = [prices EXCEPT ![n] = Fresh(amount, source)]
        PROVE  FALSE
    BY <1>2, <1>3 DEF Fresh
  <1>4. \A s \in Scrapes : ~Save(s)
    BY <1>3 DEF Save
  <1>5. ASSUME NEW e \in Edits, SavePrice(e)
        PROVE  FALSE
    <2>1. prices' = [prices EXCEPT ![edits[e].at] = Fresh(edits[e].found[edits[e].at], "manual")]
      BY <1>5 DEF SavePrice
    <2> QED BY <1>3, <2>1
  <1>6. ~SeedSave
    <2>1. ASSUME SeedSave
          PROVE  FALSE
      <3>1. boot.at \in Models /\ Seed[boot.at] # None
            /\ prices' = [prices EXCEPT ![boot.at] = Seeded(boot.at)]
        BY <1>1, <2>1 DEF SeedSave, PTypes, PricesTypeOK, BootOK, Job
      <3> QED BY <1>3, <3>1 DEF Seeded
    <2> QED BY <2>1
  <1>7. PICK s \in Scrapes, n \in Models : MarkStale(s, n)
    <2>1. ASSUME NEW s \in Scrapes, Scrape(s), \A n \in Models : ~MarkStale(s, n)
          PROVE  prices' = prices
      BY <1>4, <2>1 DEF Scrape, Load, FetchFails, Fetch, Missing, Close, SaveClashes, Record,
           Find, tables
    <2>2. ASSUME NEW e \in Edits, Edit(e)
          PROVE  prices' = prices
      BY <1>5, <2>2 DEF Edit, SavePriceClashes, RecordPrice, FindProvider, SaveProvider,
           FindPrice, tables
    <2>3. ASSUME NEW s \in Scrapes, ScrapeThrows(s)
          PROVE  prices' = prices
      BY <2>3 DEF ScrapeThrows, tables
    <2>4. ASSUME NEW e \in Edits, EditThrows(e)
          PROVE  prices' = prices
      BY <2>4 DEF EditThrows, tables
    <2>5. ASSUME \/ Restart \/ SeedRecord \/ SeedEnds \/ SeedClashes
                 \/ \E n \in Models : SeedFind(n)
          PROVE  prices' = prices
      BY <2>5 DEF Restart, SeedRecord, SeedEnds, SeedClashes, SeedFind, Reboot, tables
    <2> QED BY <1>6, <2>1, <2>2, <2>3, <2>4, <2>5 DEF Next
  <1>8. prices' = [prices EXCEPT ![n] = Degraded(scrapes[s].copies[n])]
    BY <1>7 DEF MarkStale
  <1>9. n = m
    BY <1>2, <1>8
  <1>10. scrapes[s].copies[m] = prices[m]
    BY <1>1, <1>7, <1>9, MarkExplained
  <1>11. prices'[m] = Degraded(prices[m]) /\ prices[m] \in Price
    BY <1>2, <1>8, <1>9, <1>10
  <1>12. Degraded(prices[m]).amount = prices[m].amount
         /\ Degraded(prices[m]).source = prices[m].source
    BY <1>11 DEF Degraded, Price
  <1> QED BY <1>11, <1>12

\* A failed scrape changes no amount and no source of a price, unless another operation
\* saved the row since the scrape loaded it (markModelsStale, onFailure).
THEOREM DegradationKeepsPrice == Spec => DegradedKeepsPrice
  <1>1. PInv /\ [Next]_vars =>
          [\A m \in Models \ met' :
             prices[m] # None /\ prices'[m] # prices[m] /\ prices'[m].freshness # "fresh" =>
               prices'[m].amount = prices[m].amount
               /\ prices'[m].source = prices[m].source]_vars
    BY Degrades
  <1> QED BY <1>1, Invariant, PTL DEF Spec, DegradedKeepsPrice

=============================================================================
