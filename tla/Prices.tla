------------------------------- MODULE Prices -------------------------------
(***************************************************************************)
(* The price API (apps/price-api): the scrapes of one provider's price     *)
(* page, started by its cron job or by an administrator, the prices an     *)
(* administrator sets, the provider's refresh mode, and the seed of a      *)
(* boot.  Every operation loads entities, waits, and saves whole rows from *)
(* what it loaded, so what one saves another may overwrite.                *)
(***************************************************************************)
EXTENDS Integers, FiniteSets

CONSTANTS
  Models,      \* the provider's models, with one price component each
  Override,    \* their modeOverride
  DefaultMode, \* the provider's mode in the registry
  Seed,        \* the amount the registry seeds each with, or None
  Amounts,     \* amounts in US dollars
  Pages,       \* what the provider's page may list, None for a model it does not
  Scrapes,     \* calls of scrapeProvider
  Edits,       \* calls of upsertPrice and updateProvider
  StaleAfter,  \* scraping.staleAfterFailures
  None,
  MaxFaults    \* bound on operations that a failed statement ends, and on restarts

Mode == {"scraped", "manual"}

Price == [amount : Amounts, source : {"scraped", "manual", "fallback"},
          freshness : {"fresh", "stale", "failed"}, failures : Nat]

ASSUME PricesAssumption ==
  /\ Override \in [Models -> Mode \cup {None}] /\ DefaultMode \in Mode
  /\ Seed \in [Models -> Amounts \cup {None}]
  /\ Pages \subseteq [Models -> Amounts \cup {None}]
  /\ StaleAfter \in Nat \ {0}
  /\ MaxFaults \in Nat
  /\ Scrapes \cap Edits = {} /\ "boot" \notin Scrapes \cup Edits
  /\ None \notin Amounts /\ None \notin Mode /\ None \notin Price /\ None \notin Models

VARIABLES
  mode,     \* the provider's mode, the column of its row that both sides write
  prices,   \* table model_prices, None without a row
  history,  \* the amount of a model's last price_history entry
  scrapes,  \* the running scrapes
  edits,    \* the running edits
  boot,     \* the seed of the process that runs
  met,      \* history: models two operations worked on together, or one left half done
  curated,  \* history: what the administrator set, for models that are theirs to set
  faults

tables == <<mode, prices, history>>
ghosts == <<met, curated>>
process == <<boot, faults>>
vars == <<tables, scrapes, edits, ghosts, process>>

----------------------------------------------------------------------------
(* Freshness and modes *)

Effective(m, providerMode) == IF Override[m] # None THEN Override[m] ELSE providerMode

\* A mutation: a degraded price is marked a fallback.
DegradedToFallback(price) ==
  [price EXCEPT !.failures = @ + 1, !.freshness = "stale", !.source = "fallback"]

\* onFailure: stale, and failed after StaleAfter failures in a row.
Degraded(price) ==
  LET failures == price.failures + 1 IN
  [price EXCEPT !.failures = failures,
                !.freshness = IF failures >= StaleAfter THEN "failed" ELSE "stale"]

\* A price as a successful source gives it.
Fresh(amount, source) ==
  [amount |-> amount, source |-> source, freshness |-> "fresh", failures |-> 0]

\* The row the seed inserts for a model without one.
Seeded(m) ==
  IF Seed[m] = None THEN None
  ELSE Fresh(Seed[m], IF Effective(m, DefaultMode) = "manual" THEN "manual" ELSE "fallback")

----------------------------------------------------------------------------
(* Operations *)

\* mode: of the provider row a scrape loaded, or what an edit writes;  found: what the
\* page listed;  todo: models not come to;  copies: the price rows that are loaded.
Idle == [step |-> "idle", mode |-> None, found |-> [m \in Models |-> None], todo |-> {},
         at |-> None, copies |-> [m \in Models |-> None]]

Done == [Idle EXCEPT !.step = "done"]

InFlight(job) == job.step \notin {"idle", "done"}

\* A job has loaded the row of m and not saved it, or saved it and not recorded it.
Holds(job, m) ==
  \/ job.step \in {"save", "record"} /\ job.at = m
  \/ job.step = "degrade" /\ m \in job.todo

Jobs == Scrapes \cup Edits \cup {"boot"}

JobOf(p) == IF p \in Scrapes THEN scrapes[p] ELSE IF p \in Edits THEN edits[p] ELSE boot

\* The operation o writes m: whoever else holds the row has met it.
Meets(o, m) ==
  met' = IF \E p \in Jobs \ {o} : Holds(JobOf(p), m) THEN met \cup {m} ELSE met

\* Models keep what was curated only while they are manual.
SetMode(new) ==
  /\ mode' = new
  /\ curated' = [m \in Models |-> IF Effective(m, new) = "manual" THEN curated[m] ELSE None]

\* What a save of a row loaded as copy does: a new row that another inserted meanwhile
\* violates uq_model_price_component.
Inserts(copy, m) == copy # None \/ prices[m] = None

----------------------------------------------------------------------------
(* scrapeProvider *)

Load(s) ==
  /\ scrapes[s].step = "idle"
  /\ scrapes' = [scrapes EXCEPT ![s].step = "fetch", ![s].mode = mode]
  /\ UNCHANGED <<tables, edits, ghosts, process>>

\* A mutation: the mode is not asked for.
ScrapedAll(s) == Models

\* The models whose prices the provider's page is the source of.
Scraped(s) == {m \in Models : Effective(m, scrapes[s].mode) = "scraped"}

\* markModelsStale loads the rows of the given models before it saves the first.
Degrade(s, models) ==
  scrapes' = [scrapes EXCEPT ![s].step = "degrade", ![s].at = None,
                ![s].todo = {m \in models : prices[m] # None},
                ![s].copies = prices]

\* The page is down or its form has changed: every scraped model is degraded.
FetchFails(s) ==
  /\ scrapes[s].step = "fetch"
  /\ Degrade(s, Scraped(s))
  /\ UNCHANGED <<tables, edits, ghosts, process>>

\* What the page lists of models that are not manual is applied.
Fetch(s) ==
  /\ scrapes[s].step = "fetch"
  /\ \E found \in Pages :
       scrapes' = [scrapes EXCEPT ![s].step = "next", ![s].found = found,
                     ![s].todo = {m \in Scraped(s) : found[m] # None}]
  /\ UNCHANGED <<tables, edits, ghosts, process>>

\* applyComponent looks the row up ...
Find(s, m) ==
  /\ scrapes[s].step = "next" /\ m \in scrapes[s].todo
  /\ scrapes' = [scrapes EXCEPT ![s].step = "save", ![s].at = m, ![s].copies[m] = prices[m]]
  /\ UNCHANGED <<tables, edits, ghosts, process>>

Onward(job) == [job EXCEPT !.step = "next", !.todo = @ \ {job.at}, !.at = None,
                          !.copies = Idle.copies]

\* A mutation: a new price is not worth an entry.
ChangedIfKnown(copy, amount) == copy # None /\ copy.amount # amount

\* The history gets an entry for a new price or amount.
Changed(copy, amount) == copy = None \/ copy.amount # amount

\* ... and saves it; a changed amount goes on to the history.
Save(s) ==
  LET job == scrapes[s]
      m == job.at
  IN
  /\ job.step = "save"
  /\ Inserts(job.copies[m], m)
  /\ prices' = [prices EXCEPT ![m] = Fresh(job.found[m], "scraped")]
  /\ scrapes' = [scrapes EXCEPT ![s] =
       IF Changed(job.copies[m], job.found[m])
         THEN [job EXCEPT !.step = "record", !.copies = Idle.copies]
         ELSE Onward(job)]
  /\ Meets(s, m)
  /\ UNCHANGED <<mode, history, edits, curated, process>>

\* The insert is refused and the exception ends the scrape.
SaveClashes(s) ==
  /\ scrapes[s].step = "save"
  /\ ~Inserts(scrapes[s].copies[scrapes[s].at], scrapes[s].at)
  /\ scrapes' = [scrapes EXCEPT ![s] = Done]
  /\ UNCHANGED <<tables, edits, ghosts, process>>

Record(s) ==
  /\ scrapes[s].step = "record"
  /\ history' = [history EXCEPT ![scrapes[s].at] = scrapes[s].found[scrapes[s].at]]
  /\ scrapes' = [scrapes EXCEPT ![s] = Onward(scrapes[s])]
  /\ UNCHANGED <<mode, prices, edits, ghosts, process>>

\* Scraped models the page did not list are degraded.
Missing(s) ==
  /\ scrapes[s].step = "next" /\ scrapes[s].todo = {}
  /\ Degrade(s, {m \in Scraped(s) : scrapes[s].found[m] = None})
  /\ UNCHANGED <<tables, edits, ghosts, process>>

\* The row goes back as it was loaded, but for its freshness.
MarkStale(s, m) ==
  /\ scrapes[s].step = "degrade" /\ m \in scrapes[s].todo
  /\ prices' = [prices EXCEPT ![m] = Degraded(scrapes[s].copies[m])]
  /\ scrapes' = [scrapes EXCEPT ![s].todo = @ \ {m}]
  /\ Meets(s, m)
  /\ UNCHANGED <<mode, history, edits, curated, process>>

\* The provider row goes back with the outcome, and with the mode it was loaded with.
Close(s) ==
  /\ scrapes[s].step = "degrade" /\ scrapes[s].todo = {}
  /\ SetMode(scrapes[s].mode)
  /\ scrapes' = [scrapes EXCEPT ![s] = Done]
  /\ UNCHANGED <<prices, history, edits, met, process>>

----------------------------------------------------------------------------
(* AdminService, once the process listens *)

\* upsertPrice looks the row up ...
FindPrice(e, m) ==
  /\ edits[e].step = "idle" /\ boot.step = "done"
  /\ \E amount \in Amounts :
       edits' = [edits EXCEPT ![e].step = "save", ![e].at = m, ![e].found[m] = amount,
                              ![e].copies[m] = prices[m]]
  /\ UNCHANGED <<tables, scrapes, ghosts, process>>

\* ... and saves it.  The amount is theirs while the model is manual and no scrape that
\* may have loaded another mode is under way.
SavePrice(e) ==
  LET m == edits[e].at
      amount == edits[e].found[m]
  IN
  /\ edits[e].step = "save" /\ m # None
  /\ Inserts(edits[e].copies[m], m)
  /\ prices' = [prices EXCEPT ![m] = Fresh(amount, "manual")]
  /\ edits' = [edits EXCEPT ![e].step = "record"]
  /\ Meets(e, m)
  /\ curated' = [curated EXCEPT ![m] =
       IF Effective(m, mode) = "manual" /\ \A s \in Scrapes : ~InFlight(scrapes[s])
       THEN amount ELSE None]
  /\ UNCHANGED <<mode, history, scrapes, process>>

SavePriceClashes(e) ==
  LET m == edits[e].at IN
  /\ edits[e].step = "save" /\ m # None
  /\ ~Inserts(edits[e].copies[m], m)
  /\ edits' = [edits EXCEPT ![e] = Done]
  /\ UNCHANGED <<tables, scrapes, ghosts, process>>

RecordPrice(e) ==
  /\ edits[e].step = "record"
  /\ history' = [history EXCEPT ![edits[e].at] = edits[e].found[edits[e].at]]
  /\ edits' = [edits EXCEPT ![e] = Done]
  /\ UNCHANGED <<mode, prices, scrapes, ghosts, process>>

\* updateProvider loads the row; without a mode in the request it keeps the one it loaded.
FindProvider(e) ==
  /\ edits[e].step = "idle" /\ boot.step = "done"
  /\ \E asked \in Mode \cup {None} :
       edits' = [edits EXCEPT ![e].step = "save",
                              ![e].mode = IF asked = None THEN mode ELSE asked]
  /\ UNCHANGED <<tables, scrapes, ghosts, process>>

SaveProvider(e) ==
  /\ edits[e].step = "save" /\ edits[e].at = None
  /\ SetMode(edits[e].mode)
  /\ edits' = [edits EXCEPT ![e] = Done]
  /\ UNCHANGED <<prices, history, scrapes, met, process>>

----------------------------------------------------------------------------
(* SeedService, when the process boots: its cron jobs run already, and the rows of the
   provider and its models are there before their baseline prices *)

Booting == [Idle EXCEPT !.step = "next", !.found = Seed,
                        !.todo = {m \in Models : Seed[m] # None}]

\* seed passes over a price that exists ...
SeedFind(m) ==
  /\ boot.step = "next" /\ m \in boot.todo
  /\ boot' = IF prices[m] # None THEN [boot EXCEPT !.todo = @ \ {m}]
             ELSE [boot EXCEPT !.step = "save", !.at = m]
  /\ UNCHANGED <<tables, scrapes, edits, ghosts, faults>>

\* ... saves one that does not ...
SeedSave ==
  LET m == boot.at IN
  /\ boot.step = "save"
  /\ Inserts(boot.copies[m], m)
  /\ prices' = [prices EXCEPT ![m] = Seeded(m)]
  /\ boot' = [boot EXCEPT !.step = "record"]
  /\ Meets("boot", m)
  /\ UNCHANGED <<mode, history, scrapes, edits, curated, faults>>

\* ... and records it.
SeedRecord ==
  /\ boot.step = "record"
  /\ history' = [history EXCEPT ![boot.at] = boot.found[boot.at]]
  /\ boot' = Onward(boot)
  /\ UNCHANGED <<mode, prices, scrapes, edits, ghosts, faults>>

\* The process listens.
SeedEnds ==
  /\ boot.step = "next" /\ boot.todo = {}
  /\ boot' = Done
  /\ UNCHANGED <<tables, scrapes, edits, ghosts, faults>>

----------------------------------------------------------------------------
(* Faults *)

\* Models saved and not recorded by a job that ends here.
Unrecorded(job) == IF job.step = "record" THEN {job.at} ELSE {}

\* A statement throws and the operation ends where it is.
ScrapeThrows(s) ==
  /\ faults < MaxFaults /\ InFlight(scrapes[s])
  /\ faults' = faults + 1
  /\ met' = met \cup Unrecorded(scrapes[s])
  /\ scrapes' = [scrapes EXCEPT ![s] = Done]
  /\ UNCHANGED <<tables, edits, boot, curated>>

EditThrows(e) ==
  /\ faults < MaxFaults /\ InFlight(edits[e])
  /\ faults' = faults + 1
  /\ met' = met \cup Unrecorded(edits[e])
  /\ edits' = [edits EXCEPT ![e] = Done]
  /\ UNCHANGED <<tables, scrapes, boot, curated>>

\* Everything in flight is lost, and the next process boots.
Reboot ==
  /\ met' = met \cup UNION {Unrecorded(JobOf(p)) : p \in Jobs}
  /\ scrapes' = [s \in Scrapes |-> IF InFlight(scrapes[s]) THEN Done ELSE scrapes[s]]
  /\ edits' = [e \in Edits |-> IF InFlight(edits[e]) THEN Done ELSE edits[e]]
  /\ boot' = Booting
  /\ UNCHANGED <<tables, curated>>

\* The process dies, or a statement of its seed throws.
Restart == faults < MaxFaults /\ faults' = faults + 1 /\ Reboot

\* A scrape was first to insert a price: the seed's insert is refused, and an error of the
\* seed ends the process.
SeedClashes ==
  /\ boot.step = "save"
  /\ ~Inserts(boot.copies[boot.at], boot.at)
  /\ Reboot
  /\ UNCHANGED faults

----------------------------------------------------------------------------
Init ==
  /\ mode = DefaultMode
  /\ prices = [m \in Models |-> None] /\ history = [m \in Models |-> None]
  /\ scrapes = [s \in Scrapes |-> Idle] /\ edits = [e \in Edits |-> Idle]
  /\ boot = Booting
  /\ met = {} /\ curated = [m \in Models |-> None]
  /\ faults = 0

Scrape(s) ==
  \/ Load(s) \/ FetchFails(s) \/ Fetch(s) \/ Missing(s) \/ Close(s)
  \/ Save(s) \/ SaveClashes(s) \/ Record(s)
  \/ \E m \in Models : Find(s, m) \/ MarkStale(s, m)

Edit(e) ==
  \/ SavePrice(e) \/ SavePriceClashes(e) \/ RecordPrice(e)
  \/ FindProvider(e) \/ SaveProvider(e)
  \/ \E m \in Models : FindPrice(e, m)

Next ==
  \/ \E s \in Scrapes : Scrape(s) \/ ScrapeThrows(s)
  \/ \E e \in Edits : Edit(e) \/ EditThrows(e)
  \/ SeedSave \/ SeedRecord \/ SeedEnds \/ SeedClashes \/ \E m \in Models : SeedFind(m)
  \/ Restart

Spec == Init /\ [][Next]_vars

----------------------------------------------------------------------------
(* Properties *)

Job ==
  [step : {"idle", "fetch", "next", "save", "record", "degrade", "done"},
   mode : Mode \cup {None}, found : [Models -> Amounts \cup {None}], todo : SUBSET Models,
   at : Models \cup {None}, copies : [Models -> Price \cup {None}]]

PricesTypeOK ==
  /\ mode \in Mode
  /\ prices \in [Models -> Price \cup {None}] /\ history \in [Models -> Amounts \cup {None}]
  /\ scrapes \in [Scrapes -> Job] /\ edits \in [Edits -> Job] /\ boot \in Job
  /\ met \subseteq Models /\ curated \in [Models -> Amounts \cup {None}]
  /\ faults \in 0 .. MaxFaults

\* Manual prices are "curated by hand; never overwritten by a scraper" (enums.ts), as far
\* as that goes: what the administrator set for a manual model while no scrape was under way
\* is served until they set another or the model is no longer manual.  A scrape under way
\* still has the mode it loaded, and puts that mode back when it ends.
CuratedServed ==
  \A m \in Models : curated[m] # None =>
    prices[m] # None /\ prices[m].amount = curated[m] /\ prices[m].source = "manual"

\* The price history explains the price served: its last entry has that amount, for every
\* model no two operations worked on together and no operation was cut short on.
HistoryCurrent ==
  \A m \in Models \ met :
    \/ \E p \in Jobs : JobOf(p).step = "record" /\ JobOf(p).at = m
    \/ history[m] = IF prices[m] = None THEN None ELSE prices[m].amount

\* "A failed scrape never destroys a price - it degrades it while serving the last-known-
\* good value" (the price API's README): the amount of a row that is degraded stays, unless
\* another operation saved the row since the scrape loaded it.
DegradedKeepsPrice ==
  [][\A m \in Models \ met' :
       prices[m] # None /\ prices'[m] # prices[m] /\ prices'[m].freshness # "fresh" =>
         prices'[m].amount = prices[m].amount /\ prices'[m].source = prices[m].source]_vars

=============================================================================
