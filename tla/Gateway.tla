------------------------------ MODULE Gateway -------------------------------
(***************************************************************************)
(* What a generation request passes on its way to a provider when it comes *)
(* with an API key: the key's row and its token bucket (api/middleware),   *)
(* an in-flight slot, the key's quota, the limits guard, the response      *)
(* cache, and the settlement of the quota (api/handlers generate_image and *)
(* generate_video).  One gateway process and its database.                 *)
(*                                                                         *)
(* A request is a task of one step per statement or await.  It is dropped  *)
(* at any of them when its client goes away, and a restart drops them all; *)
(* what the database holds stays, what the process held is gone.  The      *)
(* limits guard only answers yes or no here, Limits.tla has the rest.      *)
(***************************************************************************)
EXTENDS Integers, FiniteSets

CONSTANTS
  Keys,
  Apps,
  AppOf,        \* the application of each key
  Slots,        \* requests the process may have before it at the same time
  MaxPermits,   \* capacity of InFlightLimit
  Price,        \* base_cost_usd of the model asked for, what is reserved
  Charges,      \* what a generation may cost with the markup of the day
  MaxCharge,
  Quotas,       \* values of token_quota
  Rpms,         \* values of rpm_limit
  MaxRpm,
  Minute,       \* ticks of the clock in a minute
  MaxTicks,     \* a bound on the ticks of a behaviour
  MaxRequests,  \* a bound on its requests, patches of keys included
  MaxRestarts,  \* a bound on its restarts
  None

ASSUME GatewayAssumption ==
  /\ AppOf \in [Keys -> Apps]
  /\ IsFiniteSet(Slots)
  /\ MaxPermits \in Nat
  /\ Price \in Nat \ {0}
  /\ MaxCharge \in Nat /\ MaxCharge >= Price
  /\ Charges \subseteq 1 .. MaxCharge
  /\ Quotas \subseteq Nat
  /\ MaxRpm \in Nat /\ Rpms \subseteq 1 .. MaxRpm
  /\ Minute \in Nat \ {0}
  /\ {MaxTicks, MaxRequests, MaxRestarts} \subseteq Nat
  /\ None \notin Keys \cup Int

VARIABLES
  keys,      \* the api_keys table
  bucket,    \* the rate limiter's buckets, in the memory of the process
  permits,   \* free in-flight slots
  cache,     \* the cost of the response cached for an application's request
  task,      \* the requests that run
  begun,     \* requests and patches so far
  ticks,     \* ticks so far
  restarts,  \* restarts so far
  spent,     \* history: cost of what a key's callers were given
  lost,      \* history: what its row counts in error
  ceiling,   \* history: the highest quota a key ever had
  window     \* history: what a key was let do since some instant

vars == <<keys, bucket, permits, cache, task, begun, ticks, restarts, spent,
          lost, ceiling, window>>

\* live: is_active, and expires_at not past.
Row == [quota : Quotas \cup {None}, rpm : Rpms \cup {None},
        live : BOOLEAN, used : Int]

\* Tokens are counted in parts, of which a token has Minute and a tick of the
\* clock refills rpm; last is the time the bucket was refilled to.
Bucket == [parts : 0 .. Minute * MaxRpm, last : 0 .. MaxTicks]

\* now is the clock a request read on its way to the buckets.
Task ==
  [pc : {"idle", "rate", "slot", "body", "reserve", "limits", "cache", "call",
         "settle", "finish"},
   key : Keys \cup {None}, rpm : Rpms \cup {None}, image : BOOLEAN,
   cost : 0 .. MaxCharge, now : 0 .. MaxTicks]

Idle ==
  [pc |-> "idle", key |-> None, rpm |-> None, image |-> FALSE, cost |-> 0,
   now |-> 0]

\* Requests let in, time gone by, restarts, and for how long requests waited
\* between the clock and the buckets.
Window == [taken : Nat, elapsed : Nat, restarts : Nat, late : Nat]

ASSUME NoneIsNoRecord == None \notin Row \cup Bucket \cup Window

TypeOK ==
  /\ keys \in [Keys -> Row \cup {None}]
  /\ bucket \in [Keys -> Bucket \cup {None}]
  /\ permits \in 0 .. MaxPermits
  /\ cache \in [Apps -> Charges \cup {None}]
  /\ task \in [Slots -> Task]
  /\ begun \in 0 .. MaxRequests
  /\ ticks \in 0 .. MaxTicks
  /\ restarts \in 0 .. MaxRestarts
  /\ spent \in [Keys -> Nat]
  /\ lost \in [Keys -> Int]
  /\ ceiling \in [Keys -> Nat \cup {None}]
  /\ window \in [Keys -> Window \cup {None}]

Init ==
  /\ keys = [k \in Keys |-> None]
  /\ bucket = [k \in Keys |-> None]
  /\ permits = MaxPermits
  /\ cache = [a \in Apps |-> None]
  /\ task = [s \in Slots |-> Idle]
  /\ begun = 0 /\ ticks = 0 /\ restarts = 0
  /\ spent = [k \in Keys |-> 0]
  /\ lost = [k \in Keys |-> 0]
  /\ ceiling = [k \in Keys |-> 0]
  /\ window = [k \in Keys |-> None]

At(s, pc) == task[s].pc = pc

Begin == begun < MaxRequests /\ begun' = begun + 1

Goto(s, pc) == task' = [task EXCEPT ![s].pc = pc]

\* Between its extraction and its response a request holds a slot, and
\* between reserving and settling its estimate.
HasSlot(s) ==
  task[s].pc \in {"body", "reserve", "limits", "cache", "call", "settle", "finish"}

Holds(s) == task[s].pc \in {"limits", "cache", "call", "settle"}

Held(k) == {s \in Slots : task[s].key = k /\ Holds(s)}

-----------------------------------------------------------------------------
(* Keys.                                                                   *)

\* None is no quota at all.
Higher(a, b) == IF a = None \/ b = None THEN None ELSE IF a > b THEN a ELSE b

CreateKey(k, q, r) ==
  /\ keys[k] = None
  /\ keys' = [keys EXCEPT ![k] = [quota |-> q, rpm |-> r, live |-> TRUE,
                                  used |-> 0]]
  /\ ceiling' = [ceiling EXCEPT ![k] = Higher(@, q)]
  /\ UNCHANGED <<bucket, permits, cache, task, begun, ticks, restarts, spent,
                 lost, window>>

\* PATCH: one update of the columns given.  A quota or limit once set can be
\* replaced but not taken away, a revoked key can be made active again.
PatchKey(k, q, r, live) ==
  /\ keys[k] # None
  /\ Begin
  /\ keys' = [keys EXCEPT ![k].quota = IF q = None THEN @ ELSE q,
                          ![k].rpm = IF r = None THEN @ ELSE r,
                          ![k].live = live]
  /\ ceiling' = [ceiling EXCEPT ![k] = Higher(@, keys'[k].quota)]
  /\ UNCHANGED <<bucket, permits, cache, task, ticks, restarts, spent,
                 lost, window>>

\* Revoked, or past its expires_at.
KeyEnds(k) ==
  /\ keys[k] # None
  /\ keys' = [keys EXCEPT ![k].live = FALSE]
  /\ UNCHANGED <<bucket, permits, cache, task, begun, ticks, restarts, spent,
                 lost, ceiling, window>>

-----------------------------------------------------------------------------
(* The way in.                                                             *)

\* handle_db_key reads the row: live, its quota not used up.  try_take then
\* reads the clock, and waits for the lock of the buckets.
Accepted(k) ==
  /\ keys[k] # None
  /\ keys[k].live
  /\ keys[k].quota # None => keys[k].used < keys[k].quota

Authenticate(s, k, image) ==
  /\ At(s, "idle")
  /\ Begin
  /\ Accepted(k)
  /\ task' = [task EXCEPT ![s] =
       [pc |-> IF keys[k].rpm = None THEN "slot" ELSE "rate",
        key |-> k, rpm |-> keys[k].rpm, image |-> image, cost |-> 0,
        now |-> IF keys[k].rpm = None THEN 0 ELSE ticks]]
  /\ UNCHANGED <<keys, bucket, permits, cache, ticks, restarts, spent, lost,
                 ceiling, window>>

Least(a, b) == IF a < b THEN a ELSE b

\* duration_since is zero when the clock was read before.
Since(now, last) == IF now > last THEN now - last ELSE 0

\* What the bucket holds at a time: a new one is full, an old one is refilled
\* at the caller's rate since it last was.
Refilled(k, rpm, now) ==
  IF bucket[k] = None THEN Minute * rpm
  ELSE Least(bucket[k].parts + Since(now, bucket[k].last) * rpm, Minute * rpm)

\* A faulty bucket that refills from the same instant again.
FaultyAsked(k, parts, now) ==
  bucket' = [bucket EXCEPT ![k] =
    [parts |-> parts, last |-> IF bucket[k] = None THEN now ELSE bucket[k].last]]

\* A request overtaken by another puts the time back.
Asked(k, parts, now) ==
  bucket' = [bucket EXCEPT ![k] = [parts |-> parts, last |-> now]]

Leave(s) ==
  /\ task' = [task EXCEPT ![s] = Idle]
  /\ permits' = IF HasSlot(s) THEN permits + 1 ELSE permits

Seen(k, n, now) ==
  IF window[k] = None THEN window
  ELSE [window EXCEPT ![k].taken = @ + n, ![k].late = @ + (ticks - now)]

\* RateLimiter::try_take, once it has the lock.
TakeToken(s) ==
  /\ At(s, "rate")
  /\ LET k == task[s].key
         now == task[s].now
         parts == Refilled(k, task[s].rpm, now) IN
       \/ /\ parts >= Minute
          /\ Asked(k, parts - Minute, now)
          /\ window' = Seen(k, 1, now)
          /\ task' = [task EXCEPT ![s].pc = "slot", ![s].rpm = None, ![s].now = 0]
          /\ UNCHANGED permits
       \/ /\ parts < Minute
          /\ Asked(k, parts, now)
          /\ window' = Seen(k, 0, now)
          /\ Leave(s)
  /\ UNCHANGED <<keys, cache, begun, ticks, restarts, spent, lost, ceiling>>

TakePermit == permits' = permits - 1

AcquireSlot(s) ==
  /\ At(s, "slot")
  /\ \/ permits > 0 /\ TakePermit /\ Goto(s, "body")
     \/ permits = 0 /\ Leave(s)
  /\ UNCHANGED <<keys, bucket, cache, begun, ticks, restarts, spent, lost,
                 ceiling, window>>

\* Body, model, parameters, references and credentials are in order or not.
Validate(s) ==
  /\ At(s, "body")
  /\ \/ Goto(s, "reserve") /\ UNCHANGED permits
     \/ Leave(s)
  /\ UNCHANGED <<keys, bucket, cache, begun, ticks, restarts, spent, lost,
                 ceiling, window>>

\* A faulty condition that looks at what was used before.
FaultyFits(k) == keys[k].quota # None => keys[k].used <= keys[k].quota

\* The condition of reserve_tokens.
Fits(k) == keys[k].quota # None => keys[k].used + Price <= keys[k].quota

Add(k, amount) == keys' = [keys EXCEPT ![k].used = @ + amount]

\* reserve_quota; the statement may also fail.
Reserve(s) ==
  /\ At(s, "reserve")
  /\ \/ /\ Fits(task[s].key)
        /\ Add(task[s].key, Price)
        /\ Goto(s, "limits")
        /\ UNCHANGED permits
     \/ Leave(s) /\ UNCHANGED keys
  /\ UNCHANGED <<bucket, cache, begun, ticks, restarts, spent, lost, ceiling,
                 window>>

-----------------------------------------------------------------------------
(* The generation.                                                         *)

\* A request that comes to nothing is settled to nothing.
Nothing(s) == task' = [task EXCEPT ![s].pc = "settle", ![s].cost = 0]

\* enforce::begin; a video is not looked up in the cache.
LimitsBegin(s) ==
  /\ At(s, "limits")
  /\ \/ Goto(s, IF task[s].image THEN "cache" ELSE "call")
     \/ Nothing(s)
  /\ UNCHANGED <<keys, bucket, permits, cache, begun, ticks, restarts, spent,
                 lost, ceiling, window>>

\* cache_scope: the keys of one application share their responses.  A hit is
\* charged what the response cost when it was made.
CacheLookup(s) ==
  /\ At(s, "cache")
  /\ LET hit == cache[AppOf[task[s].key]] IN
       \/ hit = None /\ Goto(s, "call")
       \/ hit # None /\ task' = [task EXCEPT ![s].pc = "settle", ![s].cost = hit]
  /\ UNCHANGED <<keys, bucket, permits, cache, begun, ticks, restarts, spent,
                 lost, ceiling, window>>

Generate(s) ==
  /\ At(s, "call")
  /\ \/ \E c \in Charges :
          /\ task' = [task EXCEPT ![s].pc = "settle", ![s].cost = c]
          /\ cache' = IF task[s].image
                      THEN [cache EXCEPT ![AppOf[task[s].key]] = c] ELSE cache
     \/ Nothing(s) /\ UNCHANGED cache
  /\ UNCHANGED <<keys, bucket, permits, begun, ticks, restarts, spent, lost,
                 ceiling, window>>

\* An entry outlives its time or its place, or the cache is cleared.
Evict(a) ==
  /\ cache[a] # None
  /\ cache' = [cache EXCEPT ![a] = None]
  /\ UNCHANGED <<keys, bucket, permits, task, begun, ticks, restarts, spent,
                 lost, ceiling, window>>

\* A faulty settlement that charges the cost and keeps the reservation.
FaultyDelta(cost) == cost

Delta(cost) == cost - Price

\* settle_quota; a statement that fails is logged and forgotten.
Settle(s) ==
  /\ At(s, "settle")
  /\ LET k == task[s].key  cost == task[s].cost IN
       /\ spent' = [spent EXCEPT ![k] = @ + cost]
       /\ \/ Add(k, Delta(cost)) /\ UNCHANGED lost
          \/ /\ lost' = [lost EXCEPT ![k] = @ + Price - cost]
             /\ UNCHANGED keys
  /\ task' = [task EXCEPT ![s].pc = "finish", ![s].cost = 0]
  /\ UNCHANGED <<bucket, permits, cache, begun, ticks, restarts, ceiling, window>>

\* The limits are settled, the response goes out, the slot is free.
Finish(s) ==
  /\ At(s, "finish")
  /\ Leave(s)
  /\ UNCHANGED <<keys, bucket, cache, begun, ticks, restarts, spent, lost,
                 ceiling, window>>

-----------------------------------------------------------------------------
(* Faults and time.                                                        *)

\* The client goes away and the handler's future is dropped: the slot is
\* given back, the reservation is not.
Dropped(s) ==
  /\ ~At(s, "idle")
  /\ Leave(s)
  /\ lost' = IF Holds(s) THEN [lost EXCEPT ![task[s].key] = @ + Price] ELSE lost
  /\ UNCHANGED <<keys, bucket, cache, begun, ticks, restarts, spent, ceiling,
                 window>>

Restart ==
  /\ restarts < MaxRestarts /\ restarts' = restarts + 1
  /\ task' = [s \in Slots |-> Idle]
  /\ permits' = MaxPermits
  /\ bucket' = [k \in Keys |-> None]
  /\ cache' = [a \in Apps |-> None]
  /\ lost' = [k \in Keys |-> lost[k] + Price * Cardinality(Held(k))]
  /\ window' = [k \in Keys |->
       IF window[k] = None THEN None
       ELSE [window[k] EXCEPT !.restarts = @ + 1]]
  /\ UNCHANGED <<keys, begun, ticks, spent, ceiling>>

Tick ==
  /\ ticks < MaxTicks /\ ticks' = ticks + 1
  /\ window' = [k \in Keys |->
       IF window[k] = None THEN None ELSE [window[k] EXCEPT !.elapsed = @ + 1]]
  /\ UNCHANGED <<keys, bucket, permits, cache, task, begun, restarts, spent, lost,
                 ceiling>>

\* The instant an observer counts from: any one.
Observe(k) ==
  /\ window[k] = None
  /\ window' = [window EXCEPT ![k] = [taken |-> 0, elapsed |-> 0, restarts |-> 0,
                                        late |-> 0]]
  /\ UNCHANGED <<keys, bucket, permits, cache, task, begun, ticks, restarts,
                 spent, lost, ceiling>>

-----------------------------------------------------------------------------
Request(s) ==
  \/ \E k \in Keys, image \in BOOLEAN : Authenticate(s, k, image)
  \/ TakeToken(s) \/ AcquireSlot(s) \/ Validate(s) \/ Reserve(s)
  \/ LimitsBegin(s) \/ CacheLookup(s) \/ Generate(s) \/ Settle(s) \/ Finish(s)

Administration ==
  \/ \E k \in Keys, q \in Quotas \cup {None}, r \in Rpms \cup {None} :
       CreateKey(k, q, r) \/ \E live \in BOOLEAN : PatchKey(k, q, r, live)
  \/ \E k \in Keys : KeyEnds(k)
  \/ \E a \in Apps : Evict(a)

Environment ==
  \/ \E s \in Slots : Dropped(s)
  \/ \E k \in Keys : Observe(k)
  \/ Restart \/ Tick

Next == (\E s \in Slots : Request(s)) \/ Administration \/ Environment

Spec == Init /\ [][Next]_vars

-----------------------------------------------------------------------------
(* Properties.                                                             *)

\* tokens_used is what was delivered, plus the reservations of the requests
\* in flight, plus what clients that left, crashes and failed settlements
\* made of it: every early return of the handlers releases its reservation,
\* and no settlement is made twice or for another amount.
QuotaExact ==
  \A k \in Keys : keys[k] # None =>
    keys[k].used = spent[k] + Price * Cardinality(Held(k)) + lost[k]

\* However many requests a key sends at once, and however its quota is
\* patched meanwhile, it is charged at most the highest quota it ever had and
\* the markup of as many generations as there are in-flight slots: estimates
\* are reserved under the quota, markups are added without looking at it.
QuotaOverrun ==
  \A k \in Keys : keys[k] # None /\ ceiling[k] # None =>
    keys[k].used <= ceiling[k] + MaxPermits * (MaxCharge - Price)

\* From any instant on, a key is let in at most a burst of MaxRpm times and
\* then at that rate, whatever its limit is patched to in between.  A restart
\* forgets the bucket and allows the burst again.  A request that waits for
\* the lock with the time it has read puts the bucket back to that time,
\* which refills it once more for as long as the request had waited.
RateBound ==
  \A k \in Keys : window[k] # None =>
    window[k].taken * Minute <=
      MaxRpm * (Minute * (1 + window[k].restarts)
                  + window[k].elapsed + window[k].late)
=============================================================================
