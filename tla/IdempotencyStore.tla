-------------------------- MODULE IdempotencyStore --------------------------
(***************************************************************************)
(* createIdempotencyStore of src/src/idempotency/store.js, as its API: the *)
(* stored results and the in-flight promises, under every sequence of      *)
(* calls.  UnsafeCalls composes the same operations the way index.js uses  *)
(* them.  The counters of `stats` and of `waiters` are read by nothing but *)
(* metrics and are left out.                                               *)
(***************************************************************************)
EXTENDS StoreOps, FiniteSets

CONSTANTS Fps,       \* fingerprints
          Gens,      \* what a stored body is the result of
          Jobs,      \* promises made by join; one that settled may stand for a later one
          Sizes,     \* sizes of bodies
          MaxClock,  \* bound of the model's clock
          None

\* Nothing is registered, or worked for, as None.
ASSUME NoneAssumption ==
  /\ None \notin Jobs \cup Fps
  /\ None \notin [gen : Gens, at : 0..MaxClock, told : BOOLEAN, key : BOOLEAN]

ASSUME BoundsAssumption == Sizes \subseteq Nat /\ MaxClock \in Nat

VARIABLES results,    \* const results
          inFlight,   \* const inFlight: the promise registered for a fingerprint, or None
          job,        \* the fingerprint a pending promise works for, or None
          clock,      \* Date.now()
          replayed,   \* what the last step replayed, or None
          recency,    \* history: the stored fingerprints by their last use, the oldest first
          forgotten   \* history: the promises forget() removed while they were pending

flightVars == <<inFlight, job, forgotten>>
vars == <<results, replayed, recency, flightVars, clock>>

Entries == [fp : Fps, gen : Gens, bytes : Sizes, storedAt : 0..MaxClock,
            delivered : BOOLEAN, key : BOOLEAN]

TypeOK ==
  /\ results \in Seq(Entries)
  /\ inFlight \in [Fps -> Jobs \cup {None}]
  /\ job \in [Jobs -> Fps \cup {None}]
  /\ clock \in 0..MaxClock
  /\ replayed \in [fp : Fps, gen : Gens, key : BOOLEAN] \cup {None}
  /\ recency \in Seq(Fps)
  /\ forgotten \subseteq Jobs

Init ==
  /\ results = <<>>
  /\ inFlight = [f \in Fps |-> None]
  /\ job = [j \in Jobs |-> None]
  /\ clock = 0
  /\ replayed = None
  /\ recency = <<>>
  /\ forgotten = {}

\* What recency becomes when fp is used (None: when nothing is).
Recency(fp) ==
  Only(Append(Only(recency, Fps \ {fp}), fp), {f \in Fps : Has(results', f)})

-----------------------------------------------------------------------------
(* Stored results *)

\* A mistake: `options.delivered` for `options.delivered === true`.
PutUnset(fp, gen, bytes, key, delivered) ==
  /\ results' = AfterPut(results, [fp |-> fp, gen |-> gen, bytes |-> bytes, storedAt |-> clock,
                                   delivered |-> IF delivered THEN TRUE ELSE None, key |-> key])
  /\ recency' = IF bytes > MaxEntryBytes THEN recency ELSE Recency(fp)
  /\ replayed' = None
  /\ UNCHANGED <<flightVars, clock>>

Put(fp, gen, bytes, key, delivered) ==
  /\ results' = AfterPut(results, [fp |-> fp, gen |-> gen, bytes |-> bytes, storedAt |-> clock,
                                   delivered |-> delivered, key |-> key])
  /\ recency' = IF bytes > MaxEntryBytes THEN recency ELSE Recency(fp)
  /\ replayed' = None
  /\ UNCHANGED <<flightVars, clock>>

Take(fp, explicitKey) ==
  /\ results' = AfterTake(results, fp, explicitKey, clock)
  /\ \/ /\ TakeHits(results, fp, explicitKey, clock)
        /\ replayed' = [fp |-> fp, gen |-> EntryOf(results, fp).gen, key |-> explicitKey]
        /\ recency' = Recency(fp)
     \/ /\ ~TakeHits(results, fp, explicitKey, clock)
        /\ replayed' = None
        /\ recency' = Recency(None)
  /\ UNCHANGED <<flightVars, clock>>

MarkDelivered(fp) ==
  /\ Has(results, fp)
  /\ results' = AfterMark(results, fp)
  /\ replayed' = None
  /\ UNCHANGED <<recency, flightVars, clock>>

Sweep ==
  /\ results' = Swept(results, clock)
  /\ recency' = Recency(None)
  /\ replayed' = None
  /\ UNCHANGED <<flightVars, clock>>

-----------------------------------------------------------------------------
(* In-flight promises *)

\* A mistake: the new promise is not registered before start() runs.
JoinUnregistered(fp) ==
  /\ inFlight[fp] = None
  /\ \E j \in Jobs : job[j] = None /\ job' = [job EXCEPT ![j] = fp]
  /\ replayed' = None
  /\ UNCHANGED <<results, recency, inFlight, forgotten, clock>>

\* join that finds nothing in flight: start() is called and its promise registered.  (A join
\* that finds one only counts a waiter.)
Join(fp) ==
  /\ inFlight[fp] = None
  /\ \E j \in Jobs :
       /\ job[j] = None
       /\ job' = [job EXCEPT ![j] = fp]
       /\ inFlight' = [inFlight EXCEPT ![fp] = j]
  /\ replayed' = None
  /\ UNCHANGED <<results, recency, forgotten, clock>>

\* A promise settles; its finally clears the fingerprint, whoever is registered there.
Settle(j) ==
  /\ job[j] # None
  /\ inFlight' = [inFlight EXCEPT ![job[j]] = None]
  /\ forgotten' = (forgotten \ {j}) \cup ({inFlight[job[j]]} \ {j, None})
  /\ job' = [job EXCEPT ![j] = None]
  /\ replayed' = None
  /\ UNCHANGED <<results, recency, clock>>

Forget(fp) ==
  /\ results' = Without(results, fp)
  /\ inFlight' = [inFlight EXCEPT ![fp] = None]
  /\ forgotten' = forgotten \cup ({inFlight[fp]} \ {None})
  /\ recency' = Recency(None)
  /\ replayed' = None
  /\ UNCHANGED <<job, clock>>

Tick ==
  /\ clock < MaxClock
  /\ clock' = clock + 1
  /\ replayed' = None
  /\ UNCHANGED <<results, recency, flightVars>>

Next ==
  \/ \E fp \in Fps :
       \/ \E g \in Gens, b \in Sizes, key, delivered \in BOOLEAN :
            Put(fp, g, b, key, delivered)
       \/ \E key \in BOOLEAN : Take(fp, key)
       \/ MarkDelivered(fp) \/ Join(fp) \/ Forget(fp)
  \/ \E j \in Jobs : Settle(j)
  \/ Sweep \/ Tick

Spec == Init /\ [][Next]_vars

-----------------------------------------------------------------------------
(* Properties *)

\* "The store is bounded in entries and bytes" (store.js:26), with one entry at most for a
\* fingerprint, after any sequence of puts, replays and sweeps.
Bounded ==
  /\ Len(results) <= MaxEntries
  /\ TotalBytes(results) <= MaxTotalBytes
  /\ \A i \in DOMAIN results : results[i].bytes <= MaxEntryBytes
  /\ \A i, j \in DOMAIN results : results[i].fp = results[j].fp => i = j

Position(f) == CHOOSE i \in DOMAIN recency : recency[i] = f

Lost(f) == Has(results, f) /\ ~Has(results', f)
Kept(f) == Has(results, f) /\ Has(results', f) /\ EntryOf(results', f) = EntryOf(results, f)
SomethingStored == \E i \in DOMAIN results' : results'[i] \notin ToSet(results)

\* The map's insertion order is the order of use: when a put evicts, what goes was used less
\* recently, by a put or a replay, than all that stays.
EvictsLeastRecentlyUsed ==
  [][\A f \in Fps : Lost(f) /\ SomethingStored
                   => \A k \in Fps : Kept(k) => Position(f) < Position(k)]_vars

\* Coalescing rests on this: work that is still running is found by the next identical call,
\* unless forget() has removed it, directly or through the settling of a forgotten promise.
PendingIsFound ==
  /\ \A j \in Jobs : job[j] # None /\ j \notin forgotten => inFlight[job[j]] = j
  /\ \A f \in Fps : inFlight[f] # None => job[inFlight[f]] = f

\* What the memory of each fingerprint is, without the LRU order.
Remembered ==
  [f \in Fps |->
     IF Has(results, f)
     THEN LET e == EntryOf(results, f)
          IN  [gen |-> e.gen, at |-> e.storedAt, told |-> e.delivered, key |-> e.key]
     ELSE None]

Memory == INSTANCE ReplayMemory WITH memory <- Remembered

\* The LRU map implements the abstract memory: the window, the delivered flag and the keys
\* decide every replay, and eviction, expiry and touch only ever lose results.
ImplementsReplayMemory == Memory!Spec
=============================================================================
