------------------------------ MODULE StoreOps ------------------------------
(***************************************************************************)
(* The operations on the stored results of src/src/idempotency/store.js,   *)
(* as functions of the stored sequence.  `results` is a Map whose          *)
(* insertion order is the LRU order, so it is a sequence of entries, the   *)
(* least recently used first.  A body is abstracted to the call that       *)
(* produced it (`gen`) and its size.                                       *)
(***************************************************************************)
EXTENDS Subsequence

CONSTANTS MaxEntries,     \* settings.maxEntries
          MaxTotalBytes,  \* settings.maxTotalBytes
          MaxEntryBytes,  \* settings.maxEntryBytes
          Window          \* settings.replayWindowMs

ASSUME StoreAssumption ==
  /\ MaxEntries \in Nat /\ MaxTotalBytes \in Nat
  /\ MaxEntryBytes \in Nat /\ Window \in Nat

Has(rs, fp) == \E i \in DOMAIN rs : rs[i].fp = fp

EntryOf(rs, fp) == rs[CHOOSE i \in DOMAIN rs : rs[i].fp = fp]

Without(rs, fp) == Only(rs, {e \in ToSet(rs) : e.fp # fp})

TotalBytes(rs) == FoldLeft(LAMBDA sum, e : sum + e.bytes, 0, rs)

\* A mistake: only the number of entries is bounded.
FitsInCount(rs) == Len(rs) <= MaxEntries

Fits(rs) == Len(rs) <= MaxEntries /\ TotalBytes(rs) <= MaxTotalBytes

\* What is left when the n oldest entries are gone.
Dropping(rs, n) == SubSeq(rs, n + 1, Len(rs))

\* The eviction loop of put: drop the oldest entry until the rest fits.
Trimmed(rs) ==
  LET n == CHOOSE n \in 0..Len(rs) : /\ Fits(Dropping(rs, n))
                                     /\ \A k \in 0..(n - 1) : ~Fits(Dropping(rs, k))
  IN  Dropping(rs, n)

\* A mistake: the old entry of the fingerprint stays.
AfterPutAppends(rs, e) ==
  IF e.bytes > MaxEntryBytes THEN rs ELSE Trimmed(Append(rs, e))

\* put: a result that is too large leaves the store as it is.
AfterPut(rs, e) ==
  IF e.bytes > MaxEntryBytes THEN rs ELSE Trimmed(Append(Without(rs, e.fp), e))

Expired(e, now) == now - e.storedAt > Window

\* sweep: everything past its window goes, wherever it stands in the LRU order.
Swept(rs, now) == Only(rs, {e \in ToSet(rs) : ~Expired(e, now)})

\* A mistake: only the key of the call that stored the result counts.
ReplayableByItsOwner(e, explicitKey) == e.key \/ ~e.delivered

\* A mistake: anyone gets a delivered result.
ReplayableToAnyone(e, explicitKey) == TRUE

\* A delivered result is for those who asked for idempotency, then or now.
Replayable(e, explicitKey) == e.key \/ explicitKey \/ ~e.delivered

\* take, which sweeps first: is there something to replay, and what does it leave behind?
TakeHits(rs, fp, explicitKey, now) ==
  /\ Has(Swept(rs, now), fp)
  /\ Replayable(EntryOf(Swept(rs, now), fp), explicitKey)

\* A mistake: touch() stores the entry anew.
TouchedAnew(rs, fp, now) ==
  Append(Without(rs, fp), [EntryOf(rs, fp) EXCEPT !.storedAt = now])

\* A mistake: a replay does not count as a use.
TouchedInPlace(rs, fp, now) == rs

\* touch: the entry becomes the most recently used, with its old time.
Touched(rs, fp, now) == Append(Without(rs, fp), EntryOf(rs, fp))

AfterTake(rs, fp, explicitKey, now) ==
  IF TakeHits(rs, fp, explicitKey, now)
  THEN Touched(Swept(rs, now), fp, now)
  ELSE Swept(rs, now)

\* markDelivered: in place, so the LRU order stays.
AfterMark(rs, fp) ==
  [i \in DOMAIN rs |-> IF rs[i].fp = fp THEN [rs[i] EXCEPT !.delivered = TRUE] ELSE rs[i]]
=============================================================================
