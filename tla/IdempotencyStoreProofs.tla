----------------------- MODULE IdempotencyStoreProofs -----------------------
(***************************************************************************)
(* The store for any number of fingerprints and any bounds: work in flight *)
(* is found by the next identical call, the stored results stay within the *)
(* limits and are evicted in the order of their last use, and together     *)
(* they are a ReplayMemory.                                                *)
(***************************************************************************)
EXTENDS IdempotencyStore, Facts

FlightTypeOK ==
  /\ inFlight \in [Fps -> Jobs \cup {None}]
  /\ job \in [Jobs -> Fps \cup {None}]

FlightInv == FlightTypeOK /\ PendingIsFound

LEMMA InitFound == Init => FlightInv
BY NoneAssumption DEF Init, FlightInv, FlightTypeOK, PendingIsFound

\* A promise that is made finds nothing registered under its fingerprint, and was idle before.
LEMMA JoinKeeps ==
  ASSUME FlightInv, NEW fp \in Fps, Join(fp)
  PROVE  FlightInv'
<1>1. PICK j \in Jobs : /\ job[j] = None
                        /\ job' = [job EXCEPT ![j] = fp]
                        /\ inFlight' = [inFlight EXCEPT ![fp] = j]
      BY DEF Join
<1>2. inFlight[fp] = None /\ forgotten' = forgotten
      BY DEF Join
<1>3. FlightTypeOK'
      BY <1>1 DEF FlightInv, FlightTypeOK
<1>4. ASSUME NEW k \in Jobs, job'[k] # None, k \notin forgotten'
      PROVE  inFlight'[job'[k]] = k
  <2>1. CASE k = j
        BY <1>1, <2>1 DEF FlightInv, FlightTypeOK
  <2>2. CASE k # j
    <3>1. job'[k] = job[k] /\ inFlight[job[k]] = k
          BY <1>1, <1>2, <1>4, <2>2 DEF FlightInv, FlightTypeOK, PendingIsFound
    <3>2. job[k] # fp
          BY <1>2, <3>1, NoneAssumption
    <3> QED  BY <1>1, <1>4, <3>1, <3>2 DEF FlightInv, FlightTypeOK
  <2> QED  BY <2>1, <2>2
<1>5. ASSUME NEW f \in Fps, inFlight'[f] # None
      PROVE  job'[inFlight'[f]] = f
  <2>1. CASE f = fp
        BY <1>1, <2>1 DEF FlightInv, FlightTypeOK
  <2>2. CASE f # fp
    <3>1. inFlight'[f] = inFlight[f] /\ job[inFlight[f]] = f /\ inFlight[f] \in Jobs
          BY <1>1, <1>5, <2>2 DEF FlightInv, FlightTypeOK, PendingIsFound
    <3>2. inFlight[f] # j
          BY <1>1, <3>1, NoneAssumption
    <3> QED  BY <1>1, <3>1, <3>2 DEF FlightInv, FlightTypeOK
  <2> QED  BY <2>1, <2>2
<1> QED  BY <1>3, <1>4, <1>5 DEF FlightInv, PendingIsFound

\* A promise that settles clears its fingerprint.  If it was forgotten and another promise has
\* taken its place, that other one is forgotten too.
LEMMA SettleKeeps ==
  ASSUME FlightInv, NEW j \in Jobs, Settle(j)
  PROVE  FlightInv'
<1>1. /\ job[j] \in Fps
      /\ inFlight' = [inFlight EXCEPT ![job[j]] = None]
      /\ forgotten' = (forgotten \ {j}) \cup ({inFlight[job[j]]} \ {j, None})
      /\ job' = [job EXCEPT ![j] = None]
      BY DEF Settle, FlightInv, FlightTypeOK
<1>2. FlightTypeOK'
      BY <1>1 DEF FlightInv, FlightTypeOK
<1>3. ASSUME NEW k \in Jobs, job'[k] # None, k \notin forgotten'
      PROVE  inFlight'[job'[k]] = k
  <2>1. k # j /\ job'[k] = job[k] /\ job[k] \in Fps
        BY <1>1, <1>3 DEF FlightInv, FlightTypeOK
  <2>2. inFlight[job[k]] = k
        BY <1>1, <1>3, <2>1, NoneAssumption DEF FlightInv, PendingIsFound
  <2>3. job[k] # job[j]
        BY <1>1, <1>3, <2>1, <2>2, NoneAssumption
  <2> QED  BY <1>1, <2>1, <2>2, <2>3 DEF FlightInv, FlightTypeOK
<1>4. ASSUME NEW f \in Fps, inFlight'[f] # None
      PROVE  job'[inFlight'[f]] = f
  <2>1. f # job[j] /\ inFlight'[f] = inFlight[f]
        BY <1>1, <1>4 DEF FlightInv, FlightTypeOK
  <2>2. job[inFlight[f]] = f /\ inFlight[f] \in Jobs
        BY <1>4, <2>1 DEF FlightInv, FlightTypeOK, PendingIsFound
  <2>3. inFlight[f] # j
        BY <2>1, <2>2
  <2> QED  BY <1>1, <2>1, <2>2, <2>3 DEF FlightInv, FlightTypeOK
<1> QED  BY <1>2, <1>3, <1>4 DEF FlightInv, PendingIsFound

LEMMA ForgetKeeps ==
  ASSUME FlightInv, NEW fp \in Fps, Forget(fp)
  PROVE  FlightInv'
<1>1. /\ inFlight' = [inFlight EXCEPT ![fp] = None]
      /\ forgotten' = forgotten \cup ({inFlight[fp]} \ {None})
      /\ job' = job
      BY DEF Forget
<1>2. FlightTypeOK'
      BY <1>1 DEF FlightInv, FlightTypeOK
<1>3. ASSUME NEW k \in Jobs, job'[k] # None, k \notin forgotten'
      PROVE  inFlight'[job'[k]] = k
  <2>1. inFlight[job[k]] = k /\ job[k] \in Fps
        BY <1>1, <1>3 DEF FlightInv, FlightTypeOK, PendingIsFound
  <2>2. job[k] # fp
        BY <1>1, <1>3, <2>1, NoneAssumption
  <2> QED  BY <1>1, <2>1, <2>2 DEF FlightInv, FlightTypeOK
<1>4. ASSUME NEW f \in Fps, inFlight'[f] # None
      PROVE  job'[inFlight'[f]] = f
      BY <1>1, <1>4 DEF FlightInv, FlightTypeOK, PendingIsFound
<1> QED  BY <1>2, <1>3, <1>4 DEF FlightInv, PendingIsFound

\* Steps that leave the promises alone.
LEMMA StillFound ==
  ASSUME FlightInv, UNCHANGED flightVars
  PROVE  FlightInv'
BY DEF FlightInv, FlightTypeOK, PendingIsFound, flightVars

LEMMA StepKeepsFlight == FlightInv /\ [Next]_vars => FlightInv'
<1> SUFFICES ASSUME FlightInv, [Next]_vars PROVE FlightInv'
    OBVIOUS
<1>1. ASSUME NEW fp \in Fps, NEW g \in Gens, NEW b \in Sizes,
             NEW key \in BOOLEAN, NEW delivered \in BOOLEAN, Put(fp, g, b, key, delivered)
      PROVE  FlightInv'
      BY <1>1, StillFound DEF Put
<1>2. ASSUME NEW fp \in Fps, NEW key \in BOOLEAN, Take(fp, key)
      PROVE  FlightInv'
      BY <1>2, StillFound DEF Take
<1>3. ASSUME NEW fp \in Fps, MarkDelivered(fp)
      PROVE  FlightInv'
      BY <1>3, StillFound DEF MarkDelivered
<1>4. ASSUME NEW fp \in Fps, Join(fp)
      PROVE  FlightInv'
      BY <1>4, JoinKeeps
<1>5. ASSUME NEW fp \in Fps, Forget(fp)
      PROVE  FlightInv'
      BY <1>5, ForgetKeeps
<1>6. ASSUME NEW j \in Jobs, Settle(j)
      PROVE  FlightInv'
      BY <1>6, SettleKeeps
<1>7. CASE Sweep
      BY <1>7, StillFound DEF Sweep
<1>8. CASE Tick
      BY <1>8, StillFound DEF Tick
<1>9. CASE UNCHANGED vars
      BY <1>9, StillFound DEF vars
<1> QED  BY <1>1, <1>2, <1>3, <1>4, <1>5, <1>6, <1>7, <1>8, <1>9 DEF Next

\* Work that runs is found: join() makes a second promise for a fingerprint only after forget()
\* has dropped the first.
THEOREM RunningWorkIsFound == Spec => []PendingIsFound
<1>1. FlightInv => PendingIsFound
      BY DEF FlightInv
<1> QED  BY InitFound, StepKeepsFlight, <1>1, PTL DEF Spec

-----------------------------------------------------------------------------
(* The stored results *)

\* The LRU order of the entries is the order of their last use.
LruInv ==
  /\ results \in Seq(Entries) /\ clock \in 0..MaxClock
  /\ Unique(results) /\ Fits(results)
  /\ \A e \in ToSet(results) : e.bytes <= MaxEntryBytes
  /\ recency = Keys(results)

LEMMA EntriesAre == Sized(Entries) /\ Keyed(Entries, Fps)
BY BoundsAssumption DEF Sized, Keyed, Entries

LEMMA InitLru == Init => LruInv
<1> SUFFICES ASSUME Init PROVE LruInv
    OBVIOUS
<1>1. results = <<>> /\ recency = <<>> /\ clock = 0
      BY DEF Init
<1>2. Fits(<<>>)
      BY TotalOfEmpty, StoreAssumption DEF Fits
<1>3. Unique(<<>>)
      BY DEF Unique
<1> QED  BY <1>1, <1>2, <1>3, KeysEmpty, ToSetEmpty, BoundsAssumption DEF LruInv

LEMMA RecencyIs ==
  ASSUME LruInv, NEW fp \in Fps
  PROVE  /\ Recency(fp) = Only(Append(Keys(Without(results, fp)), fp), Present(results', Fps))
         /\ Keys(Without(results, fp)) = Only(recency, Fps \ {fp})
         /\ Keys(Without(results, fp)) \in Seq(Fps)
<1> DEFINE K == {e \in ToSet(results) : e.fp # fp}
           J == Fps \ {fp}
<1>1. results \in Seq(Entries) /\ Keyed(Entries, Fps)
      BY EntriesAre DEF LruInv
<1>2. \A e \in ToSet(results) : e \in K <=> e.fp \in J
      BY <1>1, ToSetIn DEF Keyed
<1> HIDE DEF K, J
<1>3. Keys(Only(results, K)) = Only(Keys(results), J)
      BY <1>1, <1>2, KeysOnly
<1>4. Keys(Without(results, fp)) = Only(recency, J)
      BY <1>3 DEF K, Without, LruInv
<1>5. Keys(Without(results, fp)) \in Seq(Fps)
      BY <1>1, WithoutLeaves, KeysIsSeq
<1> QED  BY <1>4, <1>5 DEF J, Recency, Present

\* When nothing is used, the order of those that stay stays.
LEMMA RecencyOfPart ==
  ASSUME LruInv, NEW K, results' = Only(results, K), recency' = Recency(None)
  PROVE  recency' = Keys(results')
<1> DEFINE J == Present(results', Fps)
<1>1. results \in Seq(Entries) /\ Keyed(Entries, Fps) /\ Unique(results) /\ recency = Keys(results)
      BY EntriesAre DEF LruInv
<1>2. recency \in Seq(Fps) /\ ToSet(recency) \subseteq Fps
      BY <1>1, KeysIsSeq, ToSetIn
<1>3. Only(recency, Fps \ {None}) = recency
  <2>1. Fps \ {None} = Fps
        BY NoneAssumption
  <2> QED  BY <1>2, <2>1, OnlyAll
<1>4. None \notin J
      BY NoneAssumption DEF Present
<1>5. recency' = Only(Append(recency, None), J)
      BY <1>3 DEF Recency, Present
<1> HIDE DEF J
<1>6. Only(Append(recency, None), J) = Only(recency, J)
  <2>1. recency \in Seq(Fps \cup {None})
        BY <1>2
  <2> QED  BY <1>4, <2>1, OnlyOfAppend
<1>7. Keys(Only(results, K)) = Only(Keys(results), Present(Only(results, K), Fps))
      BY <1>1, KeysOfPart
<1> QED  BY <1>1, <1>5, <1>6, <1>7 DEF J

\* A sweep, forget(), or a take that replays nothing.
LEMMA PartKeepsLru ==
  ASSUME LruInv, NEW K, results' = Only(results, K), recency' = Recency(None), UNCHANGED clock
  PROVE  LruInv'
<1>1. recency' = Keys(results')
      BY RecencyOfPart
<1>2. results \in Seq(Entries) /\ Sized(Entries) /\ Unique(results) /\ Fits(results)
      BY EntriesAre DEF LruInv
<1>3. results' \in Seq(Entries) /\ ToSet(results') \subseteq ToSet(results)
      BY <1>2, OnlyIsSeq, OnlyMembers
<1>4. Unique(results')
      BY <1>2, UniqueOnly
<1>5. Fits(results')
      BY <1>2, OnlyFits
<1> QED  BY <1>1, <1>3, <1>4, <1>5 DEF LruInv

\* A result that fits by itself.
LEMMA PutKeepsLru ==
  ASSUME LruInv, NEW e \in Entries, e.bytes <= MaxEntryBytes,
         results' = AfterPut(results, e), recency' = Recency(e.fp), UNCHANGED clock
  PROVE  LruInv'
<1> DEFINE w == Without(results, e.fp)
           t == Append(w, e)
           J == Present(results', Fps)
<1>1. results \in Seq(Entries) /\ Sized(Entries) /\ Keyed(Entries, Fps) /\ Unique(results) /\ Fits(results)
      BY EntriesAre DEF LruInv
<1>2. /\ results' \in Seq(Entries) /\ ToSet(results') \subseteq ToSet(results) \cup {e}
      /\ Fits(results') /\ Unique(results')
      BY <1>1, PutLeaves
<1>3. /\ w \in Seq(Entries) /\ ToSet(w) = {x \in ToSet(results) : x.fp # e.fp} /\ Unique(w)
      BY <1>1, WithoutLeaves
<1>4. e.fp \in Fps /\ e.fp \notin FpsOf(w)
      BY <1>1, <1>3 DEF FpsOf, Keyed
<1>5. recency' = Only(Append(Keys(w), e.fp), J)
      BY <1>4, RecencyIs
<1>6. AfterPut(results, e) = Trimmed(t)
  <2>1. ~(e.bytes > MaxEntryBytes)
        BY <1>1, StoreAssumption DEF Sized
  <2> QED  BY <2>1 DEF AfterPut
<1> HIDE DEF w, J
<1>7. t \in Seq(Entries) /\ Unique(t) /\ Keys(t) = Append(Keys(w), e.fp)
      BY <1>1, <1>3, <1>4, AppendedAt, UniqueAppend, KeysAppend
<1> HIDE DEF t
<1>8. PICK n \in 0..Len(t) : results' = Dropping(t, n)
      BY <1>6, <1>7, TrimmedDrops
<1>9. Only(t, ToSet(results')) = results'
  <2>1. \A i, j \in DOMAIN t : t[i] = t[j] => i = j
        BY <1>7 DEF Unique
  <2> QED  BY <1>7, <1>8, <2>1, SuffixIsOnly DEF Dropping
<1>10. Keys(results') = Only(Keys(t), J)
  <2>1. Keys(Only(t, ToSet(results'))) = Only(Keys(t), Present(Only(t, ToSet(results')), Fps))
        BY <1>1, <1>7, KeysOfPart
  <2> QED  BY <1>9, <2>1 DEF J
<1> QED  BY <1>2, <1>5, <1>7, <1>10 DEF LruInv

\* A replay.
LEMMA TouchKeepsLru ==
  ASSUME LruInv, NEW fp \in Fps, Has(Swept(results, clock), fp),
         results' = Touched(Swept(results, clock), fp, clock), recency' = Recency(fp),
         UNCHANGED clock
  PROVE  LruInv'
<1> DEFINE sw == Swept(results, clock)
           e == EntryOf(sw, fp)
           w == Without(sw, fp)
           J == Present(results', Fps)
<1>1. results \in Seq(Entries) /\ Sized(Entries) /\ Keyed(Entries, Fps) /\ Unique(results) /\ Fits(results)
      BY EntriesAre DEF LruInv
<1>2. /\ sw \in Seq(Entries) /\ ToSet(sw) = {x \in ToSet(results) : ~Expired(x, clock)} /\ Unique(sw)
      BY <1>1, SweptLeaves
<1>3. Fits(sw)
      BY <1>1, OnlyFits DEF Swept
<1>4. /\ results' \in Seq(Entries) /\ ToSet(results') = ToSet(sw) /\ Unique(results') /\ Fits(results')
  <2> HIDE DEF sw
  <2> QED  BY <1>1, <1>2, <1>3, TouchedLeaves DEF sw
<1>5. e \in ToSet(sw) /\ e.fp = fp /\ e \in Entries
  <2> HIDE DEF sw
  <2>1. Has(sw, fp)
        BY DEF sw
  <2> QED  BY <1>2, <2>1, EntryIn, ToSetIn
<1>6. results' = Append(w, e)
      BY DEF Touched
<1>7. w \in Seq(Entries) /\ ToSet(w) = {x \in ToSet(sw) : x.fp # fp}
  <2> HIDE DEF sw
  <2> QED  BY <1>2, WithoutLeaves
<1>8. Keys(results') = Append(Keys(w), fp)
  <2> HIDE DEF w, e
  <2> QED  BY <1>1, <1>5, <1>6, <1>7, KeysAppend
<1>9. fp \in J
  <2> HIDE DEF sw, e
  <2> QED  BY <1>4, <1>5, HasInFps DEF FpsOf, Present
<1>10. recency' = Append(Only(Only(recency, Fps \ {fp}), J), fp)
  <2>1. recency' = Only(Append(Only(recency, Fps \ {fp}), fp), J)
        BY DEF Recency, Present
  <2>2. Only(recency, Fps \ {fp}) \in Seq(Fps)
        BY RecencyIs
  <2> HIDE DEF J
  <2>3. \A m \in Seq(Fps) : Only(Append(m, fp), J) = Append(Only(m, J), fp)
        BY <1>9, OnlyOfAppend
  <2> QED  BY <2>1, <2>2, <2>3, Zenon
<1>11. Keys(w) = Only(Only(recency, Fps \ {fp}), J)
  <2> DEFINE A == {x \in ToSet(results) : ~Expired(x, clock)}
             B == {x \in ToSet(sw) : x.fp # fp}
             C == (Fps \ {fp}) \cap J
  <2>1. w = Only(Only(results, A), B)
        BY DEF Without, Swept
  <2>2. Only(Only(results, A), B) = Only(results, A \cap B)
        BY <1>1, OnlyOfOnly
  <2>3. ASSUME NEW x \in ToSet(results) PROVE x \in A \cap B <=> x.fp \in C
    <3>1. x.fp \in Fps
          BY <1>1, ToSetIn DEF Keyed
    <3>2. x.fp \in J <=> \E y \in ToSet(sw) : y.fp = x.fp
      <4> HIDE DEF sw
      <4> QED  BY <1>4, <3>1, HasInFps DEF FpsOf, Present
    <3>3. \A y \in ToSet(results) : y.fp = x.fp => y = x
      <4>1. EntryOf(results, x.fp) = x
            BY <1>1, EntryIs
      <4> QED  BY <1>1, <4>1, EntryIs
    <3> HIDE DEF sw, J
    <3> QED  BY <1>2, <3>1, <3>2, <3>3
  <2>4. Keys(Only(results, A \cap B)) = Only(Keys(results), C)
    <3> DEFINE D == A \cap B
    <3>1. \A x \in ToSet(results) : x \in D <=> x.fp \in C
          BY <2>3
    <3> HIDE DEF C, D
    <3>2. Keys(Only(results, D)) = Only(Keys(results), C)
          BY <1>1, <3>1, KeysOnly
    <3> QED  BY <3>2 DEF D
  <2>5. Only(Only(recency, Fps \ {fp}), J) = Only(recency, C)
    <3>1. recency \in Seq(Fps)
          BY <1>1, KeysIsSeq DEF LruInv
    <3> HIDE DEF J
    <3> QED  BY <3>1, OnlyOfOnly
  <2> HIDE DEF A, B, C, w, J
  <2> QED  BY <2>1, <2>2, <2>4, <2>5 DEF LruInv
<1> HIDE DEF sw, w, J, e
<1> QED  BY <1>2, <1>4, <1>8, <1>10, <1>11 DEF LruInv

\* markDelivered changes an entry where it stands.
LEMMA MarkLeaves ==
  ASSUME NEW rs \in Seq(Entries), NEW fp
  PROVE  LET m == AfterMark(rs, fp)
         IN  /\ m \in Seq(Entries) /\ Len(m) = Len(rs)
             /\ \A i \in 1..Len(rs) : /\ m[i].fp = rs[i].fp /\ m[i].bytes = rs[i].bytes
                                      /\ m[i].gen = rs[i].gen /\ m[i].key = rs[i].key
                                      /\ m[i].storedAt = rs[i].storedAt
                                      /\ m[i].delivered = (rs[i].fp = fp \/ rs[i].delivered)
<1> DEFINE m == AfterMark(rs, fp)
<1>1. DOMAIN rs = 1..Len(rs) /\ Len(rs) \in Nat /\ \A i \in 1..Len(rs) : rs[i] \in Entries
      OBVIOUS
<1>2. m = [i \in 1..Len(rs) |-> IF rs[i].fp = fp THEN [rs[i] EXCEPT !.delivered = TRUE] ELSE rs[i]]
      BY <1>1 DEF AfterMark
<1>3. ASSUME NEW i \in 1..Len(rs)
      PROVE  /\ m[i] \in Entries /\ m[i].fp = rs[i].fp /\ m[i].bytes = rs[i].bytes
             /\ m[i].gen = rs[i].gen /\ m[i].key = rs[i].key /\ m[i].storedAt = rs[i].storedAt
             /\ m[i].delivered = (rs[i].fp = fp \/ rs[i].delivered)
  <2>1. rs[i] \in Entries /\ m[i] = IF rs[i].fp = fp THEN [rs[i] EXCEPT !.delivered = TRUE] ELSE rs[i]
        BY <1>1, <1>2
  <2> DEFINE e == rs[i]
             f == m[i]
  <2> HIDE DEF e, f, m
  <2>2. e \in Entries /\ f = IF e.fp = fp THEN [e EXCEPT !.delivered = TRUE] ELSE e
        BY <2>1 DEF e, f
  <2>3. CASE e.fp = fp
    <3>1. f = [fp |-> e.fp, gen |-> e.gen, bytes |-> e.bytes, storedAt |-> e.storedAt,
               delivered |-> TRUE, key |-> e.key]
          BY <2>2, <2>3 DEF Entries
    <3>2. f \in Entries
          BY <2>2, <3>1 DEF Entries
    <3>3. /\ f.fp = e.fp /\ f.bytes = e.bytes /\ f.gen = e.gen /\ f.key = e.key
          /\ f.storedAt = e.storedAt /\ f.delivered = TRUE
          BY <3>1
    <3> QED  BY <2>3, <3>2, <3>3 DEF e, f
  <2>4. CASE e.fp # fp
    <3>1. f = e /\ e.delivered \in BOOLEAN
          BY <2>2, <2>4 DEF Entries
    <3> QED  BY <2>2, <2>4, <3>1 DEF e, f
  <2> QED  BY <2>3, <2>4
<1>4. m \in Seq(Entries) /\ Len(m) = Len(rs)
  <2>1. m \in [1..Len(rs) -> Entries]
        BY <1>2, <1>3
  <2> HIDE DEF m
  <2>2. m \in Seq(Entries)
        BY <1>1, <2>1
  <2>3. Len(m) = Len(rs)
        BY <1>1, <2>1, <2>2
  <2> QED  BY <2>2, <2>3
<1> HIDE DEF m
<1>5. /\ m \in Seq(Entries) /\ Len(m) = Len(rs)
      /\ \A i \in 1..Len(rs) : /\ m[i].fp = rs[i].fp /\ m[i].bytes = rs[i].bytes
                               /\ m[i].gen = rs[i].gen /\ m[i].key = rs[i].key
                               /\ m[i].storedAt = rs[i].storedAt
                               /\ m[i].delivered = (rs[i].fp = fp \/ rs[i].delivered)
      BY <1>3, <1>4
<1> QED  BY <1>5 DEF m

LEMMA MarkKeepsLru ==
  ASSUME LruInv, NEW fp, results' = AfterMark(results, fp), UNCHANGED <<recency, clock>>
  PROVE  LruInv' /\ FpsOf(results') = FpsOf(results)
<1> DEFINE m == results'
<1>1. /\ m \in Seq(Entries) /\ Len(m) = Len(results)
      /\ \A i \in 1..Len(results) : m[i].fp = results[i].fp /\ m[i].bytes = results[i].bytes
      BY MarkLeaves DEF LruInv
<1> HIDE DEF m
<1>2. /\ results \in Seq(Entries) /\ Sized(Entries) /\ Unique(results) /\ Fits(results)
      /\ recency = Keys(results) /\ clock \in 0..MaxClock
      /\ \A e \in ToSet(results) : e.bytes <= MaxEntryBytes
      BY EntriesAre DEF LruInv
<1>3. /\ DOMAIN results = 1..Len(results) /\ DOMAIN m = 1..Len(results)
      BY <1>1, <1>2
<1>4. Unique(m)
      BY <1>1, <1>2, <1>3 DEF Unique
<1>5. TotalBytes(m) = TotalBytes(results)
      BY <1>1, <1>2, TotalAgrees
<1>6. Fits(m)
      BY <1>1, <1>2, <1>5 DEF Fits
<1>7. \A e \in ToSet(m) : e.bytes <= MaxEntryBytes
      BY <1>1, <1>2, <1>3 DEF ToSet
<1>8. Keys(m) = Keys(results)
      BY <1>1, <1>3 DEF Keys
<1>9. FpsOf(m) = FpsOf(results)
      BY <1>1, <1>3 DEF FpsOf, ToSet
<1> QED  BY <1>1, <1>2, <1>4, <1>6, <1>7, <1>8, <1>9 DEF m, LruInv

LEMMA StepKeepsLru == LruInv /\ [Next]_vars => LruInv'
<1> SUFFICES ASSUME LruInv, [Next]_vars PROVE LruInv'
    OBVIOUS
<1>0. ASSUME UNCHANGED <<results, recency, clock>> PROVE LruInv'
      BY <1>0 DEF LruInv
<1>1. ASSUME NEW fp \in Fps, NEW g \in Gens, NEW b \in Sizes,
             NEW key \in BOOLEAN, NEW delivered \in BOOLEAN, Put(fp, g, b, key, delivered)
      PROVE  LruInv'
  <2> DEFINE e == [fp |-> fp, gen |-> g, bytes |-> b, storedAt |-> clock,
                   delivered |-> delivered, key |-> key]
  <2>1. e \in Entries /\ e.bytes = b /\ e.fp = fp
        BY DEF LruInv, Entries
  <2>2. /\ results' = AfterPut(results, e) /\ UNCHANGED clock
        /\ recency' = IF b > MaxEntryBytes THEN recency ELSE Recency(fp)
        BY <1>1 DEF Put
  <2> HIDE DEF e
  <2>3. CASE b > MaxEntryBytes
    <3>1. results' = results /\ recency' = recency
          BY <2>1, <2>2, <2>3 DEF AfterPut
    <3> QED  BY <1>0, <2>2, <3>1
  <2>4. CASE ~(b > MaxEntryBytes)
    <3>1. e.bytes <= MaxEntryBytes
          BY <2>1, <2>4, BoundsAssumption, StoreAssumption
    <3> QED  BY <2>1, <2>2, <2>4, <3>1, PutKeepsLru
  <2> QED  BY <2>3, <2>4
<1>2. ASSUME NEW fp \in Fps, NEW key \in BOOLEAN, Take(fp, key)
      PROVE  LruInv'
  <2>1. CASE TakeHits(results, fp, key, clock)
    <3>1. /\ Has(Swept(results, clock), fp) /\ recency' = Recency(fp) /\ UNCHANGED clock
          /\ results' = Touched(Swept(results, clock), fp, clock)
          BY <1>2, <2>1 DEF Take, AfterTake, TakeHits
    <3> QED  BY <3>1, TouchKeepsLru
  <2>2. CASE ~TakeHits(results, fp, key, clock)
    <3>1. results' = Swept(results, clock) /\ recency' = Recency(None) /\ UNCHANGED clock
          BY <1>2, <2>2 DEF Take, AfterTake
    <3> QED  BY <3>1, PartKeepsLru DEF Swept
  <2> QED  BY <2>1, <2>2
<1>3. ASSUME NEW fp \in Fps, MarkDelivered(fp)
      PROVE  LruInv'
      BY <1>3, MarkKeepsLru DEF MarkDelivered
<1>4. ASSUME NEW fp \in Fps, Join(fp)
      PROVE  LruInv'
      BY <1>0, <1>4 DEF Join
<1>5. ASSUME NEW fp \in Fps, Forget(fp)
      PROVE  LruInv'
  <2>1. results' = Without(results, fp) /\ recency' = Recency(None) /\ UNCHANGED clock
        BY <1>5 DEF Forget
  <2> QED  BY <2>1, PartKeepsLru DEF Without
<1>6. ASSUME NEW j \in Jobs, Settle(j)
      PROVE  LruInv'
      BY <1>0, <1>6 DEF Settle
<1>7. CASE Sweep
  <2>1. results' = Swept(results, clock) /\ recency' = Recency(None) /\ UNCHANGED clock
        BY <1>7 DEF Sweep
  <2> QED  BY <2>1, PartKeepsLru DEF Swept
<1>8. CASE Tick
      BY <1>8, BoundsAssumption DEF Tick, LruInv
<1>9. CASE UNCHANGED vars
      BY <1>0, <1>9 DEF vars
<1> QED  BY <1>1, <1>2, <1>3, <1>4, <1>5, <1>6, <1>7, <1>8, <1>9 DEF Next

LEMMA LruHolds == Spec => []LruInv
BY InitLru, StepKeepsLru, PTL DEF Spec

\* Whatever is put, replayed, marked, forgotten and swept, and in whichever order: the store
\* stays within its bounds of entries and of bytes, no entry is larger than allowed, and no
\* fingerprint has two.
THEOREM StoreIsBounded == Spec => []Bounded
<1>1. LruInv => Bounded
  <2> SUFFICES ASSUME LruInv PROVE Bounded
      OBVIOUS
  <2>1. \A i \in DOMAIN results : results[i].bytes <= MaxEntryBytes
        BY DEF LruInv, ToSet
  <2> QED  BY <2>1 DEF LruInv, Fits, Unique, Bounded
<1> QED  BY LruHolds, <1>1, PTL

\* The rest of the typing follows from the invariants of the two maps.
TypeInv ==
  /\ LruInv /\ FlightTypeOK
  /\ replayed \in [fp : Fps, gen : Gens, key : BOOLEAN] \cup {None}
  /\ forgotten \subseteq Jobs

LEMMA StepKeepsTypes == TypeInv /\ FlightInv /\ FlightInv' /\ [Next]_vars => TypeInv'
<1> SUFFICES ASSUME TypeInv, FlightInv', [Next]_vars PROVE TypeInv'
    OBVIOUS
<1>1. LruInv' /\ FlightTypeOK'
      BY StepKeepsLru DEF TypeInv, FlightInv
<1>2. inFlight \in [Fps -> Jobs \cup {None}] /\ job \in [Jobs -> Fps \cup {None}]
      BY DEF TypeInv, FlightTypeOK
<1>3. forgotten' \subseteq Jobs
  <2>1. ASSUME NEW fp \in Fps, Forget(fp) PROVE forgotten' \subseteq Jobs
        BY <1>2, <2>1 DEF Forget, TypeInv
  <2>2. ASSUME NEW j \in Jobs, Settle(j) PROVE forgotten' \subseteq Jobs
        BY <1>2, <2>2 DEF Settle, TypeInv
  <2>3. ASSUME UNCHANGED forgotten PROVE forgotten' \subseteq Jobs
        BY <2>3 DEF TypeInv
  <2> QED  BY <2>1, <2>2, <2>3
           DEF Next, Put, Take, MarkDelivered, Sweep, Join, Tick, vars, flightVars
<1>4. replayed' \in [fp : Fps, gen : Gens, key : BOOLEAN] \cup {None}
  <2>1. ASSUME NEW fp \in Fps, NEW key \in BOOLEAN, Take(fp, key), TakeHits(results, fp, key, clock)
        PROVE  replayed' \in [fp : Fps, gen : Gens, key : BOOLEAN]
    <3>1. replayed' = [fp |-> fp, gen |-> EntryOf(results, fp).gen, key |-> key]
          BY <2>1 DEF Take
    <3>2. results \in Seq(Entries) /\ Has(Swept(results, clock), fp)
          BY <2>1 DEF TakeHits, TypeInv, LruInv
    <3>3. Has(results, fp)
      <4>1. Swept(results, clock) \in Seq(Entries) /\ ToSet(Swept(results, clock)) \subseteq ToSet(results)
            BY <3>2, SweptLeaves
      <4> QED  BY <3>2, <4>1, HasInFps DEF FpsOf
    <3>4. EntryOf(results, fp) \in Entries
          BY <3>2, <3>3, EntryIn, ToSetIn
    <3> QED  BY <3>1, <3>4 DEF Entries
  <2>2. ASSUME UNCHANGED replayed PROVE replayed' \in [fp : Fps, gen : Gens, key : BOOLEAN] \cup {None}
        BY <2>2 DEF TypeInv
  <2>3. ASSUME NEW fp \in Fps, NEW key \in BOOLEAN, Take(fp, key)
        PROVE  replayed' \in [fp : Fps, gen : Gens, key : BOOLEAN] \cup {None}
        BY <2>1, <2>3 DEF Take
  <2> QED  BY <2>2, <2>3
           DEF Next, Put, MarkDelivered, Sweep, Join, Settle, Forget, Tick, vars
<1> QED  BY <1>1, <1>3, <1>4 DEF TypeInv

\* The entries, the promises and the history are what they are declared to be.
THEOREM StoreTypes == Spec => []TypeOK
<1>1. Init => TypeInv
  <2> SUFFICES ASSUME Init PROVE TypeInv
      OBVIOUS
  <2>1. LruInv
        BY InitLru
  <2> QED  BY <2>1 DEF Init, TypeInv, FlightTypeOK
<1>2. TypeInv => TypeOK
  <2> SUFFICES ASSUME TypeInv PROVE TypeOK
      OBVIOUS
  <2>1. recency \in Seq(Fps)
        BY EntriesAre, KeysIsSeq DEF TypeInv, LruInv
  <2> QED  BY <2>1 DEF TypeInv, LruInv, FlightTypeOK, TypeOK
<1> QED  BY InitFound, StepKeepsFlight, StepKeepsTypes, <1>1, <1>2, PTL DEF Spec

-----------------------------------------------------------------------------
(* Eviction *)

LEMMA PositionIs ==
  ASSUME LruInv, NEW x, NEW y, Before(results, x, y)
  PROVE  Position(x.fp) < Position(y.fp)
<1>1. PICK i \in DOMAIN results, j \in DOMAIN results : i < j /\ results[i] = x /\ results[j] = y
      BY DEF Before
<1>2. /\ DOMAIN recency = DOMAIN results
      /\ \A k \in DOMAIN results : recency[k] = results[k].fp
      BY DEF LruInv, Keys
<1>3. \A k \in DOMAIN results : /\ recency[k] = x.fp <=> k = i
                                /\ recency[k] = y.fp <=> k = j
      BY <1>1, <1>2 DEF LruInv, Unique
<1>4. Position(x.fp) = i /\ Position(y.fp) = j
      BY <1>2, <1>3 DEF Position
<1> QED  BY <1>1, <1>4

\* A step after which nothing new is stored.
LEMMA NothingStored ==
  ASSUME NEW S, results' \in Seq(S), ToSet(results') \subseteq ToSet(results)
  PROVE  ~SomethingStored
BY ToSetIn DEF SomethingStored, ToSet

EvictsOldest ==
  \A f \in Fps : Lost(f) /\ SomethingStored => \A k \in Fps : Kept(k) => Position(f) < Position(k)

LEMMA PutEvictsOldest ==
  ASSUME LruInv, NEW e \in Entries, e.bytes <= MaxEntryBytes, results' = AfterPut(results, e)
  PROVE  EvictsOldest
<1> DEFINE w == Without(results, e.fp)
           t == Append(w, e)
<1>1. results \in Seq(Entries) /\ Sized(Entries) /\ Keyed(Entries, Fps) /\ Unique(results) /\ Fits(results)
      BY EntriesAre DEF LruInv
<1>2. /\ w \in Seq(Entries) /\ ToSet(w) = {x \in ToSet(results) : x.fp # e.fp} /\ Unique(w)
      BY <1>1, WithoutLeaves
<1>3. AfterPut(results, e) = Trimmed(t)
  <2>1. ~(e.bytes > MaxEntryBytes)
        BY <1>1, StoreAssumption DEF Sized
  <2> QED  BY <2>1 DEF AfterPut
<1>4. \A x, y : Before(w, x, y) => Before(results, x, y)
      BY <1>1, OnlyKeepsOrder DEF Without
<1>5. Has(results, e.fp) /\ EntryOf(results, e.fp) = e => t = Touched(results, e.fp, clock)
      BY DEF Touched
<1> HIDE DEF w
<1>6. t \in Seq(Entries) /\ ToSet(t) = ToSet(w) \cup {e} /\ Unique(t)
  <2>1. e.fp \notin FpsOf(w)
        BY <1>2 DEF FpsOf
  <2> QED  BY <1>2, <2>1, AppendedAt, ToSetAppend, UniqueAppend
<1>7. \A x, y : Before(t, x, y) => Before(w, x, y) \/ y = e
      BY <1>2, BeforeInAppend
<1>8. t[Len(t)] = e
      BY <1>2, AppendedAt
<1> HIDE DEF t
<1>9. PICK n \in 0..Len(t) : /\ results' = Dropping(t, n)
                             /\ \A k \in 0..(n - 1) : ~Fits(Dropping(t, k))
      BY <1>3, <1>6, TrimmedDrops
<1>10. /\ results' \in Seq(Entries) /\ ToSet(results') \subseteq ToSet(t) /\ Unique(results')
       /\ Len(results') = Len(t) - n
       /\ \A i \in 1..(Len(t) - n) : results'[i] = t[n + i]
  <2> DEFINE d == Dropping(t, n)
  <2>1. /\ d \in Seq(Entries) /\ ToSet(d) \subseteq ToSet(t) /\ Unique(d)
        /\ Len(d) = Len(t) - n
        /\ \A i \in 1..(Len(t) - n) : d[i] = t[n + i]
        BY <1>6, DroppingLeaves
  <2>2. results' = d
        BY <1>9
  <2> HIDE DEF d
  <2> QED  BY <2>1, <2>2
<1> SUFFICES ASSUME NEW f \in Fps, Lost(f), NEW k \in Fps, Kept(k)
             PROVE  Position(f) < Position(k)
    BY DEF EvictsOldest
<1> DEFINE x == EntryOf(results, f)
           y == EntryOf(results, k)
<1>11. x \in ToSet(results) /\ x.fp = f /\ y \in ToSet(results) /\ y.fp = k
       BY <1>1, EntryIn DEF Lost, Kept
<1>12. y \in ToSet(results')
  <2>1. Has(results', k) /\ EntryOf(results', k) = y
        BY DEF Kept
  <2> QED  BY <1>10, <2>1, EntryIn
<1>13. x \notin ToSet(results') /\ f \notin FpsOf(results')
  <2>1. f \notin FpsOf(results')
        BY <1>10, HasInFps DEF Lost
  <2> QED  BY <1>11, <2>1 DEF FpsOf
<1> HIDE DEF x, y
\* The entry that was just put is the youngest, so it is still there.
<1>14. e \in ToSet(results')
  <2>1. Len(t) \in Nat /\ n \in Nat /\ n <= Len(t)
        BY <1>6
  <2>2. Len(t) - n \in 1..(Len(t) - n)
    <3>1. Len(results') # 0
          BY <1>10, <1>12 DEF ToSet
    <3> QED  BY <1>10, <2>1, <3>1
  <2>3. n + (Len(t) - n) = Len(t) /\ DOMAIN results' = 1..(Len(t) - n)
        BY <1>10, <2>1
  <2>4. results'[Len(t) - n] = e
        BY <1>8, <1>10, <2>2, <2>3
  <2> QED  BY <2>2, <2>3, <2>4 DEF ToSet
<1>15. f # e.fp
       BY <1>13, <1>14 DEF FpsOf
<1>16. x \in ToSet(t)
       BY <1>2, <1>6, <1>11, <1>15
\* Putting an entry that is there already is a touch, and evicts nothing.
<1>17. y # e
  <2> SUFFICES ASSUME y = e PROVE FALSE
      OBVIOUS
  <2>1. Has(results, e.fp) /\ EntryOf(results, e.fp) = e
        BY <1>1, <1>11, EntryIs
  <2>2. Fits(t)
        BY <1>1, <1>5, <2>1, TouchedLeaves
  <2>3. Dropping(t, 0) = t
    <3>1. SubSeq(t, 1, Len(t)) = t
          BY <1>6, WholePrefix
    <3> QED  BY <3>1 DEF Dropping
  <2>4. n = 0
    <3>1. n \in Nat
          BY <1>6
    <3> QED  BY <1>9, <2>2, <2>3, <3>1
  <2> QED  BY <1>9, <1>13, <1>16, <2>3, <2>4
<1>18. Before(t, x, y)
  <2>1. x \notin ToSet(Dropping(t, n)) /\ y \in ToSet(Dropping(t, n))
        BY <1>9, <1>12, <1>13
  <2> QED  BY <1>6, <1>16, <2>1, DroppedIsOlder
<1>19. Before(results, x, y)
       BY <1>4, <1>7, <1>17, <1>18
<1> QED  BY <1>11, <1>19, PositionIs

LEMMA StepEvictsOldest == LruInv /\ [Next]_vars => EvictsOldest
<1> SUFFICES ASSUME LruInv, [Next]_vars PROVE EvictsOldest
    OBVIOUS
<1>0. ASSUME ToSet(results') \subseteq ToSet(results), results' \in Seq(Entries) PROVE EvictsOldest
      BY <1>0, NothingStored DEF EvictsOldest
<1>1. results \in Seq(Entries)
      BY DEF LruInv
<1>2. ASSUME results' = results PROVE EvictsOldest
      BY <1>2 DEF EvictsOldest, Lost
<1>3. ASSUME NEW fp \in Fps, NEW g \in Gens, NEW b \in Sizes,
             NEW key \in BOOLEAN, NEW delivered \in BOOLEAN, Put(fp, g, b, key, delivered)
      PROVE  EvictsOldest
  <2> DEFINE e == [fp |-> fp, gen |-> g, bytes |-> b, storedAt |-> clock,
                   delivered |-> delivered, key |-> key]
  <2>1. e \in Entries /\ e.bytes = b /\ results' = AfterPut(results, e)
        BY <1>3 DEF LruInv, Entries, Put
  <2> HIDE DEF e
  <2>2. CASE b > MaxEntryBytes
        BY <1>2, <2>1, <2>2 DEF AfterPut
  <2>3. CASE ~(b > MaxEntryBytes)
    <3>1. e.bytes <= MaxEntryBytes
          BY <2>1, <2>3, BoundsAssumption, StoreAssumption
    <3> QED  BY <2>1, <3>1, PutEvictsOldest
  <2> QED  BY <2>2, <2>3
<1>4. ASSUME NEW fp \in Fps, NEW key \in BOOLEAN, Take(fp, key)
      PROVE  EvictsOldest
  <2>1. results' = AfterTake(results, fp, key, clock)
        BY <1>4 DEF Take
  <2> QED  BY <1>0, <1>1, <2>1, EntriesAre, TakeLeaves, SweptLeaves
<1>5. ASSUME NEW fp \in Fps, MarkDelivered(fp)
      PROVE  EvictsOldest
  <2>1. LruInv' /\ FpsOf(results') = FpsOf(results)
        BY <1>5, MarkKeepsLru DEF MarkDelivered
  <2>2. \A f \in Fps : Has(results, f) <=> Has(results', f)
        BY <1>1, <2>1, HasInFps DEF LruInv
  <2> QED  BY <2>2 DEF EvictsOldest, Lost
<1>6. ASSUME NEW fp \in Fps, Forget(fp)
      PROVE  EvictsOldest
      BY <1>0, <1>1, <1>6, WithoutLeaves DEF Forget
<1>7. CASE Sweep
      BY <1>0, <1>1, <1>7, SweptLeaves DEF Sweep
<1> QED  BY <1>2, <1>3, <1>4, <1>5, <1>6, <1>7 DEF Next, Join, Settle, Tick, vars

\* What a put evicts was used less recently than everything that stays.
THEOREM EvictionIsLru == Spec => EvictsLeastRecentlyUsed
<1>1. LruInv /\ [Next]_vars => [EvictsOldest]_vars
      BY StepEvictsOldest
<1> QED  BY LruHolds, <1>1, PTL DEF Spec, EvictsLeastRecentlyUsed, EvictsOldest

-----------------------------------------------------------------------------
(* The abstract memory *)

Mem(e) == [gen |-> e.gen, at |-> e.storedAt, told |-> e.delivered, key |-> e.key]

MemoryOf(rs) == [f \in Fps |-> IF Has(rs, f) THEN Mem(EntryOf(rs, f)) ELSE None]

LEMMA RememberedIs == Remembered = MemoryOf(results) /\ Remembered' = MemoryOf(results')
BY DEF Remembered, MemoryOf, Mem

LEMMA MemoryIs ==
  ASSUME NEW rs \in Seq(Entries), Unique(rs)
  PROVE  /\ \A e \in ToSet(rs) : e.fp \in Fps /\ MemoryOf(rs)[e.fp] = Mem(e) /\ Mem(e) # None
         /\ \A f \in Fps \ FpsOf(rs) : MemoryOf(rs)[f] = None
<1>1. ASSUME NEW e \in ToSet(rs)
      PROVE  e.fp \in Fps /\ MemoryOf(rs)[e.fp] = Mem(e) /\ Mem(e) # None
  <2>1. e \in Entries
        BY ToSetIn
  <2>2. e.fp \in Fps
        BY <2>1 DEF Entries
  <2>3. Mem(e) \in [gen : Gens, at : 0..MaxClock, told : BOOLEAN, key : BOOLEAN]
        BY <2>1 DEF Mem, Entries
  <2>4. Has(rs, e.fp) /\ EntryOf(rs, e.fp) = e
        BY EntryIs
  <2> QED  BY <2>2, <2>3, <2>4, NoneAssumption DEF MemoryOf
<1>2. ASSUME NEW f \in Fps \ FpsOf(rs) PROVE MemoryOf(rs)[f] = None
      BY HasInFps DEF MemoryOf
<1> QED  BY <1>1, <1>2

\* The memory of a fingerprint is that of its one entry.
LEMMA MemoryHas ==
  ASSUME NEW rs \in Seq(Entries), Unique(rs), NEW f \in Fps, MemoryOf(rs)[f] # None
  PROVE  \E e \in ToSet(rs) : e.fp = f
BY MemoryIs DEF FpsOf

\* Entries that go are results that are lost, wherever the others stand now.
LEMMA LessIsLost ==
  ASSUME NEW rs \in Seq(Entries), Unique(rs), NEW qs \in Seq(Entries), Unique(qs),
         NEW f \in Fps, \A e \in ToSet(qs) : e.fp = f => e \in ToSet(rs)
  PROVE  MemoryOf(qs)[f] \in {MemoryOf(rs)[f], None}
<1> SUFFICES ASSUME MemoryOf(qs)[f] # None
             PROVE  MemoryOf(qs)[f] = MemoryOf(rs)[f]
    OBVIOUS
<1>1. PICK e \in ToSet(qs) : e.fp = f
      BY MemoryHas
<1>2. MemoryOf(qs)[f] = Mem(e)
      BY <1>1, MemoryIs
<1>3. MemoryOf(rs)[f] = Mem(e)
      BY <1>1, MemoryIs
<1> QED  BY <1>2, <1>3

LEMMA PartIsLost ==
  ASSUME LruInv, LruInv', ToSet(results') \subseteq ToSet(results)
  PROVE  Memory!LosesAtMost(Remembered)
<1>1. /\ results \in Seq(Entries) /\ Unique(results)
      /\ results' \in Seq(Entries) /\ Unique(results')
      BY DEF LruInv
<1>2. Remembered = MemoryOf(results) /\ Remembered' = MemoryOf(results')
      BY RememberedIs
<1>3. \A f \in Fps : MemoryOf(results')[f] \in {MemoryOf(results)[f], None}
      BY <1>1, LessIsLost
<1> QED  BY <1>2, <1>3 DEF Memory!LosesAtMost

\* put remembers the new result, unless it is too large or does not fit, and forgets the old one.
LEMMA PutRemembers ==
  ASSUME LruInv, LruInv', NEW fp \in Fps, NEW g \in Gens, NEW b \in Sizes,
         NEW key \in BOOLEAN, NEW delivered \in BOOLEAN, Put(fp, g, b, key, delivered)
  PROVE  Memory!Next
<1> DEFINE e == [fp |-> fp, gen |-> g, bytes |-> b, storedAt |-> clock,
                 delivered |-> delivered, key |-> key]
           new == [gen |-> g, at |-> clock, told |-> delivered, key |-> key]
<1>1. /\ e \in Entries /\ e.bytes = b /\ e.fp = fp /\ Mem(e) = new
      /\ results' = AfterPut(results, e) /\ replayed' = None /\ UNCHANGED clock
      BY DEF Put, LruInv, Entries, Mem
<1>2. /\ results \in Seq(Entries) /\ Sized(Entries) /\ Unique(results)
      /\ results' \in Seq(Entries) /\ Unique(results')
      BY EntriesAre DEF LruInv
<1>3. Remembered = MemoryOf(results) /\ Remembered' = MemoryOf(results')
      BY RememberedIs
<1> HIDE DEF e
<1>4. CASE b > MaxEntryBytes
  <2>1. results' = results
        BY <1>1, <1>4 DEF AfterPut
  <2> QED  BY <1>1, <2>1, PartIsLost DEF Memory!Next, Memory!Lose
<1>5. CASE ~(b > MaxEntryBytes)
  <2>1. e.bytes <= MaxEntryBytes
        BY <1>1, <1>5, BoundsAssumption, StoreAssumption
  <2>2. \A x \in ToSet(results') : x = e \/ (x \in ToSet(results) /\ x.fp # e.fp)
        BY <1>1, <1>2, <2>1, PutLeaves
  <2>3. ASSUME NEW f \in Fps
        PROVE  MemoryOf(results')[f] \in {[MemoryOf(results) EXCEPT ![fp] = new][f], None}
    <3>1. CASE f = fp
      <4>1. [MemoryOf(results) EXCEPT ![fp] = new][f] = new
            BY <3>1 DEF MemoryOf
      <4>2. ASSUME MemoryOf(results')[f] # None PROVE MemoryOf(results')[f] = new
        <5>1. PICK x \in ToSet(results') : x.fp = f
              BY <1>2, <4>2, MemoryHas
        <5>2. x = e
              BY <1>1, <2>2, <3>1, <5>1
        <5> QED  BY <1>1, <1>2, <5>1, <5>2, MemoryIs
      <4> QED  BY <4>1, <4>2
    <3>2. CASE f # fp
      <4>1. [MemoryOf(results) EXCEPT ![fp] = new][f] = MemoryOf(results)[f]
            BY <3>2 DEF MemoryOf
      <4>2. \A x \in ToSet(results') : x.fp = f => x \in ToSet(results)
            BY <1>1, <2>2, <3>2
      <4> QED  BY <1>2, <4>1, <4>2, LessIsLost
    <3> QED  BY <3>1, <3>2
  <2>4. Memory!Remember(fp, g, key, delivered)
    <3>1. Memory!LosesAtMost([Remembered EXCEPT ![fp] = new])
          BY <1>3, <2>3 DEF Memory!LosesAtMost
    <3> QED  BY <1>1, <3>1 DEF Memory!Remember
  <2> QED  BY <2>4 DEF Memory!Next
<1> QED  BY <1>4, <1>5

\* take replays what is within its window, and a delivered result to those who asked only.
LEMMA TakeReplays ==
  ASSUME LruInv, LruInv', NEW fp \in Fps, NEW key \in BOOLEAN, Take(fp, key)
  PROVE  Memory!Next
<1> DEFINE sw == Swept(results, clock)
<1>1. /\ results \in Seq(Entries) /\ Sized(Entries) /\ Unique(results)
      /\ results' \in Seq(Entries) /\ Unique(results')
      BY EntriesAre DEF LruInv
<1>2. results' = AfterTake(results, fp, key, clock) /\ UNCHANGED clock
      BY DEF Take
<1>3. ToSet(results') = ToSet(sw) /\ ToSet(sw) = {x \in ToSet(results) : ~Expired(x, clock)}
      BY <1>1, <1>2, TakeLeaves, SweptLeaves
<1>4. Memory!LosesAtMost(Remembered)
      BY <1>3, PartIsLost
<1>5. CASE ~TakeHits(results, fp, key, clock)
      BY <1>2, <1>4, <1>5 DEF Take, Memory!Next, Memory!Lose
<1>6. CASE TakeHits(results, fp, key, clock)
  <2> DEFINE e == EntryOf(sw, fp)
  <2>1. e \in ToSet(sw) /\ e.fp = fp
    <3>1. sw \in Seq(Entries) /\ Has(sw, fp)
          BY <1>1, <1>6, SweptLeaves DEF TakeHits
    <3> HIDE DEF sw
    <3> QED  BY <3>1, EntryIn
  <2>2. e.key \/ key \/ ~e.delivered
        BY <1>6 DEF TakeHits, Replayable
  <2> HIDE DEF e
  <2>3. e \in ToSet(results) /\ e \in ToSet(results') /\ e \in Entries /\ ~Expired(e, clock)
        BY <1>1, <1>3, <2>1, ToSetIn
  <2>4. EntryOf(results, fp) = e
        BY <1>1, <2>1, <2>3, EntryIs
  <2>5. replayed' = [fp |-> fp, gen |-> e.gen, key |-> key]
        BY <1>6, <2>4 DEF Take
  <2>6. clock - e.storedAt <= Window
    <3>1. clock \in Nat /\ e.storedAt \in Nat
          BY <2>3, BoundsAssumption DEF LruInv, Entries
    <3> QED  BY <2>3, <3>1, StoreAssumption DEF Expired
  <2>7. /\ MemoryOf(results)[fp] = Mem(e) /\ MemoryOf(results')[fp] = Mem(e)
        /\ Mem(e) # None
        BY <1>1, <2>1, <2>3, MemoryIs
  <2>8. /\ Mem(e).gen = e.gen /\ Mem(e).at = e.storedAt
        /\ Mem(e).told = e.delivered /\ Mem(e).key = e.key
        BY DEF Mem
  <2>9. Remembered = MemoryOf(results) /\ Remembered' = MemoryOf(results')
        BY RememberedIs
  <2>10. Memory!Replay(fp, key)
    <3> HIDE DEF Memory!LosesAtMost
    <3> QED  BY <1>2, <1>4, <2>2, <2>5, <2>6, <2>7, <2>8, <2>9 DEF Memory!Replay
  <2> QED  BY <2>10 DEF Memory!Next
<1> QED  BY <1>5, <1>6

\* markDelivered tells the client, and leaves everything else as it is.
LEMMA MarkTells ==
  ASSUME LruInv, LruInv', NEW fp \in Fps, MarkDelivered(fp)
  PROVE  Memory!Next
<1>1. /\ results \in Seq(Entries) /\ Unique(results) /\ Has(results, fp)
      /\ results' \in Seq(Entries) /\ Unique(results')
      /\ results' = AfterMark(results, fp) /\ replayed' = None /\ UNCHANGED clock
      BY DEF LruInv, MarkDelivered
<1>2. /\ Len(results') = Len(results)
      /\ \A i \in 1..Len(results) :
           /\ results'[i].fp = results[i].fp /\ results'[i].gen = results[i].gen
           /\ results'[i].key = results[i].key /\ results'[i].storedAt = results[i].storedAt
           /\ results'[i].delivered = (results[i].fp = fp \/ results[i].delivered)
      BY <1>1, MarkLeaves
<1>3. Remembered = MemoryOf(results) /\ Remembered' = MemoryOf(results')
      BY RememberedIs
<1>4. ASSUME NEW f \in Fps
      PROVE  MemoryOf(results')[f] = [MemoryOf(results) EXCEPT ![fp].told = TRUE][f]
  <2>1. CASE f \notin FpsOf(results)
    <3>1. f \notin FpsOf(results') /\ f # fp
          BY <1>1, <1>2, <2>1, HasInFps DEF FpsOf, ToSet
    <3>2. MemoryOf(results')[f] = None /\ MemoryOf(results)[f] = None
          BY <1>1, <2>1, <3>1, MemoryIs
    <3> QED  BY <3>1, <3>2 DEF MemoryOf
  <2>2. CASE f \in FpsOf(results)
    <3>1. PICK i \in 1..Len(results) : results[i].fp = f
          BY <1>1, <2>2 DEF FpsOf, ToSet
    <3> DEFINE x == results[i]
               y == results'[i]
    <3>2. /\ x \in ToSet(results) /\ y \in ToSet(results') /\ x.fp = f /\ y.fp = f
          /\ y.gen = x.gen /\ y.key = x.key /\ y.storedAt = x.storedAt
          /\ y.delivered = (f = fp \/ x.delivered)
          BY <1>1, <1>2, <3>1 DEF ToSet
    <3> HIDE DEF x, y
    <3>3. MemoryOf(results)[f] = Mem(x) /\ MemoryOf(results')[f] = Mem(y)
          BY <1>1, <3>2, MemoryIs
    <3>4. DOMAIN MemoryOf(results) = Fps
          BY DEF MemoryOf
    <3>5. x \in Entries /\ x.delivered \in BOOLEAN
      <4>1. x \in Entries
            BY <1>1, <3>2, ToSetIn
      <4> QED  BY <4>1 DEF Entries
    <3>6. CASE f = fp
      <4>1. [MemoryOf(results) EXCEPT ![fp].told = TRUE][f] = [Mem(x) EXCEPT !.told = TRUE]
            BY <3>3, <3>4, <3>6
      <4>2. y.delivered = TRUE
            BY <3>2, <3>6
      <4>3. Mem(y) = [gen |-> x.gen, at |-> x.storedAt, told |-> TRUE, key |-> x.key]
            BY <3>2, <4>2, Zenon DEF Mem
      <4>4. [Mem(x) EXCEPT !.told = TRUE]
              = [gen |-> x.gen, at |-> x.storedAt, told |-> TRUE, key |-> x.key]
        <5> DEFINE m == Mem(x)
                   z == [m EXCEPT !.told = TRUE]
        <5>1. m \in [gen : Gens, at : 0..MaxClock, told : BOOLEAN, key : BOOLEAN]
              BY <3>5 DEF Mem, Entries
        <5>2. m.gen = x.gen /\ m.at = x.storedAt /\ m.key = x.key
              BY DEF Mem
        <5> HIDE DEF m
        <5>3. z = [m EXCEPT !.told = TRUE]
              BY Zenon
        <5> HIDE DEF z
        <5>4. z = [gen |-> m.gen, at |-> m.at, told |-> TRUE, key |-> m.key]
              BY <5>1, <5>3
        <5> QED  BY <5>2, <5>4, Zenon DEF z, m
      <4> QED  BY <3>3, <4>1, <4>3, <4>4
    <3>7. CASE f # fp
      <4>1. [MemoryOf(results) EXCEPT ![fp].told = TRUE][f] = Mem(x)
            BY <3>3, <3>4, <3>7
      <4>2. y.delivered = x.delivered
            BY <3>2, <3>5, <3>7
      <4>3. Mem(y) = Mem(x)
            BY <3>2, <4>2 DEF Mem
      <4> QED  BY <3>3, <4>1, <4>3
    <3> QED  BY <3>6, <3>7
  <2> QED  BY <2>1, <2>2
<1>5. Remembered' = [Remembered EXCEPT ![fp].told = TRUE]
  <2>1. MemoryOf(results') = [f \in Fps |-> MemoryOf(results')[f]]
        BY DEF MemoryOf
  <2>2. [MemoryOf(results) EXCEPT ![fp].told = TRUE]
          = [f \in Fps |-> [MemoryOf(results) EXCEPT ![fp].told = TRUE][f]]
        BY DEF MemoryOf
  <2> HIDE DEF MemoryOf
  <2> QED  BY <1>3, <1>4, <2>1, <2>2
<1>6. Remembered[fp] # None
  <2>1. EntryOf(results, fp) \in ToSet(results) /\ EntryOf(results, fp).fp = fp
        BY <1>1, EntryIn
  <2> QED  BY <1>1, <1>3, <2>1, MemoryIs
<1> QED  BY <1>1, <1>5, <1>6 DEF Memory!Next, Memory!Tell

LEMMA StepImplements == LruInv /\ LruInv' /\ [Next]_vars => [Memory!Next]_(Memory!vars)
<1> SUFFICES ASSUME LruInv, LruInv', [Next]_vars
             PROVE  Memory!Next \/ UNCHANGED Memory!vars
    OBVIOUS
<1>1. ASSUME ToSet(results') \subseteq ToSet(results), replayed' = None, UNCHANGED clock
      PROVE  Memory!Next
      BY <1>1, PartIsLost DEF Memory!Next, Memory!Lose
<1>2. results \in Seq(Entries)
      BY DEF LruInv
<1>3. ASSUME NEW fp \in Fps, Forget(fp) PROVE Memory!Next
  <2>1. ToSet(results') \subseteq ToSet(results)
        BY <1>2, <1>3, WithoutLeaves DEF Forget
  <2> QED  BY <1>1, <1>3, <2>1 DEF Forget
<1>4. CASE Sweep
  <2>1. ToSet(results') \subseteq ToSet(results)
        BY <1>2, <1>4, SweptLeaves DEF Sweep
  <2> QED  BY <1>1, <1>4, <2>1 DEF Sweep
<1>5. CASE Tick
  <2>1. Remembered' = Remembered
        BY <1>5, RememberedIs DEF Tick
  <2> QED  BY <1>5, <2>1 DEF Tick, Memory!Next, Memory!Tick
<1>6. ASSUME NEW fp \in Fps, Join(fp) PROVE Memory!Next
      BY <1>1, <1>6 DEF Join
<1>7. ASSUME NEW j \in Jobs, Settle(j) PROVE Memory!Next
      BY <1>1, <1>7 DEF Settle
<1>8. CASE UNCHANGED vars
  <2>1. Remembered' = Remembered
        BY <1>8, RememberedIs DEF vars
  <2> QED  BY <1>8, <2>1 DEF vars, Memory!vars
<1> QED  BY <1>3, <1>4, <1>5, <1>6, <1>7, <1>8, PutRemembers, TakeReplays, MarkTells DEF Next

\* The map, its LRU order, its window and its eviction together are a memory that loses results
\* but never replays one past its window, or one delivered to a caller who did not ask for it.
THEOREM StoreIsAReplayMemory == Spec => ImplementsReplayMemory
<1>1. Init => Memory!Init
  <2> SUFFICES ASSUME Init PROVE Memory!Init
      OBVIOUS
  <2>1. results = <<>> /\ clock = 0 /\ replayed = None
        BY DEF Init
  <2>2. \A f \in Fps : ~Has(results, f)
        BY <2>1 DEF Has
  <2> QED  BY <2>1, <2>2 DEF Memory!Init, Remembered
<1> QED  BY LruHolds, <1>1, StepImplements, PTL DEF Spec, ImplementsReplayMemory, Memory!Spec
=============================================================================
