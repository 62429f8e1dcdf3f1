--------------------------- MODULE AdmissionProofs ---------------------------
(***************************************************************************)
(* What the front of the router promises for any requests, any number of   *)
(* them, and any order of their steps: who is served with which            *)
(* credential, how often, and with how many gcloud processes.              *)
(*                                                                         *)
(* The invariants follow a request through the gates: a handler that is    *)
(* past its first turn has passed them (PassedTheGates), and one that      *)
(* waits for a token brought no key and found none (AsksForNoKey).  For    *)
(* gcloud, the one process that may run is the one that is pending.        *)
(* The body that an answer reads its ids from is the one that the request  *)
(* brought, and the verdict is that of this body (BodyInv).  The counters  *)
(* are the number of the requests that were counted (Tally); a step adds   *)
(* one request to them and one to one of the statuses that are summed.     *)
(***************************************************************************)
EXTENDS Admission, FiniteSetTheorems, TLAPS

\* Of these facts, only those on numbers and sequences are used: no limit of the store matters.
F == INSTANCE Facts WITH MaxEntries <- 0, MaxTotalBytes <- 0, MaxEntryBytes <- 0, Window <- 0

-----------------------------------------------------------------------------
(* The rate limit by itself: no client gets more than the burst, what the  *)
(* rate allows and what the sweep gives away, for any rate, burst, age and *)
(* clock.                                                                  *)
(*                                                                         *)
(* The inductive invariant relates a bucket to the time of its last check: *)
(* what was admitted and what is left in it never exceed the burst and the *)
(* refill of the time between the beginning of the observation and that    *)
(* check.  The clock that fills the bucket may have stepped back since, so *)
(* it has seen at most the real time.  A bucket that is forgotten has not  *)
(* been checked for so long that the rate and the gain cover a burst.      *)

Given(i) == forgotten[i] * Gain

LastCheck(i) ==
  /\ touched[i] <= Real /\ since <= Real
  /\ touched[i] < since => admitted[i] = 0

Covered(i) ==
  /\ bucket[i].last + stepped >= touched[i]
  /\ bucket[i].tokens <= Burst
  /\ touched[i] >= since =>
       /\ Cost * admitted[i] + bucket[i].tokens <= Burst + Given(i) + Rate * (touched[i] - since)
       /\ Cost * admitted[i] <= Burst + Given(i) + Rate * (touched[i] - since)

Forgotten(i) == Cost * admitted[i] <= Given(i) + Rate * (Real - since)

RateInv ==
  /\ RateTypeOK
  /\ \A i \in Ips : LastCheck(i) /\ IF bucket[i] = None THEN Forgotten(i) ELSE Covered(i)

-----------------------------------------------------------------------------
(* Arithmetic of the rate *)

\* More time refills more.
LEMMA RateGrows ==
  ASSUME NEW a \in Int, NEW b \in Int, a <= b
  PROVE  Rate * a <= Rate * b /\ Rate * a \in Int /\ Rate * b \in Int
<1>1. Rate \in Nat  BY RateAssumption
<1>2. Rate * (b - a) >= 0  BY <1>1, SMT
<1>3. Rate * (b - a) = Rate * b - Rate * a  BY <1>1, SMT
<1> QED  BY <1>1, <1>2, <1>3, SMT

\* The refills of two stretches of time add up.
LEMMA RateAdds ==
  ASSUME NEW a \in Int, NEW b \in Int, NEW c \in Int
  PROVE  Rate * (a - b) + Rate * (b - c) = Rate * (a - c)
BY RateAssumption, SMT

\* The gain is what is missing to a burst.
LEMMA GainCovers == Gain \in Nat /\ Burst <= Gain + Rate * MaxAge
BY RateAssumption DEF Gain

LEMMA GivenIsNat ==
  ASSUME RateTypeOK, NEW i \in Ips
  PROVE  Given(i) \in Nat
BY GainCovers DEF RateTypeOK, Given

-----------------------------------------------------------------------------
(* The invariant *)

LEMMA BucketHasFields ==
  ASSUME RateTypeOK, NEW i \in Ips, bucket[i] # None
  PROVE  bucket[i].tokens \in Int /\ bucket[i].last \in Int
BY DEF RateTypeOK, Buckets

\* A client that has not been seen since the start, or has a bucket, is within its allowance.
LEMMA CoveredIsBounded ==
  ASSUME RateTypeOK, NEW i \in Ips, LastCheck(i), bucket[i] # None, Covered(i)
  PROVE  Cost * admitted[i] <= Burst + Given(i) + Rate * (Real - since)
<1>1. touched[i] \in Int /\ since \in Int /\ Real \in Int /\ admitted[i] \in Nat /\ Given(i) \in Nat
  BY GivenIsNat DEF RateTypeOK, Real
<1>2. CASE touched[i] < since
  <2>1. Cost * admitted[i] = 0
    BY <1>2, RateAssumption DEF LastCheck
  <2>2. Rate * 0 <= Rate * (Real - since) /\ Rate * (Real - since) \in Int
    BY <1>1, RateGrows DEF LastCheck
  <2> QED
    BY <1>1, <2>1, <2>2, RateAssumption, SMT
<1>3. CASE touched[i] >= since
  <2>1. Rate * (touched[i] - since) <= Rate * (Real - since)
        /\ Rate * (touched[i] - since) \in Int /\ Rate * (Real - since) \in Int
    BY <1>1, RateGrows DEF LastCheck
  <2> QED
    BY <1>1, <1>3, <2>1, RateAssumption, SMT DEF Covered
<1> QED
  BY <1>1, <1>2, <1>3

LEMMA RateInvIsBound == RateInv => BurstBounded
<1> SUFFICES ASSUME RateInv, NEW i \in Ips
             PROVE  Cost * admitted[i] <= Burst + Given(i) + Rate * (Real - since)
  BY DEF BurstBounded, Given
<1>1. CASE bucket[i] # None
  BY <1>1, CoveredIsBounded DEF RateInv
<1>2. CASE bucket[i] = None
  <2>1. Real - since \in Int /\ Cost * admitted[i] \in Int /\ Given(i) \in Nat
    BY RateAssumption, GivenIsNat DEF RateInv, RateTypeOK, Real
  <2> QED
    BY <1>2, <2>1, RateGrows, RateAssumption DEF RateInv, Forgotten
<1> QED
  BY <1>1, <1>2

LEMMA InitRateInv == RateInit => RateInv
<1> SUFFICES ASSUME RateInit PROVE RateInv
  OBVIOUS
<1>1. RateTypeOK
  BY DEF RateInit, RateTypeOK
<1>2. ASSUME NEW i \in Ips PROVE LastCheck(i) /\ bucket[i] = None /\ Forgotten(i)
  BY RateAssumption, GainCovers DEF RateInit, LastCheck, Forgotten, Given, Real
<1> QED
  BY <1>1, <1>2 DEF RateInv

\* What the bucket of a client holds when it is refilled, before it is charged.
LEMMA RefilledIsCovered ==
  ASSUME RateInv, NEW i \in Ips
  PROVE  /\ RefilledTokens(i) \in Int /\ RefilledTokens(i) <= Burst
         /\ Cost * admitted[i] + RefilledTokens(i) <= Burst + Given(i) + Rate * (Real - since)
<1>1. /\ touched[i] \in Int /\ since \in Int /\ Real \in Int /\ wall \in Int /\ stepped \in Nat
      /\ admitted[i] \in Nat /\ Real = wall + stepped /\ Given(i) \in Nat
  BY GivenIsNat DEF RateInv, RateTypeOK, Real
<1>2. Cost * admitted[i] \in Nat /\ Burst \in Nat
  BY <1>1, RateAssumption
<1>3. Rate * 0 <= Rate * (Real - since) /\ Rate * (Real - since) \in Int /\ Rate * 0 = 0
  BY <1>1, RateGrows, RateAssumption DEF RateInv, LastCheck
<1>4. CASE bucket[i] = None
  <2>1. RefilledTokens(i) = Burst
    BY <1>1, <1>2, <1>4, RateAssumption DEF RefilledTokens
  <2> QED
    BY <1>1, <1>2, <1>3, <1>4, <2>1 DEF RateInv, Forgotten
<1>5. CASE bucket[i] # None
  <2> DEFINE b == bucket[i]
  <2>1. b.tokens \in Int /\ b.last \in Int
    BY <1>5, BucketHasFields DEF RateInv
  <2>2. LastCheck(i) /\ Covered(i)
    BY <1>5 DEF RateInv
  <2>3. wall - b.last <= Real - touched[i]
    BY <1>1, <2>1, <2>2 DEF Covered
  <2>4. Rate * (wall - b.last) <= Rate * (Real - touched[i])
        /\ Rate * (wall - b.last) \in Int /\ Rate * (Real - touched[i]) \in Int
    BY <1>1, <2>1, <2>3, RateGrows
  <2>5. (wall - b.last) * Rate = Rate * (wall - b.last)
    BY <1>1, <2>1, RateAssumption
  <2>6. /\ RefilledTokens(i) \in Int /\ RefilledTokens(i) <= Burst
        /\ RefilledTokens(i) <= b.tokens + Rate * (Real - touched[i])
    BY <1>2, <1>5, <2>1, <2>4, <2>5 DEF RefilledTokens
  <2>7. CASE touched[i] < since
    <3>1. Cost * admitted[i] = 0
      BY <2>2, <2>7, RateAssumption DEF LastCheck
    <3> QED
      BY <1>1, <1>2, <1>3, <2>6, <3>1
  <2>8. CASE touched[i] >= since
    <3>1. Rate * (Real - touched[i]) + Rate * (touched[i] - since) = Rate * (Real - since)
      BY <1>1, RateAdds
    <3>2. Rate * (touched[i] - since) \in Int
      BY <1>1, RateAssumption
    <3>3. Cost * admitted[i] + b.tokens <= Burst + Given(i) + Rate * (touched[i] - since)
      BY <2>2, <2>8 DEF Covered
    <3> QED
      BY <1>1, <1>2, <1>3, <2>1, <2>4, <2>6, <3>1, <3>2, <3>3
  <2> QED
    BY <1>1, <2>7, <2>8
<1> QED
  BY <1>4, <1>5

-----------------------------------------------------------------------------
(* The steps *)

LEMMA TypeStep ==
  ASSUME RateInv, [RateNext]_rateVars
  PROVE  RateTypeOK'
<1> USE DEF RateInv, RateTypeOK
<1>1. ASSUME NEW i \in Ips, CheckRateLimit(i) PROVE RateTypeOK'
  <2>1. RefilledTokens(i) - (IF Passes(i) THEN Cost ELSE 0) \in Int
    BY RefilledIsCovered, RateAssumption
  <2>2. bucket' \in [Ips -> Buckets \cup {None}]
    BY <1>1, <2>1 DEF CheckRateLimit, Buckets
  <2>3. admitted' \in [Ips -> Nat] /\ touched' \in [Ips -> Int]
    BY <1>1 DEF CheckRateLimit, Real
  <2> QED
    BY <1>1, <2>2, <2>3 DEF CheckRateLimit
<1>2. CASE SweepBuckets  BY <1>2 DEF SweepBuckets
<1>3. CASE ClockTicks  BY <1>3 DEF ClockTicks
<1>4. CASE StartObserving  BY <1>4 DEF StartObserving, Real
<1>5. ASSUME NEW d \in Steps, ClockStepsBack(d) PROVE RateTypeOK'
  BY <1>5, RateAssumption DEF ClockStepsBack
<1>6. CASE UNCHANGED rateVars  BY <1>6 DEF rateVars
<1> QED
  BY <1>1, <1>2, <1>3, <1>4, <1>5, <1>6 DEF RateNext

\* A client that a step does not look at keeps its allowance while real time only grows.
LEMMA OthersStay ==
  ASSUME RateInv, RateTypeOK', NEW i \in Ips,
         UNCHANGED <<since, bucket[i], admitted[i], touched[i], forgotten[i]>>,
         stepped <= stepped', Real <= Real'
  PROVE  (LastCheck(i) /\ IF bucket[i] = None THEN Forgotten(i) ELSE Covered(i))'
<1>1. /\ touched[i] \in Int /\ since \in Int /\ Real \in Int /\ Real' \in Int
      /\ stepped \in Nat /\ stepped' \in Nat /\ admitted[i] \in Nat
      /\ Given(i) \in Nat /\ Given(i)' = Given(i)
  BY GivenIsNat DEF RateInv, RateTypeOK, Real, Given
<1>2. LastCheck(i)'
  BY <1>1 DEF RateInv, LastCheck
<1>3. CASE bucket[i] = None
  <2>1. Rate * (Real - since) <= Rate * (Real' - since)
        /\ Rate * (Real - since) \in Int /\ Rate * (Real' - since) \in Int
    BY <1>1, RateGrows
  <2>2. Cost * admitted[i] \in Int
    BY <1>1, RateAssumption
  <2> QED
    <3>1. Cost * admitted[i] <= Given(i) + Rate * (Real - since)
      BY <1>3 DEF RateInv, Forgotten
    <3>2. Cost * admitted[i] <= Given(i) + Rate * (Real' - since)
      BY <1>1, <2>1, <2>2, <3>1
    <3>3. Forgotten(i)'
      BY <1>1, <3>2 DEF Forgotten
    <3> QED
      BY <1>2, <1>3, <3>3
<1>4. CASE bucket[i] # None
  <2>1. bucket[i].last \in Int
    BY <1>4, BucketHasFields DEF RateInv
  <2>2. bucket'[i] = bucket[i] /\ bucket'[i].last + stepped' >= touched'[i]
    BY <1>1, <1>4, <2>1 DEF RateInv, Covered
  <2> QED
    <3>1. Covered(i)
      BY <1>4 DEF RateInv
    <3>2. Covered(i)'
      BY <1>1, <2>2, <3>1 DEF Covered
    <3> QED
      BY <1>2, <1>4, <2>2, <3>2
<1> QED
  BY <1>3, <1>4

LEMMA CheckStep ==
  ASSUME RateInv, RateTypeOK', NEW i \in Ips, CheckRateLimit(i)
  PROVE  RateInv'
<1>1. /\ touched[i] \in Int /\ since \in Int /\ Real \in Int /\ wall \in Int /\ stepped \in Nat
      /\ admitted[i] \in Nat /\ Real = wall + stepped /\ Given(i) \in Nat
  BY GivenIsNat DEF RateInv, RateTypeOK, Real
<1>2. Real' = Real /\ since' = since /\ stepped' = stepped /\ wall' = wall /\ Given(i)' = Given(i)
  BY DEF CheckRateLimit, Real, Given
<1>3. ASSUME NEW j \in Ips, j # i
      PROVE  (LastCheck(j) /\ IF bucket[j] = None THEN Forgotten(j) ELSE Covered(j))'
  <2>1. UNCHANGED <<since, bucket[j], admitted[j], touched[j], forgotten[j]>>
    BY <1>3 DEF CheckRateLimit, RateInv, RateTypeOK
  <2> QED
    BY <1>1, <1>2, <2>1, OthersStay
<1>4. (LastCheck(i) /\ IF bucket[i] = None THEN Forgotten(i) ELSE Covered(i))'
  <2> DEFINE charged == RefilledTokens(i) - (IF Passes(i) THEN Cost ELSE 0)
             more == IF Passes(i) THEN 1 ELSE 0
  <2>1. /\ RefilledTokens(i) \in Int /\ RefilledTokens(i) <= Burst
        /\ Cost * admitted[i] + RefilledTokens(i) <= Burst + Given(i) + Rate * (Real - since)
    BY RefilledIsCovered
  <2>2. touched'[i] = Real /\ bucket'[i] = [tokens |-> charged, last |-> wall]
        /\ admitted'[i] = admitted[i] + more
    BY DEF CheckRateLimit, RateInv, RateTypeOK
  <2>3. bucket'[i] # None /\ bucket'[i].tokens = charged /\ bucket'[i].last = wall
    <3>1. charged \in Int
      BY <2>1, RateAssumption
    <3> QED
      BY <1>1, <2>2, <3>1, RateAssumption
  <2>4. LastCheck(i)'
    BY <1>1, <1>2, <2>2 DEF LastCheck, RateInv
  <2>5. Cost * admitted'[i] = Cost * admitted[i] + Cost * more
        /\ Cost * more = (IF Passes(i) THEN Cost ELSE 0)
        /\ Cost * admitted[i] \in Nat /\ Cost * more \in Nat
    BY <1>1, <2>2, RateAssumption
  <2>6. Rate * (Real - since) \in Int
    BY <1>1, RateAssumption
  <2>7. Cost * admitted'[i] + charged <= Burst + Given(i) + Rate * (Real - since)
    <3>1. charged = RefilledTokens(i) - Cost * more
      BY <2>5
    <3> HIDE DEF charged, more
    <3> QED
      BY <1>1, <2>1, <2>5, <2>6, <3>1, RateAssumption
  <2>8. charged <= Burst
    BY <2>1, RateAssumption
  <2>9. Cost * admitted'[i] <= Burst + Given(i) + Rate * (Real - since)
    <3>1. CASE Passes(i)
      BY <1>1, <2>1, <2>5, <2>6, <3>1, RateAssumption DEF Passes
    <3>2. CASE ~Passes(i)
      <4>1. Cost * admitted[i] <= Burst + Given(i) + Rate * (Real - since)
        BY RateInvIsBound DEF BurstBounded, Given
      <4> QED
        BY <1>1, <2>5, <2>6, <3>2, <4>1, RateAssumption
    <3> QED
      BY <3>1, <3>2
  <2>10. Covered(i)'
    BY <1>1, <1>2, <2>2, <2>3, <2>7, <2>8, <2>9 DEF Covered
  <2> QED
    BY <2>3, <2>4, <2>10
<1> QED
  BY <1>3, <1>4 DEF RateInv

LEMMA SweepStep ==
  ASSUME RateInv, RateTypeOK', SweepBuckets
  PROVE  RateInv'
<1> SUFFICES ASSUME NEW i \in Ips
             PROVE  (LastCheck(i) /\ IF bucket[i] = None THEN Forgotten(i) ELSE Covered(i))'
  BY DEF RateInv
<1>1. /\ touched[i] \in Int /\ since \in Int /\ Real \in Int /\ wall \in Int /\ stepped \in Nat
      /\ admitted[i] \in Nat /\ Real = wall + stepped /\ Given(i) \in Nat /\ forgotten[i] \in Nat
  BY GivenIsNat DEF RateInv, RateTypeOK, Real
<1>2. Real' = Real /\ UNCHANGED <<since, wall, stepped, admitted, touched>>
  BY DEF SweepBuckets, Real
<1>3. /\ bucket'[i] = IF Stale(i) THEN None ELSE bucket[i]
      /\ forgotten'[i] = forgotten[i] + IF Stale(i) THEN 1 ELSE 0
  BY DEF SweepBuckets
<1>4. CASE ~Stale(i)
  <2>1. forgotten'[i] = forgotten[i] /\ bucket'[i] = bucket[i]
    BY <1>1, <1>3, <1>4
  <2> QED
    BY <1>1, <1>2, <2>1, OthersStay
<1>5. CASE Stale(i)
  <2>1. bucket[i].last \in Int /\ LastCheck(i) /\ Covered(i) /\ wall - bucket[i].last > MaxAge
    BY <1>5, BucketHasFields DEF Stale, RateInv
  <2>2. MaxAge <= Real - touched[i]
    BY <1>1, <2>1, RateAssumption DEF Covered
  <2>3. Burst <= Gain + Rate * (Real - touched[i]) /\ Rate * (Real - touched[i]) \in Int
    <3>1. Rate * MaxAge <= Rate * (Real - touched[i])
          /\ Rate * MaxAge \in Int /\ Rate * (Real - touched[i]) \in Int
      BY <1>1, <2>2, RateGrows, RateAssumption
    <3> QED
      BY <3>1, GainCovers, RateAssumption
  <2>4. Given(i)' = Given(i) + Gain /\ Gain \in Nat
    <3>1. forgotten'[i] = forgotten[i] + 1
      BY <1>3, <1>5
    <3> QED
      BY <1>1, <3>1, GainCovers DEF Given
  <2>5. Cost * admitted[i] <= Given(i) + Gain + Rate * (Real - since)
    <3>1. CASE touched[i] < since
      <4>1. Cost * admitted[i] = 0
        BY <2>1, <3>1, RateAssumption DEF LastCheck
      <4>2. Rate * 0 <= Rate * (Real - since) /\ Rate * 0 = 0 /\ Rate * (Real - since) \in Int
        BY <1>1, <2>1, RateGrows, RateAssumption DEF LastCheck
      <4> QED
        BY <1>1, <2>4, <4>1, <4>2
    <3>2. CASE touched[i] >= since
      <4>1. Rate * (Real - touched[i]) + Rate * (touched[i] - since) = Rate * (Real - since)
        BY <1>1, RateAdds
      <4>2. Rate * (touched[i] - since) \in Int /\ Rate * (Real - since) \in Int
            /\ Cost * admitted[i] \in Int
        BY <1>1, RateAssumption
      <4>3. Cost * admitted[i] <= Burst + Given(i) + Rate * (touched[i] - since)
        BY <2>1, <3>2 DEF Covered
      <4> QED
        BY <1>1, <2>3, <2>4, <4>1, <4>2, <4>3, RateAssumption
    <3> QED
      BY <1>1, <3>1, <3>2
  <2> QED
    BY <1>2, <1>3, <1>5, <2>1, <2>4, <2>5 DEF Forgotten, LastCheck
<1> QED
  BY <1>4, <1>5

LEMMA ObserveStep ==
  ASSUME RateInv, RateTypeOK', StartObserving
  PROVE  RateInv'
<1> SUFFICES ASSUME NEW i \in Ips
             PROVE  (LastCheck(i) /\ IF bucket[i] = None THEN Forgotten(i) ELSE Covered(i))'
  BY DEF RateInv
<1>1. /\ touched[i] \in Int /\ since \in Int /\ Real \in Int /\ stepped \in Nat
  BY DEF RateInv, RateTypeOK, Real
<1>2. Real' = Real /\ since' = Real /\ admitted'[i] = 0 /\ Given(i)' = 0
      /\ UNCHANGED <<stepped, bucket, touched>>
  <2>1. forgotten'[i] = 0
    BY DEF StartObserving
  <2> QED
    BY <2>1, GainCovers DEF StartObserving, Real, Given
<1>3. LastCheck(i)'
  BY <1>1, <1>2 DEF LastCheck, RateInv
<1>4. Cost * 0 = 0 /\ Rate * (Real - Real) = 0
  BY <1>1, RateAssumption
<1>5. CASE bucket[i] = None
  BY <1>2, <1>3, <1>4, <1>5 DEF Forgotten
<1>6. CASE bucket[i] # None
  <2>1. LastCheck(i) /\ Covered(i) /\ bucket[i].tokens \in Int
    BY <1>6, BucketHasFields DEF RateInv
  <2>2. touched[i] >= Real => Rate * (touched[i] - Real) = 0
    <3>1. touched[i] >= Real => touched[i] = Real
      BY <1>1, <2>1 DEF LastCheck
    <3> QED
      BY <1>4, <3>1
  <2>3. /\ bucket'[i] = bucket[i] /\ touched'[i] = touched[i] /\ stepped' = stepped
        /\ Cost * admitted'[i] = 0
    BY <1>2, <1>4
  <2>4. bucket[i].last + stepped >= touched[i] /\ bucket[i].tokens <= Burst
    BY <2>1 DEF Covered
  <2>5. touched[i] >= Real =>
          /\ 0 + bucket[i].tokens <= Burst + 0 + Rate * (touched[i] - Real)
          /\ 0 <= Burst + 0 + Rate * (touched[i] - Real)
    BY <2>1, <2>2, <2>4, RateAssumption
  <2>6. Covered(i)'
    BY <1>2, <2>3, <2>4, <2>5 DEF Covered
  <2> QED
    BY <1>2, <1>3, <1>6, <2>6
<1> QED
  BY <1>5, <1>6

LEMMA RateInvStep == RateInv /\ [RateNext]_rateVars => RateInv'
<1> SUFFICES ASSUME RateInv, [RateNext]_rateVars PROVE RateInv'
  OBVIOUS
<1> RateTypeOK'
  BY TypeStep
<1>1. ASSUME NEW i \in Ips, CheckRateLimit(i) PROVE RateInv'
  BY <1>1, CheckStep
<1>2. CASE SweepBuckets
  BY <1>2, SweepStep
<1>3. CASE StartObserving
  BY <1>3, ObserveStep
<1>4. ASSUME UNCHANGED <<since, bucket, admitted, touched, forgotten>>, stepped <= stepped', Real <= Real'
      PROVE  RateInv'
  BY <1>4, OthersStay DEF RateInv
<1>5. CASE ClockTicks
  BY <1>4, <1>5 DEF ClockTicks, Real, RateInv, RateTypeOK
<1>6. ASSUME NEW d \in Steps, ClockStepsBack(d) PROVE RateInv'
  <2>1. stepped <= stepped' /\ Real <= Real'
    BY <1>6, RateAssumption DEF ClockStepsBack, Real, RateInv, RateTypeOK
  <2> QED
    BY <1>4, <1>6, <2>1 DEF ClockStepsBack
<1>7. CASE UNCHANGED rateVars
  BY <1>4, <1>7 DEF rateVars, Real, RateInv, RateTypeOK
<1> QED
  BY <1>1, <1>2, <1>3, <1>5, <1>6, <1>7 DEF RateNext

-----------------------------------------------------------------------------

\* In any interval no client is admitted more often than its burst, the rate and the gain from the
\* buckets that were forgotten allow (checkRateLimit with sweepRateLimitBuckets), for every rate,
\* burst and age and whatever the clock does.
THEOREM BurstIsBounded == RateSpec => []BurstBounded
<1>1. RateSpec => []RateInv
  BY InitRateInv, RateInvStep, PTL DEF RateSpec
<1> QED
  BY <1>1, RateInvIsBound, PTL

-----------------------------------------------------------------------------
(* What is known of a request *)

Typed ==
  /\ pc \in [Slots -> Places]
  /\ DOMAIN answer = Slots /\ DOMAIN credential = Slots /\ DOMAIN joined = Slots
  /\ \E w \in Workloads : call = w.calls

PassedTheGates(s) ==
  /\ pc[s] \notin {"new", "answered"} => Gate(call[s]) = None
  /\ pc[s] = "answered" /\ answer[s].status \in {200, 202} =>
       Gate(call[s]) = None \/ Gate(call[s]).status \in {200, 202}

AsksForNoKey(s) ==
  /\ pc[s] = "token" => KeyOf(call[s]) = None
  /\ credential[s] \in {"env", "gcloud"} => call[s].keys \cap KeyHeaders = {}

OneRun == IF pending = None THEN running = {} ELSE running = {pending}

GateInv ==
  /\ Typed
  /\ \A s \in Slots : call[s] # None => PassedTheGates(s) /\ AsksForNoKey(s)

-----------------------------------------------------------------------------
(* The gates and the keys *)

\* Only a call that brings no key uses the one of the environment, or none.
LEMMA KeysOfCallsGoFirst ==
  ASSUME NEW r, KeyOf(r) \in {"env", None}
  PROVE  r.keys \cap KeyHeaders = {}
BY AdmissionAssumption DEF KeyOf, KeyHeaders, Credentials

LEMMA InitGateInv == Init => GateInv
<1> SUFFICES ASSUME Init PROVE GateInv
  OBVIOUS
<1>1. Typed
  BY DEF Init, Typed, Places
<1>2. ASSUME NEW s \in Slots PROVE PassedTheGates(s) /\ AsksForNoKey(s)
  BY AdmissionAssumption DEF Init, PassedTheGates, AsksForNoKey, Credentials
<1> QED
  BY <1>1, <1>2 DEF GateInv

\* A step of one handler keeps what is known of the others.
LEMMA OneHandler ==
  ASSUME GateInv, NEW s \in Slots, UNCHANGED workload, Typed',
         \A t \in Slots : t # s => UNCHANGED <<pc[t], answer[t], credential[t]>>,
         call[s] # None => PassedTheGates(s)' /\ AsksForNoKey(s)'
  PROVE  GateInv'
<1>1. ASSUME NEW t \in Slots, t # s, call[t] # None
      PROVE  PassedTheGates(t)' /\ AsksForNoKey(t)'
  <2>1. /\ pc'[t] = pc[t] /\ answer'[t] = answer[t] /\ credential'[t] = credential[t]
        /\ call' = call /\ settings' = settings
    BY <1>1 DEF workload
  <2>2. KeyOf(call[t])' = KeyOf(call[t]) /\ Gate(call[t])' = Gate(call[t])
    BY <2>1 DEF KeyOf, Gate
  <2> QED
    BY <1>1, <2>1, <2>2 DEF GateInv, PassedTheGates, AsksForNoKey
<1> QED
  BY <1>1 DEF GateInv, workload

\* An answer to a request that is past its first turn, or one that is an error.
LEMMA AnswerStep ==
  ASSUME GateInv, NEW s \in Slots, NEW status, NEW ids, Answers(s, status, ids),
         UNCHANGED <<workload, credential, joined>>,
         call[s] # None /\ status \in {200, 202} =>
           Gate(call[s]) = None \/ Gate(call[s]).status \in {200, 202}
  PROVE  GateInv'
<1>1. Typed'
  BY DEF GateInv, Typed, Answers, Places, workload
<1>2. \A t \in Slots : t # s => UNCHANGED <<pc[t], answer[t], credential[t]>>
  BY DEF GateInv, Typed, Answers
<1>3. /\ pc'[s] = "answered" /\ answer'[s].status = status /\ credential'[s] = credential[s]
      /\ call' = call
  BY DEF GateInv, Typed, Answers, workload
<1>4. Gate(call[s])' = Gate(call[s])
  BY <1>3 DEF Gate
<1>5. call[s] # None => PassedTheGates(s)'
  BY <1>3, <1>4 DEF PassedTheGates
<1>6. call[s] # None => AsksForNoKey(s)'
  BY <1>3 DEF GateInv, AsksForNoKey
<1> QED
  BY <1>1, <1>2, <1>5, <1>6, OneHandler

\* From the classification on, with a key of the call's own or for a call without one.
LEMMA ProceedStep ==
  ASSUME GateInv, NEW s \in Slots, NEW body, NEW cred, Proceeds(s, body, cred),
         UNCHANGED <<workload, joined>>,
         pc[s] \notin {"new", "answered"},
         call[s] # None /\ cred \in {"env", "gcloud"} => call[s].keys \cap KeyHeaders = {}
  PROVE  GateInv'
<1>1. /\ credential' = [credential EXCEPT ![s] = cred]
      /\ \/ pc' = [pc EXCEPT ![s] = "forwarded"] /\ UNCHANGED answer
         \/ \E status, ids : Answers(s, status, ids)
  BY DEF Proceeds
<1>2. Typed'
  BY <1>1 DEF GateInv, Typed, Answers, Places, workload
<1>3. \A t \in Slots : t # s => UNCHANGED <<pc[t], answer[t], credential[t]>>
  BY <1>1 DEF GateInv, Typed, Answers
<1>4. pc'[s] \in {"forwarded", "answered"} /\ credential'[s] = cred /\ call' = call
  BY <1>1 DEF GateInv, Typed, Answers, workload
<1>5. call[s] # None => Gate(call[s]) = None
  BY DEF GateInv, PassedTheGates
<1>6. Gate(call[s])' = Gate(call[s])
  BY <1>4 DEF Gate
<1>7. call[s] # None => PassedTheGates(s)' /\ AsksForNoKey(s)'
  BY <1>4, <1>5, <1>6 DEF PassedTheGates, AsksForNoKey
<1> QED
  BY <1>2, <1>3, <1>7, OneHandler

\* A handler past the gates that goes on to wait.
LEMMA WaitStep ==
  ASSUME GateInv, NEW s \in Slots, NEW place \in Places \ {"new", "answered"},
         pc' = [pc EXCEPT ![s] = place],
         UNCHANGED <<workload, answer, credential>>, DOMAIN joined' = Slots,
         call[s] # None => Gate(call[s]) = None,
         place = "token" => KeyOf(call[s]) = None
  PROVE  GateInv'
<1>1. Typed'
  BY DEF GateInv, Typed, Places, workload
<1>2. \A t \in Slots : t # s => UNCHANGED <<pc[t], answer[t], credential[t]>>
  BY DEF GateInv, Typed
<1>3. pc'[s] = place /\ credential'[s] = credential[s] /\ call' = call /\ settings' = settings
  BY DEF GateInv, Typed, workload
<1>4. Gate(call[s])' = Gate(call[s]) /\ KeyOf(call[s])' = KeyOf(call[s])
  BY <1>3 DEF Gate, KeyOf
<1>5. call[s] # None => PassedTheGates(s)' /\ AsksForNoKey(s)'
  BY <1>3, <1>4 DEF GateInv, PassedTheGates, AsksForNoKey
<1> QED
  BY <1>1, <1>2, <1>5, OneHandler

-----------------------------------------------------------------------------

LEMMA HandlerStep ==
  ASSUME GateInv, NEW s \in Slots, Handler(s)
  PROVE  GateInv'
<1>1. CASE GateAnswers(s)
  BY <1>1, AnswerStep DEF GateAnswers
<1>2. CASE Limits(s)
  <2>1. PICK place \in {"reading", "limited"} : pc' = [pc EXCEPT ![s] = place]
    BY <1>2 DEF Limits
  <2>2. DOMAIN joined' = Slots
    BY <1>2 DEF Limits, GateInv, Typed
  <2> QED
    BY <1>2, <2>1, <2>2, WaitStep DEF Limits, Places
<1>3. CASE LimitedBody(s)
  <2>1. PICK ids : Answers(s, 429, ids)
    BY <1>3 DEF LimitedBody
  <2> QED
    BY <1>3, <2>1, AnswerStep DEF LimitedBody
<1>4. CASE TooLarge(s)
  <2>1. PICK ids : Answers(s, 413, ids)
    BY <1>4 DEF TooLarge
  <2> QED
    BY <1>4, <2>1, AnswerStep DEF TooLarge
<1>5. CASE BodyBreaks(s)
  <2>1. PICK status \in {500, 502} : Answers(s, status, <<>>)
    BY <1>5 DEF BodyBreaks
  <2> QED
    BY <1>5, <2>1, AnswerStep DEF BodyBreaks
<1>6. CASE Unauthorized(s)
  BY <1>6, AnswerStep DEF Unauthorized, RefusesUnauthorized
<1>7. CASE WithKey(s)
  <2>1. KeyOf(call[s]) \in {"env", "gcloud"} => call[s].keys \cap KeyHeaders = {}
    BY KeysOfCallsGoFirst DEF KeyOf
  <2>2. pc[s] \notin {"new", "answered"}
    BY <1>7 DEF WithKey, Reads
  <2>3. Proceeds(s, call[s].body, KeyOf(call[s])) /\ UNCHANGED <<workload, joined>>
    BY <1>7 DEF WithKey
  <2> QED
    BY <2>1, <2>2, <2>3, ProceedStep
<1>8. CASE WithCachedToken(s)
  <2>1. call[s].keys \cap KeyHeaders = {}
    BY <1>8, KeysOfCallsGoFirst DEF WithCachedToken
  <2>2. pc[s] \notin {"new", "answered"}
    BY <1>8 DEF WithCachedToken, Reads
  <2>3. Proceeds(s, call[s].body, "gcloud") /\ UNCHANGED <<workload, joined>>
    BY <1>8 DEF WithCachedToken
  <2> QED
    BY <2>1, <2>2, <2>3, ProceedStep
<1>9. CASE WaitsForToken(s)
  <2>1. DOMAIN joined' = Slots
    BY <1>9 DEF WaitsForToken, GateInv, Typed
  <2>2. call[s] # None => Gate(call[s]) = None
    BY <1>9 DEF WaitsForToken, Reads, GateInv, PassedTheGates
  <2> QED
    BY <1>9, <2>1, <2>2, WaitStep DEF WaitsForToken, Places
<1>10. CASE TokenSettles(s)
  <2>1. CASE Answers(s, 502, Rpc!ExtractIds(seen[s])) /\ UNCHANGED credential
    BY <1>10, <2>1, AnswerStep DEF TokenSettles
  <2>2. CASE Proceeds(s, seen[s], "gcloud")
    <3>1. call[s] # None => call[s].keys \cap KeyHeaders = {}
      BY <1>10, <2>2, KeysOfCallsGoFirst DEF TokenSettles, GateInv, AsksForNoKey
    <3>2. pc[s] \notin {"new", "answered"} /\ UNCHANGED <<workload, joined>>
      BY <1>10 DEF TokenSettles
    <3> QED
      BY <2>2, <3>1, <3>2, ProceedStep
  <2> QED
    BY <1>10, <2>1, <2>2 DEF TokenSettles
<1> QED
  BY <1>1, <1>2, <1>3, <1>4, <1>5, <1>6, <1>7, <1>8, <1>9, <1>10 DEF Handler

LEMMA GateInvHolds == Spec => []GateInv
<1>1. ASSUME GateInv, [Next]_vars PROVE GateInv'
  <2>1. CASE \E s \in Slots : Handler(s)
    BY <1>1, <2>1, HandlerStep
  <2>2. CASE UNCHANGED <<workload, pc, answer, credential, joined>>
    <3>1. Typed'
      BY <1>1, <2>2 DEF GateInv, Typed, workload
    <3>2. ASSUME NEW s \in Slots, call[s] # None PROVE PassedTheGates(s)' /\ AsksForNoKey(s)'
      <4>1. KeyOf(call[s])' = KeyOf(call[s]) /\ Gate(call[s])' = Gate(call[s])
        BY <2>2 DEF KeyOf, Gate, workload
      <4> QED
        BY <1>1, <2>2, <3>2, <4>1 DEF GateInv, PassedTheGates, AsksForNoKey, workload
    <3> QED
      BY <2>2, <3>1, <3>2 DEF GateInv, workload
  <2>3. CASE GcloudExits \/ Environment \/ UNCHANGED vars
    BY <2>2, <2>3 DEF GcloudExits, Environment, handlerVars, vars
  <2> QED
    BY <1>1, <2>1, <2>2, <2>3 DEF Next
<1> QED
  BY <1>1, InitGateInv, PTL DEF Spec

\* What the gates let through was addressed to the local network, on /mcp from there or without
\* an origin, and for the pages about the proxy itself from there.
LEMMA GatesKeepOut ==
  ASSUME ~AnyOrigin, CorsOrigin = None, ~TrustProxy,
         NEW r, r.peer.form # "name", Gate(r) = None \/ Gate(r).status \in {200, 202}
  PROVE  /\ Policy!HostAllowed(r.host)
         /\ r.path = "/mcp" => LanOrigin(r.origin)
         /\ r.path \in SensitivePaths => Policy!IsPrivateAddress(r.peer)
<1> DEFINE Kinds == {"not", "limited", "request", "error"}
<1>1. ASSUME NEW status \in {204, 400, 403, 405}, NEW counted \in Kinds,
             Gate(r) = Refusal(status, counted)
      PROVE  FALSE
  <2>1. Refusal(status, counted) \in Refusals /\ Refusal(status, counted).status = status
    BY DEF Refusal, Refusals
  <2> QED
    BY <1>1, <2>1, AdmissionAssumption
<1> HIDE DEF Kinds
<1>2. "not" \in Kinds /\ "limited" \in Kinds /\ "request" \in Kinds /\ "error" \in Kinds
  BY DEF Kinds
<1>3. /\ r.method # "OPTIONS" /\ r.path # Malformed
      /\ ~Policy!MalformedHost(r.host) /\ Policy!HostAllowed(r.host)
      /\ r.path \in SensitivePaths => Policy!IsLocalClient(r)
      /\ r.path = "/mcp" => r.method = "POST" /\ Policy!EvaluateOrigin(r.origin).allowed
  <2>1. r.method # "OPTIONS"
    <3> DEFINE status == IF r.path = "/mcp" /\ ~Policy!EvaluateOrigin(r.origin).allowed THEN 403 ELSE 204
    <3>1. r.method = "OPTIONS" => Gate(r) = Refusal(status, "not")
      BY DEF Gate
    <3>2. status \in {204, 400, 403, 405}
      OBVIOUS
    <3> HIDE DEF status
    <3> QED
      BY <1>1, <1>2, <3>1, <3>2
  <2>2. r.path # Malformed
    <3>1. r.path = Malformed => Gate(r) = Refusal(400, "not")
      BY <2>1 DEF Gate
    <3> QED
      BY <1>1, <1>2, <3>1
  <2>3. ~Policy!MalformedHost(r.host)
    <3>1. Policy!MalformedHost(r.host) => Gate(r) = Refusal(400, "error")
      BY <2>1, <2>2 DEF Gate
    <3> QED
      BY <1>1, <1>2, <3>1
  <2>4. Policy!HostAllowed(r.host)
    <3>1. ~Policy!HostAllowed(r.host) => Gate(r) = Refusal(403, "error")
      BY <2>1, <2>2, <2>3 DEF Gate
    <3> QED
      BY <1>1, <1>2, <3>1
  <2>5. r.path \in SensitivePaths => Policy!IsLocalClient(r)
    <3>1. r.path \in SensitivePaths /\ ~Policy!IsLocalClient(r) => Gate(r) = Refusal(403, "not")
      BY <2>1, <2>2, <2>3, <2>4 DEF Gate
    <3> QED
      BY <1>1, <1>2, <3>1
  <2>6. r.path = "/mcp" => r.method = "POST"
    <3>1. r.path = "/mcp" /\ r.method # "POST" => Gate(r) = Refusal(405, "request")
      BY <2>1, <2>2, <2>3, <2>4, <2>5 DEF Gate
    <3> QED
      BY <1>1, <1>2, <3>1
  <2>7. r.path = "/mcp" => Policy!EvaluateOrigin(r.origin).allowed
    <3>1. r.path = "/mcp" /\ ~Policy!EvaluateOrigin(r.origin).allowed => Gate(r) = Refusal(403, "limited")
      BY <2>1, <2>2, <2>3, <2>4, <2>5, <2>6 DEF Gate
    <3> QED
      BY <1>1, <1>2, <3>1
  <2> QED
    BY <2>1, <2>2, <2>3, <2>4, <2>5, <2>6, <2>7
<1>4. Policy!EvaluateOrigin(r.origin).allowed => LanOrigin(r.origin)
  BY DEF LanOrigin, Policy!EvaluateOrigin
<1>5. Policy!IsLocalClient(r) => Policy!IsPrivateAddress(r.peer)
  BY DEF Policy!IsLocalClient, Policy!ClientAddress, Policy!IsLocal, Policy!IsLoopbackAddress,
         Policy!IsPrivateAddress, Policy!PrivateV4
<1> QED
  BY <1>3, <1>4, <1>5

\* Whoever is served came from or was addressed to the local network, and brought no key if the
\* proxy's own were used, unless the operator opened the proxy to other origins or trusts the
\* addresses that a reverse proxy forwards.
THEOREM TheTrustedAreServed ==
  ASSUME ~AnyOrigin, CorsOrigin = None, ~TrustProxy
  PROVE  Spec => []OnlyTheTrustedAreServed
<1>1. ASSUME GateInv PROVE OnlyTheTrustedAreServed
  <2> SUFFICES ASSUME NEW s \in Slots, call[s] # None
               PROVE  LET r == call[s]
                      IN  /\ Policy!CorsGrant(r.origin) = "reflected" => LanOrigin(r.origin)
                          /\ Served(s) =>
                               /\ Policy!HostAllowed(r.host)
                               /\ r.path = "/mcp" => LanOrigin(r.origin)
                               /\ r.path \in SensitivePaths => Policy!IsPrivateAddress(r.peer)
                               /\ credential[s] \in {"env", "gcloud"} => r.keys = {}
    BY DEF OnlyTheTrustedAreServed
  <2> DEFINE r == call[s]
  <2>1. r.keys \subseteq KeyHeaders /\ r.peer.form # "name"
    BY <1>1, AdmissionAssumption DEF GateInv, Typed
  <2>2. PassedTheGates(s) /\ AsksForNoKey(s)
    BY <1>1 DEF GateInv
  <2>3. credential[s] \in {"env", "gcloud"} => r.keys = {}
    BY <2>1, <2>2 DEF AsksForNoKey
  <2>4. Served(s) => Gate(r) = None \/ Gate(r).status \in {200, 202}
    BY <2>2 DEF Served, PassedTheGates
  <2>5. Policy!CorsGrant(r.origin) = "reflected" => LanOrigin(r.origin)
    BY DEF Policy!CorsGrant, Policy!EvaluateOrigin, LanOrigin
  <2> HIDE DEF r
  <2>6. Served(s) => /\ Policy!HostAllowed(r.host)
                     /\ r.path = "/mcp" => LanOrigin(r.origin)
                     /\ r.path \in SensitivePaths => Policy!IsPrivateAddress(r.peer)
    BY <2>1, <2>4, GatesKeepOut
  <2> QED
    BY <2>3, <2>5, <2>6 DEF r
<1> QED
  BY <1>1, GateInvHolds, PTL

-----------------------------------------------------------------------------
(* The rate limit and gcloud, seen from the router *)

\* The router uses the buckets as RateLimit says, and nothing else touches them.
LEMMA RouterKeepsTheRate ==
  ASSUME GateInv, [Next]_vars
  PROVE  [RateNext]_rateVars
<1>1. ASSUME NEW s \in Slots, Limits(s) PROVE RateNext
  <2>1. Policy!ClientAddress(call[s]) \in Ips
    BY <1>1, AdmissionAssumption DEF Limits, New, GateInv, Typed
  <2> QED
    BY <1>1, <2>1 DEF Limits, RateNext
<1>2. ASSUME NEW s \in Slots, Handler(s), ~Limits(s) PROVE UNCHANGED rateVars
  BY <1>2 DEF Handler, GateAnswers, LimitedBody, TooLarge, BodyBreaks, Unauthorized, WithKey,
              WithCachedToken, WaitsForToken, TokenSettles
<1>3. CASE Environment
  BY <1>3 DEF Environment, RateNext
<1>4. CASE GcloudExits \/ UNCHANGED vars
  BY <1>4 DEF GcloudExits, vars
<1> QED
  BY <1>1, <1>2, <1>3, <1>4 DEF Next

LEMMA RateInvHolds == Spec => []RateInv
<1>1. Init => RateInv
  BY InitRateInv DEF Init
<1>2. RateInv /\ GateInv /\ [Next]_vars => RateInv'
  BY RouterKeepsTheRate, RateInvStep
<1> QED
  BY <1>1, <1>2, GateInvHolds, PTL DEF Spec

\* In any interval no client gets more calls past the limit than the burst, the rate and the gain
\* from forgotten buckets allow, in the whole router (BurstIsBounded, composed).
THEOREM RouterBoundsBursts == Spec => []BurstBounded
BY RateInvHolds, RateInvIsBound, PTL

LEMMA OneRunHolds == Spec => []OneRun
<1>1. Init => OneRun
  BY DEF Init, Gcloud!TokenInit, OneRun
<1>2. ASSUME OneRun, [Next]_vars PROVE OneRun'
  <2>1. ASSUME NEW s \in Slots, NEW run \in 1..MaxRuns, Gcloud!AwaitsToken(wall, run) PROVE OneRun'
    BY <1>2, <2>1, AdmissionAssumption DEF Gcloud!AwaitsToken, Gcloud!tokenVars, OneRun
  <2>2. ASSUME NEW run \in running, NEW ok \in BOOLEAN, Gcloud!GcloudEnds(run, ok, wall) PROVE OneRun'
    BY <1>2, <2>2 DEF Gcloud!GcloudEnds, OneRun
  <2>3. CASE UNCHANGED <<pending, running>>
    BY <1>2, <2>3 DEF OneRun
  <2>4. ASSUME NEW s \in Slots, Handler(s), ~WaitsForToken(s) PROVE UNCHANGED <<pending, running>>
    BY <2>4 DEF Handler, GateAnswers, Limits, LimitedBody, TooLarge, BodyBreaks, Unauthorized,
                WithKey, WithCachedToken, TokenSettles, tokenVars
  <2>5. CASE Environment \/ UNCHANGED vars
    BY <2>3, <2>5 DEF Environment, vars, tokenVars
  <2> QED
    BY <1>2, <2>1, <2>2, <2>3, <2>4, <2>5 DEF Next, GcloudExits, WaitsForToken
<1> QED
  BY <1>1, <1>2, PTL DEF Spec

\* At most one gcloud process runs, and whoever has to wait for a token joins one that runs.
THEOREM GcloudRunsOnce == Spec => GcloudIsShared
<1> DEFINE Shares == /\ Cardinality(running') <= 1
                     /\ \A s \in Slots : pc[s] # "token" /\ pc'[s] = "token" => joined'[s] \in running'
<1>1. ASSUME GateInv, OneRun, OneRun', [Next]_vars PROVE [Shares]_vars
  <2>1. Cardinality(running') <= 1
    BY <1>1, FS_EmptySet, FS_Singleton DEF OneRun
  <2>2. ASSUME NEW s \in Slots, pc[s] # "token", pc'[s] = "token" PROVE joined'[s] \in running'
    <3>1. pc' # pc
      BY <2>2
    <3>2. PICK t \in Slots : Handler(t)
      BY <1>1, <3>1 DEF Next, GcloudExits, Environment, vars, handlerVars
    <3>3. DOMAIN pc = Slots /\ DOMAIN joined = Slots
      BY <1>1 DEF GateInv, Typed
    <3>4. CASE ~WaitsForToken(t)
      <4>1. \E place \in {"answered", "limited", "reading", "forwarded"} :
              pc' = [pc EXCEPT ![t] = place]
        BY <3>2, <3>4 DEF Handler, GateAnswers, Limits, LimitedBody, TooLarge, BodyBreaks,
                          Unauthorized, RefusesUnauthorized, WithKey, WithCachedToken,
                          TokenSettles, Proceeds, Answers
      <4> QED
        BY <2>2, <3>3, <4>1
    <3>5. CASE WaitsForToken(t)
      <4>1. PICK run \in 1..MaxRuns : Gcloud!AwaitsToken(wall, run) /\ joined' = [joined EXCEPT ![t] = run]
        BY <3>5 DEF WaitsForToken
      <4>2. pc' = [pc EXCEPT ![t] = "token"]
        BY <3>5 DEF WaitsForToken
      <4>3. s = t
        BY <2>2, <3>3, <4>2
      <4>4. joined'[s] = run
        BY <3>3, <4>1, <4>3
      <4>5. run # None
        BY AdmissionAssumption
      <4>6. run \in running'
        BY <1>1, <4>1, <4>5 DEF Gcloud!AwaitsToken, Gcloud!tokenVars, OneRun
      <4> QED
        BY <4>4, <4>6
    <3> QED
      BY <3>4, <3>5
  <2> QED
    BY <2>1, <2>2
<1> QED
  BY <1>1, GateInvHolds, OneRunHolds, PTL DEF GcloudIsShared, Spec

-----------------------------------------------------------------------------
(* The classification and the ids of a body *)

IsSequence(m) == m \in Seq(ToSet(m))

\* The first index that passes a test is one that passes it.
LEMMA LeastIsIn ==
  ASSUME NEW n \in Nat, NEW I \in SUBSET (1..n), I # {}
  PROVE  Class!Min(I) \in I
<1>1. \E x \in I : \A y \in I : x <= y
  <2>1. I \subseteq Nat
        OBVIOUS
  <2> QED  BY <2>1, F!LeastNumber
<1> QED  BY <1>1, Zenon DEF Class!Min

\* A request is safe exactly if it has messages and each of them is.
LEMMA VerdictIsTheUnsafeOne ==
  ASSUME NEW m, IsSequence(m)
  PROVE  Class!ClassifyRequest(m).safe
           <=> m # <<>> /\ \A i \in DOMAIN m : Class!ClassifyMessage(m[i]).safe
<1> DEFINE n == Len(m)
           v == [i \in 1..n |-> Class!ClassifyMessage(m[i])]
           I == {i \in 1..Len(v) : ~v[i].safe}
           first == IF I # {} THEN Class!Min(I) ELSE 0
<1>1. n \in Nat /\ DOMAIN m = 1..n /\ (m # <<>> <=> n # 0)
      BY DEF IsSequence
<1>2. CASE m = <<>>
  <2>1. Class!ClassifyRequest(m) = Class!Unparseable
        BY <1>2 DEF Class!ClassifyRequest
  <2> QED  BY <1>2, <2>1 DEF Class!Unparseable
<1>3. CASE m # <<>>
  <2>1. Len(v) = n /\ \A i \in 1..n : v[i] = Class!ClassifyMessage(m[i])
        BY <1>1
  <2>2. Class!ClassifyRequest(m) = v[IF first = 0 THEN 1 ELSE first]
        BY <1>3, Zenon DEF Class!ClassifyRequest, Class!SelectInSeq
  <2>3. CASE I = {}
    <3>1. first = 0
          BY <2>3
    <3>2. \A i \in 1..n : v[i].safe
          BY <2>1, <2>3
    <3>4. 1 \in 1..n
      <4> HIDE DEF n, v
      <4> QED  BY <1>1, <1>3
    <3> HIDE DEF v, first
    <3>3. Class!ClassifyRequest(m) = v[1]
          BY <2>2, <3>1
    <3> QED  BY <1>1, <1>3, <2>1, <3>2, <3>3, <3>4, Zenon
  <2>4. CASE I # {}
    <3>1. first \in I
      <4> HIDE DEF v, n
      <4>1. I \in SUBSET (1..n)
            BY <2>1
      <4> HIDE DEF I
      <4> QED  BY <1>1, <2>4, <4>1, LeastIsIn
    <3>2. first \in 1..n /\ first # 0 /\ ~v[first].safe
      <4> HIDE DEF v, n, first
      <4> QED  BY <1>1, <2>1, <3>1
    <3> HIDE DEF v, first, I
    <3>3. Class!ClassifyRequest(m) = v[first]
          BY <2>2, <3>2
    <3> QED  BY <1>1, <1>3, <2>1, <3>2, <3>3, Zenon
  <2> QED  BY <2>3, <2>4
<1> QED  BY <1>2, <1>3

\* The verdict on one message is the reference.
LEMMA MessageIsReadOnly ==
  ASSUME NEW message
  PROVE  /\ Class!ClassifyMessage(message).safe <=> Class!ReadsOnly(message)
         /\ message.method = "tools/call" =>
              (Class!ClassifyToolCall(message.tool).safe <=> Class!ReadsOnly(message))
<1>1. "tools/call" \notin Class!Notifications \cup Class!SAFE_METHODS
      BY DEF Class!Notifications, Class!SAFE_METHODS
<1>2. None \notin SafeToolsCsv \cup Class!SAFE_TOOLS
      BY AdmissionAssumption
<1>3. CASE message.method = "tools/call"
  <2>1. Class!ClassifyMessage(message) = Class!ClassifyToolCall(message.tool)
        BY <1>3 DEF Class!ClassifyMessage
  <2>2. Class!ClassifyToolCall(message.tool).safe
          <=> /\ message.tool # None /\ message.tool \notin UnsafeToolsCsv
              /\ message.tool \in SafeToolsCsv \cup Class!SAFE_TOOLS
        BY Zenon DEF Class!ClassifyToolCall
  <2> QED  BY <1>1, <1>2, <1>3, <2>1, <2>2 DEF Class!ReadsOnly
<1>4. CASE message.method # "tools/call"
  <2>1. Class!ClassifyMessage(message).safe
          <=> message.method \in Class!Notifications \cup Class!SAFE_METHODS
        BY <1>4, Zenon DEF Class!ClassifyMessage
  <2> QED  BY <1>4, <2>1 DEF Class!ReadsOnly
<1> QED  BY <1>3, <1>4

LEMMA AnnotationIsVerdict ==
  ASSUME NEW tool
  PROVE  Class!AnnotateTool(tool, [readOnlyHint |-> None, destructiveHint |-> None]).readOnlyHint
           <=> Class!ClassifyToolCall(tool).safe
BY Zenon DEF Class!AnnotateTool

\* The ids of an error answer are those of the messages, and nothing else.
LEMMA IdsOfMessages ==
  ASSUME NEW body, IsSequence(body.messages)
  PROVE  ToSet(Rpc!ErrorIds(Rpc!ExtractIds(body))) \ {None}
           = {body.messages[i].id : i \in DOMAIN body.messages} \ {None}
<1> DEFINE m == body.messages
           K == {x \in ToSet(m) : Rpc!HasId(x)}
           w == F!Only(m, K)
           ids == [i \in 1..Len(w) |-> w[i].id]
<1>1. Rpc!ExtractIds(body) = ids
  <2>1. Rpc!Only(m, K) = F!Only(m, K) /\ Rpc!ToSet(m) = ToSet(m)
        BY DEF Rpc!Only, F!Only, Rpc!ToSet, ToSet
  <2>2. Rpc!Only(body.messages, {x \in Rpc!ToSet(body.messages) : Rpc!HasId(x)}) = w
        BY <2>1
  <2> HIDE DEF w
  <2> QED  BY <2>2 DEF Rpc!ExtractIds
<1>2. w \in Seq(ToSet(m)) /\ ToSet(w) = ToSet(m) \cap K
  <2>1. m \in Seq(ToSet(m))
        BY DEF IsSequence
  <2>2. w \in Seq(ToSet(m)) /\ F!ToSet(w) = F!ToSet(m) \cap K
    <3> HIDE DEF K, m
    <3> QED  BY <2>1, F!OnlyIsSeq, F!OnlyMembers
  <2> HIDE DEF K, m, w
  <2> QED  BY <2>2 DEF F!ToSet, ToSet
<1>3. \A x : x \in ToSet(w) <=> x \in ToSet(m) /\ x.id # None
      BY <1>2 DEF Rpc!HasId
<1> HIDE DEF w
<1>4. ids \in Seq({x.id : x \in ToSet(w)}) /\ Len(ids) = Len(w) /\ DOMAIN ids = DOMAIN w
      BY <1>2 DEF ToSet
<1>5. ToSet(ids) = {x.id : x \in ToSet(w)}
      BY <1>2, <1>4 DEF ToSet
<1>6. ToSet(ids) = {m[i].id : i \in DOMAIN m} \ {None}
      BY <1>3, <1>5 DEF ToSet
<1>7. ToSet(Rpc!ErrorIds(ids)) \ {None} = ToSet(ids) \ {None}
  <2>1. CASE ids = <<>>
    <3>1. ToSet(ids) = {} /\ ToSet(<<None>>) = {None}
          BY <2>1 DEF ToSet
    <3> QED  BY <2>1, <3>1 DEF Rpc!ErrorIds
  <2>2. CASE ids # <<>>
        BY <2>2 DEF Rpc!ErrorIds
  <2> QED  BY <2>1, <2>2
<1> HIDE DEF ids
<1> QED  BY <1>1, <1>6, <1>7

-----------------------------------------------------------------------------
(* What a handler has read, and what it made of it *)

Shaped ==
  /\ pc \in [Slots -> Places]
  /\ DOMAIN answer = Slots /\ DOMAIN verdict = Slots
  /\ DOMAIN seen = Slots /\ seen = [s \in Slots |-> seen[s]]
  /\ \E w \in Workloads : call = w.calls /\ settings = w.settings

\* A body is read once and classified once, and the answer has the ids of what was read.
Knows(s) ==
  /\ pc[s] # "new" => call[s] # None
  /\ pc[s] \in {"new", "limited", "reading"} => seen[s] = Rpc!Empty
  /\ IsSequence(seen[s].messages)
  /\ verdict[s] # None => /\ pc[s] \in {"forwarded", "answered"}
                          /\ verdict[s] = Class!ClassifyRequest(seen[s].messages)
  /\ pc[s] = "answered" /\ seen[s] # Rpc!Empty =>
       answer[s].ids = Rpc!ErrorIds(Rpc!ExtractIds(seen[s]))

BodyInv == Shaped /\ \A s \in Slots : Knows(s)

LEMMA NoMessagesAreASequence == IsSequence(Rpc!Empty.messages) /\ IsSequence(Rpc!Garbage.messages)
<1>1. <<>> \in Seq(ToSet(<<>>))
      OBVIOUS
<1> QED  BY <1>1 DEF IsSequence, Rpc!Empty, Rpc!Garbage

LEMMA InitBodyInv == Init => BodyInv
<1> SUFFICES ASSUME Init PROVE BodyInv
    OBVIOUS
<1>1. Shaped
      BY DEF Init, Shaped, Places
<1>2. ASSUME NEW s \in Slots PROVE Knows(s)
      BY NoMessagesAreASequence DEF Init, Knows
<1> QED  BY <1>1, <1>2 DEF BodyInv

\* A step of one handler keeps what is known of the others.
LEMMA OneBody ==
  ASSUME BodyInv, NEW s \in Slots, UNCHANGED workload, Shaped',
         \A t \in Slots : t # s => UNCHANGED <<pc[t], answer[t], seen[t], verdict[t]>>,
         Knows(s)'
  PROVE  BodyInv'
<1>1. ASSUME NEW t \in Slots, t # s PROVE Knows(t)'
      BY <1>1 DEF BodyInv, Knows, workload
<1> QED  BY <1>1 DEF BodyInv

\* A handler that goes on, having read nothing yet or nothing more.
LEMMA GoesOn ==
  ASSUME BodyInv, NEW s \in Slots, NEW p \in Places, pc' = [pc EXCEPT ![s] = p],
         p \notin {"new", "answered"}, call[s] # None, verdict[s] = None,
         UNCHANGED <<workload, answer, verdict>>, NEW body, IsSequence(body.messages),
         UNCHANGED seen \/ seen' = [seen EXCEPT ![s] = body],
         p \in {"limited", "reading"} => UNCHANGED seen /\ pc[s] = "new"
  PROVE  BodyInv'
<1>1. Shaped'
      BY DEF BodyInv, Shaped, workload
<1>2. \A t \in Slots : t # s => UNCHANGED <<pc[t], answer[t], seen[t], verdict[t]>>
      BY DEF BodyInv, Shaped
<1>3. pc'[s] = p /\ verdict'[s] = None /\ call' = call
      BY DEF BodyInv, Shaped, workload
<1>4. IsSequence(seen'[s].messages) /\ (p \in {"limited", "reading"} => seen'[s] = Rpc!Empty)
      BY DEF BodyInv, Shaped, Knows
<1>5. Knows(s)'
      BY <1>3, <1>4 DEF Knows
<1> QED  BY <1>1, <1>2, <1>5, OneBody

\* A handler that answers, with the ids of what it has read, if it has.
LEMMA AnswersBody ==
  ASSUME BodyInv, NEW s \in Slots, call[s] # None, UNCHANGED workload,
         NEW body, IsSequence(body.messages), seen' = [seen EXCEPT ![s] = body],
         NEW status, NEW ids, Answers(s, status, ids),
         body # Rpc!Empty => ids = Rpc!ExtractIds(body),
         \/ verdict[s] = None /\ UNCHANGED verdict
         \/ verdict' = [verdict EXCEPT ![s] = Class!ClassifyRequest(body.messages)]
  PROVE  BodyInv'
<1>1. Shaped'
      BY DEF BodyInv, Shaped, workload, Answers, Places
<1>2. \A t \in Slots : t # s => UNCHANGED <<pc[t], answer[t], seen[t], verdict[t]>>
      BY DEF BodyInv, Shaped, Answers
<1>3. /\ pc'[s] = "answered" /\ seen'[s] = body /\ answer'[s].ids = Rpc!ErrorIds(ids) /\ call' = call
      /\ verdict'[s] = None \/ verdict'[s] = Class!ClassifyRequest(body.messages)
      BY DEF BodyInv, Shaped, workload, Answers
<1>4. Knows(s)'
      BY <1>3 DEF Knows
<1> QED  BY <1>1, <1>2, <1>4, OneBody

LEMMA ProceedsBody ==
  ASSUME BodyInv, NEW s \in Slots, call[s] # None, UNCHANGED workload,
         NEW body, IsSequence(body.messages), seen' = [seen EXCEPT ![s] = body],
         NEW cred, Proceeds(s, body, cred)
  PROVE  BodyInv'
<1>1. verdict' = [verdict EXCEPT ![s] = Class!ClassifyRequest(body.messages)]
      BY DEF Proceeds
<1>2. \/ pc' = [pc EXCEPT ![s] = "forwarded"] /\ UNCHANGED answer
      \/ \E status : Answers(s, status, Rpc!ExtractIds(body))
      BY DEF Proceeds
<1>3. CASE \E status : Answers(s, status, Rpc!ExtractIds(body))
      BY <1>1, <1>3, AnswersBody
<1>4. CASE pc' = [pc EXCEPT ![s] = "forwarded"] /\ UNCHANGED answer
  <2>1. Shaped'
        BY <1>1, <1>4 DEF BodyInv, Shaped, workload, Places
  <2>2. \A t \in Slots : t # s => UNCHANGED <<pc[t], answer[t], seen[t], verdict[t]>>
        BY <1>1, <1>4 DEF BodyInv, Shaped
  <2>3. /\ pc'[s] = "forwarded" /\ seen'[s] = body /\ call' = call
        /\ verdict'[s] = Class!ClassifyRequest(body.messages)
        BY <1>1, <1>4 DEF BodyInv, Shaped, workload
  <2>4. Knows(s)'
        BY <2>3 DEF Knows
  <2> QED  BY <2>1, <2>2, <2>4, OneBody
<1> QED  BY <1>2, <1>3, <1>4

\* What a request sends is a body, and so is what the reader has when it stops.
LEMMA BodiesAre ==
  ASSUME BodyInv, NEW s \in Slots, call[s] # None
  PROVE  /\ IsSequence(call[s].body.messages)
         /\ \A b \in Read(call[s]) : IsSequence(b.messages)
<1>1. IsSequence(call[s].body.messages)
      BY AdmissionAssumption DEF BodyInv, Shaped, IsSequence
<1> QED  BY <1>1, NoMessagesAreASequence DEF Read

LEMMA HandlerBody ==
  ASSUME BodyInv, NEW s \in Slots, Handler(s)
  PROVE  BodyInv'
<1>0. /\ pc[s] = "new" => seen[s] = Rpc!Empty /\ verdict[s] = None
      /\ pc[s] \in {"limited", "reading"} => seen[s] = Rpc!Empty /\ verdict[s] = None /\ call[s] # None
      /\ pc[s] = "token" => verdict[s] = None /\ call[s] # None /\ IsSequence(seen[s].messages)
      /\ seen = [seen EXCEPT ![s] = seen[s]]
      BY DEF BodyInv, Knows, Shaped
<1>1. CASE GateAnswers(s)
  <2>1. /\ pc[s] = "new" /\ call[s] # None /\ UNCHANGED <<workload, seen, verdict>>
        /\ \E status : Answers(s, status, <<>>)
        BY <1>1 DEF GateAnswers, New
  <2> QED  BY <1>0, <2>1, NoMessagesAreASequence, AnswersBody
<1>2. CASE Limits(s)
  <2>1. PICK place \in {"reading", "limited"} : pc' = [pc EXCEPT ![s] = place]
        BY <1>2 DEF Limits
  <2>2. pc[s] = "new" /\ call[s] # None /\ UNCHANGED <<workload, answer, seen, verdict>>
        BY <1>2 DEF Limits, New
  <2>3. place \in Places
        BY <2>1 DEF Places
  <2> QED  BY <1>0, <2>1, <2>2, <2>3, NoMessagesAreASequence, GoesOn
<1>3. CASE LimitedBody(s) \/ TooLarge(s)
  <2>1. /\ pc[s] \in {"limited", "reading"} /\ UNCHANGED <<workload, verdict>>
        /\ \E status : \E body \in Read(call[s]) :
             seen' = [seen EXCEPT ![s] = body] /\ Answers(s, status, Rpc!ExtractIds(body))
        BY <1>3 DEF LimitedBody, TooLarge
  <2> QED  BY <1>0, <2>1, BodiesAre, AnswersBody
<1>4. CASE BodyBreaks(s)
  <2>1. /\ pc[s] \in {"limited", "reading"} /\ UNCHANGED <<workload, seen, verdict>>
        /\ \E status : Answers(s, status, <<>>)
        BY <1>4 DEF BodyBreaks
  <2> QED  BY <1>0, <2>1, NoMessagesAreASequence, AnswersBody
<1>5. CASE Unauthorized(s)
  <2>1. /\ pc[s] = "reading" /\ UNCHANGED <<workload, verdict>>
        /\ seen' = [seen EXCEPT ![s] = call[s].body]
        /\ \E status : Answers(s, status, Rpc!ExtractIds(call[s].body))
        BY <1>5 DEF Unauthorized, Reads, RefusesUnauthorized
  <2> QED  BY <1>0, <2>1, BodiesAre, AnswersBody
<1>6. CASE WithKey(s) \/ WithCachedToken(s)
  <2>1. /\ pc[s] = "reading" /\ UNCHANGED workload
        /\ seen' = [seen EXCEPT ![s] = call[s].body]
        /\ \E cred : Proceeds(s, call[s].body, cred)
        BY <1>6 DEF WithKey, WithCachedToken, Reads
  <2> QED  BY <1>0, <2>1, BodiesAre, ProceedsBody
<1>7. CASE WaitsForToken(s)
  <2>1. /\ pc[s] = "reading" /\ UNCHANGED <<workload, answer, verdict>>
        /\ seen' = [seen EXCEPT ![s] = call[s].body]
        /\ pc' = [pc EXCEPT ![s] = "token"] /\ "token" \in Places
        BY <1>7 DEF WaitsForToken, Reads, Places
  <2> QED  BY <1>0, <2>1, BodiesAre, GoesOn
<1>8. CASE TokenSettles(s)
  <2>1. /\ pc[s] = "token" /\ UNCHANGED <<workload, seen>>
        /\ \/ Answers(s, 502, Rpc!ExtractIds(seen[s])) /\ UNCHANGED verdict
           \/ Proceeds(s, seen[s], "gcloud")
        BY <1>8 DEF TokenSettles
  <2> QED  BY <1>0, <2>1, AnswersBody, ProceedsBody
<1> QED  BY <1>1, <1>2, <1>3, <1>4, <1>5, <1>6, <1>7, <1>8 DEF Handler

LEMMA BodyInvHolds == Spec => []BodyInv
<1>1. ASSUME BodyInv, [Next]_vars PROVE BodyInv'
  <2>1. CASE \E s \in Slots : Handler(s)
        BY <1>1, <2>1, HandlerBody
  <2>2. CASE UNCHANGED handlerVars
        BY <1>1, <2>2 DEF BodyInv, Shaped, Knows, handlerVars, workload
  <2>3. CASE GcloudExits \/ Environment \/ UNCHANGED vars
        BY <2>2, <2>3 DEF GcloudExits, Environment, vars
  <2> QED  BY <1>1, <2>1, <2>2, <2>3 DEF Next
<1> QED  BY <1>1, InitBodyInv, PTL DEF Spec

\* Every error answer to a call whose body was read has the ids of all its messages and no other,
\* whatever refused it: the rate, the size, the missing key or gcloud.
THEOREM NoIdIsLost == Spec => []EveryIdIsEchoed
<1>1. BodyInv => EveryIdIsEchoed
      BY IdsOfMessages DEF BodyInv, Knows, EveryIdIsEchoed
<1> QED  BY <1>1, BodyInvHolds, PTL

\* No call is taken for safe that has a message which may write, for any batch and any overrides
\* of the operator; and a tool is announced as read-only exactly if its calls are safe.
THEOREM VerdictsAreConservative == Spec => []VerdictIsConservative
<1>1. BodyInv => VerdictIsConservative
  <2> SUFFICES ASSUME BodyInv, NEW s \in Slots, verdict[s] # None
               PROVE  LET messages == seen[s].messages
                          unannotated == [readOnlyHint |-> None, destructiveHint |-> None]
                      IN  /\ verdict[s].safe <=>
                               messages # <<>> /\ \A i \in DOMAIN messages : Class!ReadsOnly(messages[i])
                          /\ \A i \in DOMAIN messages : messages[i].method = "tools/call" =>
                               (Class!AnnotateTool(messages[i].tool, unannotated).readOnlyHint
                                  <=> Class!ReadsOnly(messages[i]))
      BY DEF VerdictIsConservative
  <2>1. verdict[s] = Class!ClassifyRequest(seen[s].messages) /\ IsSequence(seen[s].messages)
        BY DEF BodyInv, Knows
  <2>2. verdict[s].safe <=> /\ seen[s].messages # <<>>
                            /\ \A i \in DOMAIN seen[s].messages :
                                 Class!ClassifyMessage(seen[s].messages[i]).safe
        BY <2>1, VerdictIsTheUnsafeOne
  <2>3. verdict[s].safe <=> /\ seen[s].messages # <<>>
                            /\ \A i \in DOMAIN seen[s].messages :
                                 Class!ReadsOnly(seen[s].messages[i])
        BY <2>2, MessageIsReadOnly, Zenon
  <2>4. \A i \in DOMAIN seen[s].messages : seen[s].messages[i].method = "tools/call" =>
          (Class!AnnotateTool(seen[s].messages[i].tool,
                              [readOnlyHint |-> None, destructiveHint |-> None]).readOnlyHint
             <=> Class!ReadsOnly(seen[s].messages[i]))
        BY MessageIsReadOnly, AnnotationIsVerdict, Zenon
  <2> QED  BY <2>3, <2>4, Zenon
<1> QED  BY <1>1, BodyInvHolds, PTL

-----------------------------------------------------------------------------
(* Sums over a finite set *)

Pick(T) == CHOOSE x \in T : TRUE

\* g has the sum of f over every subset of S.
Sums(g, f, S) ==
  g = [T \in SUBSET S |-> IF T = {} THEN 0 ELSE f[Pick(T)] + g[T \ {Pick(T)}]]

\* f with one more at k.
OneMore(f, k) == [f EXCEPT ![k] = @ + 1]

SumOf(f, S) == MapThenSumSet(LAMBDA x : f[x], S)

LEMMA PickIsOne ==
  ASSUME NEW S, IsFiniteSet(S), NEW T \in SUBSET S, T # {}
  PROVE  /\ Pick(T) \in T /\ T \ {Pick(T)} \in SUBSET S
         /\ Cardinality(T) \in Nat /\ Cardinality(T \ {Pick(T)}) = Cardinality(T) - 1
<1>1. Pick(T) \in T
      BY Zenon DEF Pick
<1>2. IsFiniteSet(T)
      BY FS_Subset
<1>3. Cardinality(T) \in Nat
      BY <1>2, FS_CardinalityType
<1>4. Cardinality(T \ {Pick(T)}) = Cardinality(T) - 1
      BY <1>1, <1>2, FS_RemoveElement
<1> QED  BY <1>1, <1>3, <1>4

LEMMA SumsExist ==
  ASSUME NEW S, IsFiniteSet(S), NEW f \in [S -> Nat]
  PROVE  \E g \in [SUBSET S -> Nat] : Sums(g, f, S)
<1> DEFINE Rule(g, T) == IF T = {} THEN 0 ELSE f[Pick(T)] + g[T \ {Pick(T)}]
           Upto(g, n) == \A T \in SUBSET S : Cardinality(T) <= n => g[T] = Rule(g, T)
           N == {n \in Nat : \E g \in [SUBSET S -> Nat] : Upto(g, n)}
<1>1. 0 \in N
  <2> DEFINE g == [T \in SUBSET S |-> 0]
  <2>1. Upto(g, 0)
    <3> SUFFICES ASSUME NEW T \in SUBSET S, Cardinality(T) <= 0 PROVE T = {}
        OBVIOUS
    <3>1. IsFiniteSet(T)
          BY FS_Subset
    <3>2. Cardinality(T) \in Nat
          BY <3>1, FS_CardinalityType
    <3> QED  BY <3>1, <3>2, FS_EmptySet
  <2>2. g \in [SUBSET S -> Nat]
        OBVIOUS
  <2> HIDE DEF g, Upto
  <2> QED  BY <2>1, <2>2
<1>2. ASSUME NEW n \in Nat, n \in N PROVE n + 1 \in N
  <2>1. PICK g \in [SUBSET S -> Nat] : Upto(g, n)
        BY <1>2
  <2> DEFINE h == [T \in SUBSET S |-> Rule(g, T)]
  <2>2. h \in [SUBSET S -> Nat]
    <3>1. ASSUME NEW T \in SUBSET S, T # {} PROVE f[Pick(T)] + g[T \ {Pick(T)}] \in Nat
      <4>1. Pick(T) \in S /\ T \ {Pick(T)} \in SUBSET S
            BY <3>1, PickIsOne
      <4>2. f[Pick(T)] \in Nat /\ g[T \ {Pick(T)}] \in Nat
            BY <2>1, <4>1
      <4> QED  BY <4>2
    <3> QED  BY <3>1
  <2>3. Upto(h, n + 1)
    <3> SUFFICES ASSUME NEW T \in SUBSET S, Cardinality(T) <= n + 1 PROVE h[T] = Rule(h, T)
        OBVIOUS
    <3>1. CASE T = {}
          BY <3>1
    <3>2. CASE T # {}
      <4> DEFINE R == T \ {Pick(T)}
      <4>1. R \in SUBSET S /\ Cardinality(R) <= n
            BY <3>2, PickIsOne
      <4>2. g[R] = Rule(g, R)
            BY <2>1, <4>1
      <4>3. h[R] = Rule(g, R)
            BY <4>1
      <4>4. h[T] = f[Pick(T)] + g[R]
            BY <3>2
      <4> QED  BY <3>2, <4>2, <4>3, <4>4
    <3> QED  BY <3>1, <3>2
  <2> HIDE DEF h, Upto
  <2> QED  BY <2>2, <2>3
<1>3. Cardinality(S) \in Nat
      BY FS_CardinalityType
<1>4. Cardinality(S) \in N
  <2>1. \A i \in 0..(Cardinality(S) - 1) : i \in N => i + 1 \in N
    <3> HIDE DEF N
    <3> QED  BY <1>2, <1>3
  <2> HIDE DEF N
  <2>2. 0..Cardinality(S) \subseteq N
        BY <1>1, <1>3, <2>1, F!Induction
  <2> QED  BY <1>3, <2>2
<1>5. PICK g \in [SUBSET S -> Nat] : Upto(g, Cardinality(S))
      BY <1>4
<1>6. ASSUME NEW T \in SUBSET S PROVE g[T] = Rule(g, T)
  <2>1. Cardinality(T) <= Cardinality(S)
        BY FS_Subset
  <2> QED  BY <1>5, <2>1
<1>7. g = [T \in SUBSET S |-> Rule(g, T)]
  <2> HIDE DEF Rule
  <2> QED  BY <1>5, <1>6
<1> QED  BY <1>5, <1>7 DEF Sums

LEMMA SumOfIsASum ==
  ASSUME NEW S, IsFiniteSet(S), NEW f \in [S -> Nat]
  PROVE  \E g : Sums(g, f, S) /\ SumOf(f, S) = g[S]
<1> DEFINE g == CHOOSE g : Sums(g, f, S)
<1>1. Sums(g, f, S)
      BY SumsExist, Zenon
<1>2. SumOf(f, S) = g[S]
      BY Zenon DEF SumOf, MapThenSumSet, MapThenFoldSet, Sums, Pick
<1> QED  BY <1>1, <1>2

\* One more at one place is one more in the sum; and the sum of nothing is nothing.
LEMMA SumsGrow ==
  ASSUME NEW S, IsFiniteSet(S), NEW f \in [S -> Nat], NEW k \in S,
         NEW g, Sums(g, f, S), NEW h, Sums(h, OneMore(f, k), S)
  PROVE  h[S] = g[S] + 1
<1> DEFINE N == {n \in Nat : \A T \in SUBSET S : Cardinality(T) = n =>
                   /\ g[T] \in Nat
                   /\ h[T] = g[T] + IF k \in T THEN 1 ELSE 0}
<1>1. 0 \in N
  <2> SUFFICES ASSUME NEW T \in SUBSET S, Cardinality(T) = 0
               PROVE  g[T] \in Nat /\ h[T] = g[T] + IF k \in T THEN 1 ELSE 0
      OBVIOUS
  <2>1. T = {}
        BY FS_Subset, FS_EmptySet
  <2>2. g[{}] = 0 /\ h[{}] = 0
        BY DEF Sums
  <2> QED  BY <2>1, <2>2
<1>2. ASSUME NEW n \in Nat, n \in N PROVE n + 1 \in N
  <2> SUFFICES ASSUME NEW T \in SUBSET S, Cardinality(T) = n + 1
               PROVE  g[T] \in Nat /\ h[T] = g[T] + IF k \in T THEN 1 ELSE 0
      OBVIOUS
  <2> DEFINE x == Pick(T)
             R == T \ {x}
  <2>1. T # {}
    <3>1. Cardinality({}) = 0
          BY FS_EmptySet
    <3>2. n + 1 # 0
          OBVIOUS
    <3> QED  BY <3>1, <3>2, Zenon
  <2>2. x \in T /\ R \in SUBSET S /\ Cardinality(R) = n
        BY <2>1, PickIsOne
  <2>3. g[R] \in Nat /\ h[R] = g[R] + IF k \in R THEN 1 ELSE 0
        BY <1>2, <2>2
  <2>4. g[T] = f[x] + g[R] /\ h[T] = OneMore(f, k)[x] + h[R]
        BY <2>1 DEF Sums
  <2> HIDE DEF x
  <2>5. OneMore(f, k)[x] = f[x] + (IF x = k THEN 1 ELSE 0) /\ f[x] \in Nat
        BY <2>2 DEF OneMore
  <2>6. CASE x = k
        BY <2>2, <2>3, <2>4, <2>5, <2>6
  <2>7. CASE x # k
        BY <2>2, <2>3, <2>4, <2>5, <2>7
  <2> QED  BY <2>6, <2>7
<1>3. Cardinality(S) \in Nat
      BY FS_CardinalityType
<1>4. \A i \in 0..(Cardinality(S) - 1) : i \in N => i + 1 \in N
  <2> HIDE DEF N
  <2> QED  BY <1>2, <1>3
<1>5. Cardinality(S) \in N
  <2> HIDE DEF N
  <2>1. 0..Cardinality(S) \subseteq N
        BY <1>1, <1>3, <1>4, F!Induction
  <2> QED  BY <1>3, <2>1
<1> QED  BY <1>5

LEMMA SumsOfZero ==
  ASSUME NEW S, IsFiniteSet(S), NEW g, Sums(g, [x \in S |-> 0], S)
  PROVE  g[S] = 0
<1> DEFINE N == {n \in Nat : \A T \in SUBSET S : Cardinality(T) = n => g[T] = 0}
<1>1. 0 \in N
  <2> SUFFICES ASSUME NEW T \in SUBSET S, Cardinality(T) = 0 PROVE g[T] = 0
      OBVIOUS
  <2>1. T = {}
        BY FS_Subset, FS_EmptySet
  <2> QED  BY <2>1 DEF Sums
<1>2. ASSUME NEW n \in Nat, n \in N PROVE n + 1 \in N
  <2> SUFFICES ASSUME NEW T \in SUBSET S, Cardinality(T) = n + 1 PROVE g[T] = 0
      OBVIOUS
  <2> DEFINE x == Pick(T)
             R == T \ {x}
  <2>1. T # {}
    <3>1. Cardinality({}) = 0
          BY FS_EmptySet
    <3>2. n + 1 # 0
          OBVIOUS
    <3> QED  BY <3>1, <3>2, Zenon
  <2>2. x \in T /\ R \in SUBSET S /\ Cardinality(R) = n
        BY <2>1, PickIsOne
  <2>3. g[R] = 0
        BY <1>2, <2>2
  <2>4. g[T] = [y \in S |-> 0][x] + g[R]
        BY <2>1 DEF Sums
  <2> HIDE DEF x
  <2> QED  BY <2>2, <2>3, <2>4
<1>3. Cardinality(S) \in Nat
      BY FS_CardinalityType
<1>4. \A i \in 0..(Cardinality(S) - 1) : i \in N => i + 1 \in N
  <2> HIDE DEF N
  <2> QED  BY <1>2, <1>3
<1>5. Cardinality(S) \in N
  <2> HIDE DEF N
  <2>1. 0..Cardinality(S) \subseteq N
        BY <1>1, <1>3, <1>4, F!Induction
  <2> QED  BY <1>3, <2>1
<1> QED  BY <1>5

LEMMA SumOfGrows ==
  ASSUME NEW S, IsFiniteSet(S), NEW f \in [S -> Nat], NEW k \in S
  PROVE  SumOf(OneMore(f, k), S) = SumOf(f, S) + 1
<1>1. PICK g : Sums(g, f, S) /\ SumOf(f, S) = g[S]
      BY SumOfIsASum
<1> DEFINE more == OneMore(f, k)
<1>2. more \in [S -> Nat]
      BY DEF OneMore
<1>3. PICK h : Sums(h, more, S) /\ SumOf(more, S) = h[S]
  <2> HIDE DEF more
  <2> QED  BY <1>2, SumOfIsASum
<1>4. h[S] = g[S] + 1
      BY <1>1, <1>3, SumsGrow
<1>5. SumOf(more, S) = SumOf(f, S) + 1
  <2> HIDE DEF more
  <2> QED  BY <1>1, <1>3, <1>4
<1> QED  BY <1>5

LEMMA SumOfZero ==
  ASSUME NEW S, IsFiniteSet(S)
  PROVE  SumOf([x \in S |-> 0], S) = 0
<1> DEFINE zero == [x \in S |-> 0]
<1>1. zero \in [S -> Nat]
      OBVIOUS
<1>2. PICK g : Sums(g, zero, S) /\ SumOf(zero, S) = g[S]
  <2> HIDE DEF zero
  <2> QED  BY <1>1, SumOfIsASum
<1> QED  BY <1>2, SumsOfZero

-----------------------------------------------------------------------------
(* The types of the front, and the counters *)

\* The requests that are counted when they are refused or answered.
IsAbout(r) ==
  /\ r.method # "OPTIONS" /\ r.path # Malformed
  /\ r.path = "/mcp" \/ Policy!MalformedHost(r.host) \/ ~Policy!HostAllowed(r.host)

Kinds == {"not", "limited", "request", "error"}

\* A refusal says what is answered and how it is counted.
Refuses(r, status, counted) ==
  /\ Gate(r) # None /\ Gate(r).status = status /\ Gate(r).counted = counted
  /\ IsAbout(r) <=> counted # "not"

LEMMA RefusalIs ==
  ASSUME NEW r, NEW status \in Statuses, NEW counted \in Kinds, Gate(r) = Refusal(status, counted),
         IsAbout(r) <=> counted # "not"
  PROVE  \E st \in Statuses, co \in Kinds : Refuses(r, st, co)
<1>1. Refusal(status, counted) \in Refusals
      BY DEF Refusal, Refusals, Kinds, Statuses
<1>2. Refusal(status, counted).status = status /\ Refusal(status, counted).counted = counted
      BY DEF Refusal
<1>3. Gate(r) # None
      BY <1>1, AdmissionAssumption
<1>4. Refuses(r, status, counted)
      BY <1>2, <1>3 DEF Refuses
<1> QED  BY <1>4

\* Every request about /mcp, or for a foreign host, is counted by the gate or goes on; and no
\* other is.
LEMMA GateCounts ==
  ASSUME NEW r
  PROVE  \/ Gate(r) = None /\ IsAbout(r)
         \/ \E st \in Statuses, co \in Kinds : Refuses(r, st, co)
<1>0. /\ "not" \in Kinds /\ "limited" \in Kinds /\ "request" \in Kinds /\ "error" \in Kinds
      /\ 200 \in Statuses /\ 204 \in Statuses /\ 400 \in Statuses /\ 403 \in Statuses
      /\ 404 \in Statuses /\ 405 \in Statuses
      /\ "not" # "limited" /\ "not" # "request" /\ "not" # "error" /\ "/mcp" \notin SensitivePaths
      BY DEF Kinds, Statuses, SensitivePaths, LogViewerPaths
<1>1. CASE r.method = "OPTIONS"
  <2>1. \E st \in {204, 403} : Gate(r) = Refusal(st, "not")
        BY <1>1 DEF Gate
  <2>2. ~IsAbout(r)
        BY <1>1 DEF IsAbout
  <2>3. \A st \in {204, 403} : st \in Statuses
        BY <1>0
  <2> QED  BY <1>0, <2>1, <2>2, <2>3, RefusalIs
<1>2. CASE r.method # "OPTIONS" /\ r.path = Malformed
  <2>1. Gate(r) = Refusal(400, "not") /\ ~IsAbout(r)
        BY <1>2 DEF Gate, IsAbout
  <2> QED  BY <1>0, <2>1, RefusalIs
<1> DEFINE Past == r.method # "OPTIONS" /\ r.path # Malformed
<1>3. CASE Past /\ Policy!MalformedHost(r.host)
  <2>1. Gate(r) = Refusal(400, "error") /\ IsAbout(r)
        BY <1>3 DEF Gate, IsAbout
  <2> QED  BY <1>0, <2>1, RefusalIs
<1>4. CASE Past /\ ~Policy!MalformedHost(r.host) /\ ~Policy!HostAllowed(r.host)
  <2>1. Gate(r) = Refusal(403, "error") /\ IsAbout(r)
        BY <1>4 DEF Gate, IsAbout
  <2> QED  BY <1>0, <2>1, RefusalIs
<1>5. CASE Past /\ ~Policy!MalformedHost(r.host) /\ Policy!HostAllowed(r.host)
  <2>0. IsAbout(r) <=> r.path = "/mcp"
        BY <1>5 DEF IsAbout
  <2>1. CASE r.path \in SensitivePaths /\ ~Policy!IsLocalClient(r)
    <3>1. Gate(r) = Refusal(403, "not") /\ ~IsAbout(r)
          BY <1>0, <1>5, <2>0, <2>1 DEF Gate
    <3> QED  BY <1>0, <3>1, RefusalIs
  <2>2. CASE ~(r.path \in SensitivePaths /\ ~Policy!IsLocalClient(r)) /\ r.path # "/mcp"
    <3>1. Gate(r) = Refusal(PageStatus(r), "not") /\ ~IsAbout(r)
          BY <1>5, <2>0, <2>2 DEF Gate
    <3>2. PageStatus(r) \in Statuses
          BY <1>0 DEF PageStatus
    <3> QED  BY <1>0, <3>1, <3>2, RefusalIs
  <2>3. CASE r.path = "/mcp" /\ r.method # "POST"
    <3>1. Gate(r) = Refusal(405, "request") /\ IsAbout(r)
          BY <1>0, <1>5, <2>0, <2>3 DEF Gate
    <3> QED  BY <1>0, <3>1, RefusalIs
  <2>4. CASE r.path = "/mcp" /\ r.method = "POST" /\ ~Policy!EvaluateOrigin(r.origin).allowed
    <3>1. Gate(r) = Refusal(403, "limited") /\ IsAbout(r)
          BY <1>0, <1>5, <2>0, <2>4 DEF Gate
    <3> QED  BY <1>0, <3>1, RefusalIs
  <2>5. CASE r.path = "/mcp" /\ r.method = "POST" /\ Policy!EvaluateOrigin(r.origin).allowed
        BY <1>0, <1>5, <2>0, <2>5 DEF Gate
  <2> QED  BY <1>0, <2>1, <2>2, <2>3, <2>4, <2>5
<1> QED  BY <1>1, <1>2, <1>3, <1>4, <1>5

CountsAs(r, place) == r # None /\ place \in {"answered", "limited"} /\ IsAbout(r)

\* How a step counts a request: not at all, as refused, or as a request.
Meters(r, old, new) ==
  \/ metrics' = metrics /\ (CountsAs(r, new) <=> CountsAs(r, old))
  \/ /\ ~CountsAs(r, old) /\ CountsAs(r, new)
     /\ \/ metrics' = RateLimited
        \/ \E st \in Statuses, e \in BOOLEAN : metrics' = Recorded(st, e)

KeepsOrSetsKey(s) ==
  UNCHANGED credential \/ \E cred \in Credentials : credential' = [credential EXCEPT ![s] = cred]

\* What a step of one handler does to what the front keeps.
Fronts(s) ==
  \E p \in Places \ {"new"} :
    /\ pc' = [pc EXCEPT ![s] = p]
    /\ \/ UNCHANGED answer /\ p # "answered"
       \/ p = "answered" /\ \E st \in Statuses : \E ids : Answers(s, st, ids)
    /\ KeepsOrSetsKey(s)
    /\ Meters(call[s], pc[s], p)
    /\ UNCHANGED workload

LEMMA AnswersFronts ==
  ASSUME NEW s \in Slots, NEW status \in Statuses, NEW ids, Answers(s, status, ids),
         UNCHANGED workload, KeepsOrSetsKey(s),
         Meters(call[s], pc[s], "answered")
  PROVE  Fronts(s)
<1>1. pc' = [pc EXCEPT ![s] = "answered"] /\ "answered" \in Places \ {"new"}
      BY DEF Answers, Places
<1> QED  BY <1>1 DEF Fronts

LEMMA ProceedsFronts ==
  ASSUME NEW s \in Slots, NEW body, NEW cred \in Credentials, Proceeds(s, body, cred),
         pc[s] \notin {"limited", "answered"}, call[s] # None, IsAbout(call[s]), UNCHANGED workload
  PROVE  Fronts(s)
<1>1. KeepsOrSetsKey(s)
      BY DEF Proceeds, KeepsOrSetsKey
<1>2. ~CountsAs(call[s], pc[s]) /\ ~CountsAs(call[s], "forwarded") /\ CountsAs(call[s], "answered")
      BY DEF CountsAs
<1>3. CASE pc' = [pc EXCEPT ![s] = "forwarded"] /\ UNCHANGED <<answer, metrics>>
  <2>1. Meters(call[s], pc[s], "forwarded") /\ "forwarded" \in Places \ {"new"}
        BY <1>2, <1>3 DEF Meters, Places
  <2> QED  BY <1>1, <1>3, <2>1 DEF Fronts
<1>4. ASSUME NEW status \in {200, 202}, Answers(s, status, Rpc!ExtractIds(body)),
             metrics' = Recorded(status, FALSE)
      PROVE  Fronts(s)
  <2>1. status \in Statuses
        BY DEF Statuses
  <2>2. Meters(call[s], pc[s], "answered")
    <3>0. FALSE \in BOOLEAN
          OBVIOUS
    <3>1. \E e \in BOOLEAN : metrics' = Recorded(status, e)
          BY <1>4, <3>0
    <3> QED  BY <1>2, <2>1, <3>1, Zenon DEF Meters
  <2>3. PICK ids : Answers(s, status, ids)
        BY <1>4
  <2> QED  BY <1>1, <2>1, <2>2, <2>3, AnswersFronts
<1> QED  BY <1>3, <1>4 DEF Proceeds

LEMMA HandlerFronts ==
  ASSUME GateInv, BodyInv, NEW s \in Slots, Handler(s)
  PROVE  Fronts(s)
<1>0. /\ call[s] # None
      /\ pc[s] \in {"reading", "token"} =>
           /\ ~CountsAs(call[s], pc[s]) /\ CountsAs(call[s], "answered") /\ IsAbout(call[s])
      /\ ~CountsAs(call[s], "token") /\ ~CountsAs(call[s], "new") /\ ~CountsAs(call[s], "reading")
  <2>1. call[s] # None
    <3>1. pc[s] = "new" => New(s)
          BY Zenon DEF Handler, GateAnswers, Limits, LimitedBody, TooLarge, BodyBreaks, Unauthorized,
             WithKey, WithCachedToken, WaitsForToken, TokenSettles, Reads, New
    <3> QED  BY <3>1 DEF BodyInv, Knows, New
  <2>2. pc[s] \in {"reading", "token"} => IsAbout(call[s])
    <3>1. pc[s] \in {"reading", "token"} => Gate(call[s]) = None
          BY <2>1 DEF GateInv, PassedTheGates
    <3> QED  BY <3>1, GateCounts DEF Refuses
  <2> QED  BY <2>1, <2>2 DEF CountsAs
<1>1. CASE GateAnswers(s)
  <2>1. Gate(call[s]) # None /\ pc[s] = "new"
        BY <1>1 DEF GateAnswers, New
  <2>2. PICK st \in Statuses, co \in Kinds : Refuses(call[s], st, co)
        BY <2>1, GateCounts
  <2>3. Answers(s, st, <<>>)
        BY <1>1, <2>2 DEF GateAnswers, Refuses
  <2>4. metrics' = CASE co = "not" -> metrics
                     [] co = "limited" -> RateLimited
                     [] OTHER -> Recorded(st, co = "error")
        BY <1>1, <2>2 DEF GateAnswers, Refuses
  <2>5. CountsAs(call[s], "answered") <=> co # "not"
        BY <1>0, <2>2 DEF CountsAs, Refuses
  <2>6. Meters(call[s], pc[s], "answered")
        BY <1>0, <2>1, <2>4, <2>5 DEF Meters
  <2> QED  BY <1>1, <2>3, <2>6, AnswersFronts DEF KeepsOrSetsKey, GateAnswers
<1>2. CASE Limits(s)
  <2>1. Gate(call[s]) = None /\ pc[s] = "new"
        BY <1>2 DEF Limits, New
  <2>2. IsAbout(call[s])
        BY <2>1, GateCounts DEF Refuses
  <2>3. PICK p \in {"reading", "limited"} :
          /\ pc' = [pc EXCEPT ![s] = p]
          /\ p = "reading" => metrics' = metrics
          /\ p = "limited" => metrics' = RateLimited
        BY <1>2 DEF Limits
  <2>4. CountsAs(call[s], "limited")
        BY <1>0, <2>2 DEF CountsAs
  <2>5. Meters(call[s], pc[s], p)
        BY <1>0, <2>1, <2>3, <2>4 DEF Meters
  <2>6. p \in Places \ {"new"} /\ p # "answered"
        BY <2>3 DEF Places
  <2> QED  BY <1>2, <2>3, <2>5, <2>6 DEF Limits, Fronts, KeepsOrSetsKey
<1>3. CASE LimitedBody(s)
  <2>1. PICK ids : Answers(s, 429, ids)
        BY <1>3 DEF LimitedBody
  <2>2. Meters(call[s], pc[s], "answered") /\ 429 \in Statuses
        BY <1>3 DEF LimitedBody, Meters, CountsAs, Statuses
  <2> QED  BY <1>3, <2>1, <2>2, AnswersFronts DEF KeepsOrSetsKey, LimitedBody
<1>4. CASE TooLarge(s)
  <2>1. PICK ids : Answers(s, 413, ids)
        BY <1>4 DEF TooLarge
  <2>2. 413 \in Statuses
        BY DEF Statuses
  <2>3. Meters(call[s], pc[s], "answered")
        BY <1>0, <1>4, <2>2 DEF TooLarge, Meters
  <2> QED  BY <1>4, <2>1, <2>2, <2>3, AnswersFronts DEF KeepsOrSetsKey, TooLarge
<1>5. CASE BodyBreaks(s)
  <2>1. 500 \in Statuses /\ 502 \in Statuses
        BY DEF Statuses
  <2>2. CASE pc[s] = "limited"
    <3>1. Answers(s, 500, <<>>) /\ metrics' = metrics
          BY <1>5, <2>2 DEF BodyBreaks
    <3>2. Meters(call[s], pc[s], "answered")
          BY <2>2, <3>1 DEF Meters, CountsAs
    <3> QED  BY <1>5, <2>1, <3>1, <3>2, AnswersFronts DEF KeepsOrSetsKey, BodyBreaks
  <2>3. CASE pc[s] = "reading"
    <3>1. Answers(s, 502, <<>>) /\ metrics' = Recorded(502, TRUE)
          BY <1>5, <2>3 DEF BodyBreaks
    <3>2. Meters(call[s], pc[s], "answered")
          BY <1>0, <2>1, <2>3, <3>1 DEF Meters
    <3> QED  BY <1>5, <2>1, <3>1, <3>2, AnswersFronts DEF KeepsOrSetsKey, BodyBreaks
  <2> QED  BY <1>5, <2>2, <2>3 DEF BodyBreaks
<1>6. CASE Unauthorized(s)
  <2>1. PICK ids : Answers(s, 401, ids)
        BY <1>6 DEF Unauthorized, RefusesUnauthorized
  <2>2. 401 \in Statuses
        BY DEF Statuses
  <2>3. Meters(call[s], pc[s], "answered")
        BY <1>0, <1>6, <2>2 DEF Unauthorized, Reads, RefusesUnauthorized, Meters
  <2> QED  BY <1>6, <2>1, <2>2, <2>3, AnswersFronts DEF KeepsOrSetsKey, Unauthorized
<1>7. CASE WithKey(s) \/ WithCachedToken(s)
  <2>1. KeyOf(call[s]) # None => KeyOf(call[s]) \in Credentials
        BY DEF KeyOf, Credentials
  <2>2. "gcloud" \in Credentials
        BY DEF Credentials
  <2>3. PICK cred \in Credentials : Proceeds(s, call[s].body, cred)
        BY <1>7, <2>1, <2>2 DEF WithKey, WithCachedToken
  <2>4. pc[s] = "reading" /\ UNCHANGED workload
        BY <1>7 DEF WithKey, WithCachedToken, Reads
  <2> QED  BY <1>0, <2>3, <2>4, ProceedsFronts
<1>8. CASE WaitsForToken(s)
  <2>1. /\ pc' = [pc EXCEPT ![s] = "token"] /\ pc[s] = "reading"
        /\ UNCHANGED <<workload, credential, answer, metrics>>
        BY <1>8 DEF WaitsForToken, Reads
  <2>2. Meters(call[s], pc[s], "token") /\ "token" \in Places \ {"new"}
        BY <1>0, <2>1 DEF Meters, Places
  <2> QED  BY <2>1, <2>2 DEF Fronts, KeepsOrSetsKey
<1>9. CASE TokenSettles(s)
  <2>1. CASE Proceeds(s, seen[s], "gcloud")
    <3>1. "gcloud" \in Credentials /\ pc[s] = "token" /\ UNCHANGED workload
          BY <1>9 DEF Credentials, TokenSettles
    <3> QED  BY <1>0, <2>1, <3>1, ProceedsFronts
  <2>2. CASE Answers(s, 502, Rpc!ExtractIds(seen[s])) /\ metrics' = Recorded(502, TRUE) /\ UNCHANGED credential
    <3>1. 502 \in Statuses /\ pc[s] = "token" /\ UNCHANGED workload
          BY <1>9 DEF Statuses, TokenSettles
    <3>2. Meters(call[s], pc[s], "answered")
          BY <1>0, <2>2, <3>1 DEF Meters
    <3> QED  BY <2>2, <3>1, <3>2, AnswersFronts DEF KeepsOrSetsKey
  <2> QED  BY <1>9, <2>1, <2>2 DEF TokenSettles
<1> QED  BY <1>1, <1>2, <1>3, <1>4, <1>5, <1>6, <1>7, <1>8, <1>9 DEF Handler

FrontTypes ==
  /\ pc \in [Slots -> Places] /\ DOMAIN answer = Slots
  /\ credential \in [Slots -> Credentials \cup {None}]
  /\ \A s \in Slots : pc[s] = "answered" => answer[s].status \in Statuses
  /\ metrics \in Metrics
  /\ settings \in [envKey : BOOLEAN, gcloudFallback : BOOLEAN]

Counted == {s \in Slots : CountsAs(call[s], pc[s])}

Tally ==
  /\ metrics.requestsTotal + metrics.rateLimitedTotal = Cardinality(Counted)
  /\ metrics.requestsTotal = SumOf(metrics.byStatus, Statuses)

FrontInv == FrontTypes /\ Tally

LEMMA StatusesAreFinite == IsFiniteSet(Statuses)
<1> DEFINE top == 600
<1>1. top \in Nat /\ Statuses \in SUBSET Nat /\ \A st \in Statuses : st <= top
      BY DEF Statuses
<1> HIDE DEF top
<1> QED  BY <1>1, FS_BoundedSetOfNaturals

\* Both ways to count keep the types, and add one to what they count.
LEMMA CountingIs ==
  ASSUME metrics \in Metrics
  PROVE  /\ RateLimited \in Metrics
         /\ RateLimited.requestsTotal = metrics.requestsTotal
         /\ RateLimited.rateLimitedTotal = metrics.rateLimitedTotal + 1
         /\ RateLimited.byStatus = metrics.byStatus
         /\ \A st \in Statuses, e \in BOOLEAN :
              /\ Recorded(st, e) \in Metrics
              /\ Recorded(st, e).requestsTotal = metrics.requestsTotal + 1
              /\ Recorded(st, e).rateLimitedTotal = metrics.rateLimitedTotal
              /\ Recorded(st, e).byStatus = OneMore(metrics.byStatus, st)
<1>1. /\ metrics.requestsTotal \in Nat /\ metrics.errorsTotal \in Nat
      /\ metrics.rateLimitedTotal \in Nat /\ metrics.byStatus \in [Statuses -> Nat]
      BY DEF Metrics
<1>2. /\ RateLimited \in Metrics
      /\ RateLimited.requestsTotal = metrics.requestsTotal
      /\ RateLimited.rateLimitedTotal = metrics.rateLimitedTotal + 1
      /\ RateLimited.byStatus = metrics.byStatus
      BY <1>1 DEF Metrics, RateLimited
<1>3. ASSUME NEW st \in Statuses, NEW e \in BOOLEAN
      PROVE  /\ Recorded(st, e) \in Metrics
             /\ Recorded(st, e).requestsTotal = metrics.requestsTotal + 1
             /\ Recorded(st, e).rateLimitedTotal = metrics.rateLimitedTotal
             /\ Recorded(st, e).byStatus = OneMore(metrics.byStatus, st)
  <2> DEFINE error == IF e THEN 1 ELSE 0
  <2>1. error \in Nat
        OBVIOUS
  <2>2. PICK q \in Nat, x \in Nat, l \in Nat, f \in [Statuses -> Nat] :
          metrics = [requestsTotal |-> q, errorsTotal |-> x, rateLimitedTotal |-> l, byStatus |-> f]
        BY DEF Metrics
  <2>3. Recorded(st, e) = [requestsTotal |-> q + 1, errorsTotal |-> x + error,
                           rateLimitedTotal |-> l, byStatus |-> OneMore(f, st)]
    <3> DEFINE one == [metrics EXCEPT !.requestsTotal = @ + 1]
               two == [one EXCEPT !.byStatus[st] = @ + 1]
    <3>1. one = [requestsTotal |-> q + 1, errorsTotal |-> x, rateLimitedTotal |-> l, byStatus |-> f]
          BY <2>2
    <3>2. two = [requestsTotal |-> q + 1, errorsTotal |-> x, rateLimitedTotal |-> l, byStatus |-> OneMore(f, st)]
      <4> HIDE DEF one
      <4> QED  BY <3>1 DEF OneMore
    <3>3. Recorded(st, e) = [two EXCEPT !.errorsTotal = @ + error]
          BY Zenon DEF Recorded
    <3> HIDE DEF two, error
    <3> QED  BY <3>2, <3>3
  <2>4. OneMore(f, st) \in [Statuses -> Nat]
        BY DEF OneMore
  <2> HIDE DEF error
  <2>5. x + error \in Nat
        BY <2>1
  <2> QED  BY <2>2, <2>3, <2>4, <2>5 DEF Metrics
<1> QED  BY <1>2, <1>3

LEMMA InitFrontInv == Init => FrontInv
<1> SUFFICES ASSUME Init PROVE FrontInv
    OBVIOUS
<1>1. FrontTypes
  <2>1. metrics \in Metrics
        BY DEF Init, Metrics
  <2>2. settings \in [envKey : BOOLEAN, gcloudFallback : BOOLEAN]
        BY AdmissionAssumption DEF Init
  <2> QED  BY <2>1, <2>2 DEF Init, FrontTypes, Places
<1>2. Counted = {}
      BY DEF Init, Counted, CountsAs
<1>3. /\ metrics.requestsTotal = 0 /\ metrics.rateLimitedTotal = 0
      /\ metrics.byStatus = [st \in Statuses |-> 0]
      BY DEF Init
<1>4. SumOf(metrics.byStatus, Statuses) = 0
      BY <1>3, StatusesAreFinite, SumOfZero
<1> QED  BY <1>1, <1>2, <1>3, <1>4, FS_EmptySet DEF FrontInv, Tally

LEMMA HandlerFrontTypes ==
  ASSUME FrontTypes, NEW s \in Slots, Fronts(s)
  PROVE  FrontTypes'
<1>1. PICK p \in Places \ {"new"} :
        /\ pc' = [pc EXCEPT ![s] = p]
        /\ \/ UNCHANGED answer /\ p # "answered"
           \/ p = "answered" /\ \E st \in Statuses : \E ids : Answers(s, st, ids)
        /\ KeepsOrSetsKey(s)
        /\ Meters(call[s], pc[s], p)
        /\ UNCHANGED workload
      BY DEF Fronts
<1>2. pc' \in [Slots -> Places]
      BY <1>1 DEF FrontTypes
<1>3. /\ DOMAIN answer' = Slots
      /\ \A t \in Slots : pc'[t] = "answered" => answer'[t].status \in Statuses
  <2>1. CASE UNCHANGED answer /\ p # "answered"
        BY <1>1, <2>1 DEF FrontTypes
  <2>2. CASE p = "answered" /\ \E st \in Statuses : \E ids : Answers(s, st, ids)
        BY <1>1, <2>2 DEF FrontTypes, Answers
  <2> QED  BY <1>1, <2>1, <2>2
<1>4. credential' \in [Slots -> Credentials \cup {None}]
      BY <1>1 DEF FrontTypes, KeepsOrSetsKey
<1>5. metrics' \in Metrics
      BY <1>1, CountingIs DEF FrontTypes, Meters
<1> QED  BY <1>1, <1>2, <1>3, <1>4, <1>5 DEF FrontTypes, workload

LEMMA HandlerTally ==
  ASSUME FrontInv, NEW s \in Slots, Fronts(s)
  PROVE  Tally'
<1>1. PICK p \in Places \ {"new"} :
        /\ pc' = [pc EXCEPT ![s] = p] /\ Meters(call[s], pc[s], p) /\ UNCHANGED workload
      BY DEF Fronts
<1>2. metrics \in Metrics /\ pc \in [Slots -> Places]
      BY DEF FrontInv, FrontTypes
<1>3. Counted' = {t \in Slots : CountsAs(call[t], IF t = s THEN p ELSE pc[t])}
      BY <1>1, <1>2 DEF Counted, CountsAs, workload
<1>4. IsFiniteSet(Counted)
      BY AdmissionAssumption, FS_Subset DEF Counted
<1>5. metrics.requestsTotal \in Nat /\ metrics.rateLimitedTotal \in Nat
      /\ metrics.byStatus \in [Statuses -> Nat] /\ Cardinality(Counted) \in Nat
      BY <1>2, <1>4, FS_CardinalityType DEF Metrics
<1>6. CASE metrics' = metrics /\ (CountsAs(call[s], p) <=> CountsAs(call[s], pc[s]))
  <2>1. Counted' = Counted
        BY <1>3, <1>6 DEF Counted
  <2> QED  BY <1>6, <2>1 DEF FrontInv, Tally
<1>7. CASE ~CountsAs(call[s], pc[s]) /\ CountsAs(call[s], p)
  <2>1. Counted' = Counted \cup {s} /\ s \notin Counted
        BY <1>3, <1>7 DEF Counted
  <2>2. Cardinality(Counted') = Cardinality(Counted) + 1
        BY <1>4, <2>1, FS_AddElement
  <2>3. CASE metrics' = RateLimited
    <3>1. /\ metrics'.requestsTotal = metrics.requestsTotal
          /\ metrics'.rateLimitedTotal = metrics.rateLimitedTotal + 1
          /\ metrics'.byStatus = metrics.byStatus
          BY <1>2, <2>3, CountingIs
    <3> QED  BY <1>5, <2>2, <3>1 DEF FrontInv, Tally
  <2>4. CASE \E st \in Statuses, e \in BOOLEAN : metrics' = Recorded(st, e)
    <3>1. PICK st \in Statuses, e \in BOOLEAN : metrics' = Recorded(st, e)
          BY <2>4
    <3>2. /\ metrics'.requestsTotal = metrics.requestsTotal + 1
          /\ metrics'.rateLimitedTotal = metrics.rateLimitedTotal
          /\ metrics'.byStatus = OneMore(metrics.byStatus, st)
          BY <1>2, <3>1, CountingIs
    <3>3. SumOf(OneMore(metrics.byStatus, st), Statuses) = SumOf(metrics.byStatus, Statuses) + 1
          BY <1>5, StatusesAreFinite, SumOfGrows
    <3>4. SumOf(metrics'.byStatus, Statuses) = SumOf(metrics.byStatus, Statuses) + 1
          BY <3>2, <3>3
    <3> QED  BY <1>5, <2>2, <3>2, <3>4 DEF FrontInv, Tally
  <2>5. metrics' = RateLimited \/ \E st \in Statuses, e \in BOOLEAN : metrics' = Recorded(st, e)
        BY <1>1, <1>7 DEF Meters
  <2> QED  BY <2>3, <2>4, <2>5
<1> QED  BY <1>1, <1>6, <1>7 DEF Meters

LEMMA FrontInvHolds == Spec => []FrontInv
<1>1. ASSUME GateInv, BodyInv, FrontInv, [Next]_vars PROVE FrontInv'
  <2>1. CASE \E s \in Slots : Handler(s)
        BY <1>1, <2>1, HandlerFronts, HandlerFrontTypes, HandlerTally DEF FrontInv
  <2>2. CASE UNCHANGED <<handlerVars, metrics>>
    <3>1. FrontTypes'
          BY <1>1, <2>2 DEF FrontInv, FrontTypes, handlerVars, workload
    <3>2. Counted' = Counted
          BY <2>2 DEF Counted, CountsAs, handlerVars, workload
    <3> QED  BY <1>1, <2>2, <3>1, <3>2 DEF FrontInv, Tally
  <2>3. CASE GcloudExits \/ Environment \/ UNCHANGED vars
        BY <2>2, <2>3 DEF GcloudExits, Environment, vars
  <2> QED  BY <1>1, <2>1, <2>2, <2>3 DEF Next
<1> QED  BY <1>1, InitFrontInv, GateInvHolds, BodyInvHolds, PTL DEF Spec

\* Every request that the metrics are about is counted once and never again, whatever happens to
\* it after it was counted, for any number of requests; and the counters by status add up.
THEOREM CallsCountOnce == Spec => []EveryCallCountsOnce
<1>1. ASSUME FrontInv PROVE EveryCallCountsOnce
  <2>1. Counted = {s \in Slots : Counts(s)}
        BY DEF Counted, CountsAs, Counts, IsAbout
  <2>2. SumOf(metrics.byStatus, Statuses) = MapThenSumSet(LAMBDA st : metrics.byStatus[st], Statuses)
        BY DEF SumOf
  <2> QED  BY <1>1, <2>1, <2>2, Zenon DEF FrontInv, Tally, EveryCallCountsOnce
<1> QED  BY <1>1, FrontInvHolds, PTL

\* What is left of the types: the clock, the runs of gcloud, and who waits for which of them.
WaitTypes ==
  /\ Gcloud!TokenTypeOK
  /\ joined \in [Slots -> 1..MaxRuns \cup {None}] /\ failed \subseteq 1..MaxRuns
  /\ warned \in BOOLEAN

LEMMA WaitTypesHold == Spec => []WaitTypes
<1>0. MaxRuns \in Nat
      BY AdmissionAssumption
<1>1. ASSUME Init PROVE WaitTypes
  <2>1. Gcloud!TokenTypeOK
        BY <1>0, <1>1 DEF Init, Gcloud!TokenInit, Gcloud!TokenTypeOK
  <2>2. joined \in [Slots -> 1..MaxRuns \cup {None}] /\ failed \subseteq 1..MaxRuns /\ warned \in BOOLEAN
        BY <1>1 DEF Init
  <2> QED  BY <2>1, <2>2 DEF WaitTypes
<1>2. ASSUME RateInv, WaitTypes, [Next]_vars PROVE WaitTypes'
  <2>1. ASSUME NEW s \in Slots, WaitsForToken(s) PROVE WaitTypes'
    <3>1. PICK run \in 1..MaxRuns : Gcloud!AwaitsToken(wall, run) /\ joined' = [joined EXCEPT ![s] = run]
          BY <2>1 DEF WaitsForToken
    <3>2. Gcloud!TokenTypeOK'
      <4>1. CASE UNCHANGED <<token, fetchedAt, pending, running, runs>>
        <5>1. Gcloud!TokenTypeOK
              BY <1>2 DEF WaitTypes
        <5> QED  BY <4>1, <5>1 DEF Gcloud!TokenTypeOK
      <4>2. CASE /\ runs' = run /\ running' = running \cup {run} /\ pending' = run
                 /\ UNCHANGED <<token, fetchedAt>>
        <5>1. Gcloud!TokenTypeOK /\ run \in 1..MaxRuns /\ run \in 0..MaxRuns
              BY <1>0, <1>2, <3>1 DEF WaitTypes
        <5> QED  BY <4>2, <5>1 DEF Gcloud!TokenTypeOK
      <4> QED  BY <3>1, <4>1, <4>2 DEF Gcloud!AwaitsToken, Gcloud!tokenVars
    <3>3. warned' \in BOOLEAN
          BY <2>1 DEF WaitsForToken, Warns
    <3> QED  BY <1>2, <2>1, <3>1, <3>2, <3>3 DEF WaitsForToken, WaitTypes
  <2>2. CASE GcloudExits
    <3>1. PICK run \in running, ok \in BOOLEAN :
            Gcloud!GcloudEnds(run, ok, wall) /\ failed' = IF ok THEN failed ELSE failed \cup {run}
          BY <2>2 DEF GcloudExits
    <3>2. run \in 1..MaxRuns /\ wall \in Int
          BY <1>2, <3>1 DEF WaitTypes, Gcloud!TokenTypeOK, RateInv, RateTypeOK
    <3>3. Gcloud!TokenTypeOK' /\ failed' \subseteq 1..MaxRuns
          BY <1>2, <3>1, <3>2 DEF WaitTypes, Gcloud!TokenTypeOK, Gcloud!GcloudEnds
    <3> QED  BY <1>2, <2>2, <3>3 DEF GcloudExits, WaitTypes, handlerVars
  <2>3. CASE UNCHANGED <<tokenVars, joined>> /\ warned' \in BOOLEAN
        BY <1>2, <2>3 DEF WaitTypes, tokenVars, Gcloud!TokenTypeOK
  <2>4. ASSUME NEW s \in Slots, Handler(s), ~WaitsForToken(s)
        PROVE  UNCHANGED <<tokenVars, joined>> /\ warned' \in BOOLEAN
    <3>1. warned \in BOOLEAN
          BY <1>2 DEF WaitTypes
    <3> QED  BY <2>4, <3>1 DEF Handler, GateAnswers, Limits, LimitedBody, TooLarge, BodyBreaks,
                Unauthorized, WithKey, WithCachedToken, TokenSettles, Warns
  <2>5. CASE Environment \/ UNCHANGED vars
        BY <1>2, <2>3, <2>5 DEF Environment, vars, handlerVars, WaitTypes
  <2> QED  BY <1>2, <2>1, <2>2, <2>3, <2>4, <2>5 DEF Next
<1> QED  BY <1>1, <1>2, RateInvHolds, PTL DEF Spec

\* The type invariant of the front: all the statuses it answers are counted ones, every token is
\* the one of a run, and a handler waits for one that was started.
THEOREM FrontIsTyped == Spec => []TypeOK
<1>1. RateInv /\ FrontInv /\ WaitTypes => TypeOK
      BY DEF RateInv, FrontInv, FrontTypes, WaitTypes, TypeOK
<1> QED  BY <1>1, RateInvHolds, FrontInvHolds, WaitTypesHold, PTL
=============================================================================
