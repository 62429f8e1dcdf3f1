------------------------------ MODULE RateLimit ------------------------------
(***************************************************************************)
(* The token buckets of src/src/http/ratelimit.js and the sweep that       *)
(* index.js runs over them.                                                *)
(*                                                                         *)
(* Buckets are filled by Date.now(), which may step back: `wall` is that   *)
(* clock and `stepped` the sum of its steps back, so Real is the time that *)
(* has really passed.  A request costs Cost tokens and a tick refills      *)
(* Rate, so that fractions of a token are whole numbers.                   *)
(***************************************************************************)
EXTENDS Integers

CONSTANTS Ips,
          Cost, Rate,
          Burst,    \* the burst, in the same unit
          MaxAge,   \* maxAgeMs of the sweep
          MaxReal,  \* the bound of the clock
          Steps,    \* by how much the clock may step back at once
          MaxStepped,  \* the bound on all its steps back
          None

\* Rate and burst come from the environment and are not related to the age, which is fixed.
ASSUME RateAssumption ==
  /\ Cost \in Nat \ {0} /\ Rate \in Nat /\ Burst \in Nat
  /\ MaxAge \in Nat /\ MaxReal \in Nat
  /\ Steps \subseteq Nat /\ MaxStepped \in Nat
  /\ None \notin [tokens : Int, last : Int]

VARIABLES wall, stepped,
          bucket,    \* rateLimitBuckets; None: not in the map
          admitted,  \* history: how many requests of a client passed since `since`
          touched,   \* history: the real time of the last check of a client
          forgotten, \* history: how often the sweep forgot its bucket since `since`
          since      \* history: when the observation began

rateVars == <<wall, stepped, bucket, admitted, touched, forgotten, since>>

Real == wall + stepped

Buckets == [tokens : Int, last : Int]

RateTypeOK ==
  /\ wall \in Int /\ stepped \in Nat
  /\ bucket \in [Ips -> Buckets \cup {None}]
  /\ admitted \in [Ips -> Nat]
  /\ touched \in [Ips -> Int] /\ forgotten \in [Ips -> Nat] /\ since \in Int

RateInit ==
  /\ wall = 0 /\ stepped = 0
  /\ bucket = [i \in Ips |-> None]
  /\ admitted = [i \in Ips |-> 0] /\ touched = [i \in Ips |-> 0]
  /\ forgotten = [i \in Ips |-> 0] /\ since = 0

\* The bucket of a client, refilled up to now.
RefilledTokens(i) ==
  LET b == IF bucket[i] = None THEN [tokens |-> Burst, last |-> wall] ELSE bucket[i]
      tokens == b.tokens + (wall - b.last) * Rate
  IN  IF tokens > Burst THEN Burst ELSE tokens

Passes(i) == RefilledTokens(i) >= Cost

\* A mistake: a refused request leaves lastRefill alone, so the same time refills twice.
CheckRateLimitKeepsTime(i) ==
  /\ bucket' = [bucket EXCEPT ![i] =
                  [tokens |-> RefilledTokens(i) - (IF Passes(i) THEN Cost ELSE 0),
                   last |-> IF bucket[i] = None \/ Passes(i) THEN wall ELSE bucket[i].last]]
  /\ admitted' = [admitted EXCEPT ![i] = @ + IF Passes(i) THEN 1 ELSE 0]
  /\ touched' = [touched EXCEPT ![i] = Real]
  /\ UNCHANGED <<wall, stepped, forgotten, since>>

\* checkRateLimit: a request is allowed if it Passes.
CheckRateLimit(i) ==
  /\ bucket' = [bucket EXCEPT ![i] =
                  [tokens |-> RefilledTokens(i) - (IF Passes(i) THEN Cost ELSE 0),
                   last |-> wall]]
  /\ admitted' = [admitted EXCEPT ![i] = @ + IF Passes(i) THEN 1 ELSE 0]
  /\ touched' = [touched EXCEPT ![i] = Real]
  /\ UNCHANGED <<wall, stepped, forgotten, since>>

Stale(i) == bucket[i] # None /\ wall - bucket[i].last > MaxAge

\* The interval may fire at any moment: its phase is that of the start of the process.
SweepBuckets ==
  /\ \E i \in Ips : Stale(i)
  /\ bucket' = [i \in Ips |-> IF Stale(i) THEN None ELSE bucket[i]]
  /\ forgotten' = [i \in Ips |-> forgotten[i] + IF Stale(i) THEN 1 ELSE 0]
  /\ UNCHANGED <<wall, stepped, admitted, touched, since>>

\* Time passes.
ClockTicks ==
  /\ Real < MaxReal
  /\ wall' = wall + 1
  /\ UNCHANGED <<stepped, bucket, admitted, touched, forgotten, since>>

\* The system clock is corrected.
ClockStepsBack(d) ==
  /\ stepped + d <= MaxStepped
  /\ wall' = wall - d /\ stepped' = stepped + d
  /\ UNCHANGED <<bucket, admitted, touched, forgotten, since>>

\* The observer looks at the interval that begins now.
StartObserving ==
  /\ since < Real
  /\ since' = Real
  /\ admitted' = [i \in Ips |-> 0] /\ forgotten' = [i \in Ips |-> 0]
  /\ UNCHANGED <<wall, stepped, bucket, touched>>

RateNext ==
  \/ \E i \in Ips : CheckRateLimit(i)
  \/ SweepBuckets \/ ClockTicks \/ StartObserving
  \/ \E d \in Steps : ClockStepsBack(d)

RateSpec == RateInit /\ [][RateNext]_rateVars

\* What a client gains when its bucket is forgotten: the new one is full, the old one would have
\* refilled for MaxAge only.  Nothing, if that fills it.
Gain == IF Rate * MaxAge >= Burst THEN 0 ELSE Burst - Rate * MaxAge

\* In any interval a client gets at most the burst, what the rate allows for the time that really
\* passed, and the gain for each time the sweep forgot its bucket, also when the clock steps back
\* (README, "Rate limiting"; checkRateLimit and sweepRateLimitBuckets).
BurstBounded ==
  \A i \in Ips :
    Cost * admitted[i] <= Burst + forgotten[i] * Gain + Rate * (Real - since)
=============================================================================
