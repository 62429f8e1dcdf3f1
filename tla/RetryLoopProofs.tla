-------------------------- MODULE RetryLoopProofs --------------------------
(***************************************************************************)
(* What the retry loop may send, for every number of attempts and every    *)
(* deadline.                                                               *)
(***************************************************************************)
EXTENDS RetryLoop, TLAPS

\* Before an unsafe request is out it was never out, and after it is out it is not retried.
OnceUnsafe ==
  ~safe => /\ pc \in {"top", "fetching", "sleeping"} => reached = 0
           /\ pc # "draining"
           /\ reached <= 1

\* Each attempt sends at most once, and the loop only goes on while attempts are left.
OncePerAttempt ==
  /\ attempt <= MaxAttempts
  /\ reached <= attempt
  /\ pc \in {"top", "fetching"} => reached < attempt
  /\ pc \in {"draining", "sleeping"} => attempt < MaxAttempts

\* A safe request nobody waits for has been aborted.
GivenUpIsAborted == safe /\ (timedOut \/ clientGone) => aborted

Inv == /\ TypeOK
       /\ OnceUnsafe /\ OncePerAttempt
       /\ UnknownOutcomeIsReported /\ GivenUpIsAborted

LEMMA InitInv == Init => Inv
<1> SUFFICES ASSUME Init PROVE Inv
  OBVIOUS
<1>1. TypeOK
  <2>1. /\ safe \in BOOLEAN /\ outcomeUnknown \in BOOLEAN
        /\ timedOut \in BOOLEAN /\ clientGone \in BOOLEAN /\ aborted \in BOOLEAN
    BY Zenon DEF Init
  <2>2. /\ pc \in Places /\ attempt \in Nat /\ remaining \in Int
        /\ delay \in Nat /\ wakeAt \in Nat /\ now \in Nat /\ reached \in Nat
    BY LoopAssumption, SMT DEF Init, Places
  <2> QED
    BY <2>1, <2>2 DEF TypeOK
<1>2. OnceUnsafe /\ OncePerAttempt
  BY LoopAssumption DEF Init, OnceUnsafe, OncePerAttempt
<1>3. UnknownOutcomeIsReported /\ GivenUpIsAborted
  BY DEF Init, UnknownOutcomeIsReported, GivenUpIsAborted
<1> QED
  BY <1>1, <1>2, <1>3 DEF Inv

\* Every delay is a number of milliseconds.
LEMMA DelayType ==
  ASSUME NEW n \in Nat, NEW r \in RetryAfters \cup {NoWait}, NEW d \in Delays(n, BaseDelay, r)
  PROVE  d \in Nat
BY LoopAssumption DEF Delays, JitteredDelays, NoWait

LEMMA AfterType == ASSUME NEW d \in Nat, now \in Nat PROVE After(d) \in Nat
BY LoopAssumption DEF After

\* What the catch branch may do to a safe or unsafe request, from either phase.
LEMMA CaughtInv ==
  ASSUME Inv, NEW e \in Errors, CaughtWith(e),
         \/ pc = "fetching"
         \/ pc = "sent" /\ PhaseOfError(e) = "sent"
  PROVE  Inv'
<1> DEFINE d == DecideOnError(safe, attempt, MaxAttempts, e, remaining)
<1>1. /\ outcomeUnknown' = (outcomeUnknown \/ d.outcomeUnknown)
      /\ \/ /\ pc' = "threw"
            /\ UNCHANGED <<delay, wakeAt>>
         \/ /\ d.retry
            /\ pc' = "sleeping"
            /\ delay' \in Delays(attempt, BaseDelay, NoWait)
            /\ wakeAt' = After(delay')
      /\ UNCHANGED <<safe, attempt, remaining, now, timedOut, clientGone, aborted, reached>>
  BY DEF CaughtWith, requestVars
<1>2. /\ d.retry => attempt < MaxAttempts /\ (safe \/ PhaseOfError(e) = "connect")
      /\ d.outcomeUnknown <=> ~safe /\ PhaseOfError(e) = "sent"
      /\ d.outcomeUnknown \in BOOLEAN
  BY DEF DecideOnError, Decision
<1> HIDE DEF d
<1>3. PhaseOfError(e) \in {"connect", "sent"}
  BY DEF PhaseOfError
<1>4. TypeOK'
  <2>1. delay' \in Nat /\ wakeAt' \in Nat
    BY <1>1, DelayType, AfterType DEF Inv, TypeOK, OncePerAttempt
  <2>2. outcomeUnknown' \in BOOLEAN
    BY <1>1, <1>2 DEF Inv, TypeOK
  <2> QED
    BY <1>1, <2>1, <2>2 DEF Inv, TypeOK, Places
<1>5. OnceUnsafe'
  BY <1>1, <1>2, <1>3 DEF Inv, TypeOK, OnceUnsafe
<1>6. OncePerAttempt'
  BY <1>1, <1>2 DEF Inv, TypeOK, OncePerAttempt
<1>7. UnknownOutcomeIsReported'
  BY <1>1, <1>2, <1>3 DEF Inv, TypeOK, OnceUnsafe, UnknownOutcomeIsReported
<1>8. GivenUpIsAborted'
  BY <1>1 DEF Inv, GivenUpIsAborted
<1> QED
  BY <1>4, <1>5, <1>6, <1>7, <1>8 DEF Inv

LEMMA NextInv == Inv /\ [Next]_vars => Inv'
<1> SUFFICES ASSUME Inv, [Next]_vars PROVE Inv'
  OBVIOUS
<1> USE DEF Inv, requestVars
<1>1. CASE StartAttempt
  <2>1. TypeOK'
    BY <1>1, LoopAssumption DEF StartAttempt, TypeOK, Places
  <2> QED
    BY <1>1, <2>1 DEF StartAttempt, TypeOK, OnceUnsafe, OncePerAttempt,
                      UnknownOutcomeIsReported, GivenUpIsAborted
<1>2. CASE FetchAborts
  <2>1. AbortError \in Errors /\ PhaseOfError(AbortError) = "sent"
    BY DEF AbortError, Errors, PhaseOfError
  <2> QED
    BY <1>2, <2>1, CaughtInv DEF FetchAborts
<1>3. CASE Drained
  <2>1. TypeOK'
    BY <1>3, AfterType DEF Drained, TypeOK, Places
  <2> QED
    BY <1>3, <2>1 DEF Drained, TypeOK, OnceUnsafe, OncePerAttempt,
                      UnknownOutcomeIsReported, GivenUpIsAborted
<1>4. CASE Wakes
  <2>1. TypeOK'
    BY <1>4 DEF Wakes, TypeOK, Places
  <2> QED
    BY <1>4, <2>1, LoopAssumption
    DEF Wakes, TypeOK, OnceUnsafe, OncePerAttempt, UnknownOutcomeIsReported, GivenUpIsAborted
<1>5. CASE RequestLeaves
  <2>1. TypeOK'
    BY <1>5 DEF RequestLeaves, TypeOK, Places
  <2> QED
    BY <1>5, <2>1
    DEF RequestLeaves, TypeOK, OnceUnsafe, OncePerAttempt, UnknownOutcomeIsReported,
        GivenUpIsAborted
<1>6. ASSUME NEW e \in Errors, ConnectFails(e) PROVE Inv'
  BY <1>6, CaughtInv DEF ConnectFails
<1>7. ASSUME NEW e \in Errors, ConnectionDrops(e) PROVE Inv'
  <2>1. PhaseOfError(e) = "sent"
    BY <1>7 DEF ConnectionDrops, ProvesNotSent, PhaseOfError
  <2> QED
    BY <1>7, <2>1, CaughtInv DEF ConnectionDrops
<1>8. ASSUME NEW s \in Statuses, NEW r \in RetryAfters, Responds(s, r) PROVE Inv'
  <2> DEFINE d == DecideOnStatus(safe, attempt, MaxAttempts, s, remaining)
  <2>1. /\ pc = "sent"
        /\ \/ pc' = "returned" /\ UNCHANGED delay
           \/ /\ d.retry
              /\ pc' = "draining"
              /\ delay' \in Delays(attempt, BaseDelay, r)
        /\ UNCHANGED <<safe, attempt, remaining, wakeAt, now, timedOut, clientGone, aborted,
                       outcomeUnknown, reached>>
    BY <1>8 DEF Responds
  <2>2. d.retry => attempt < MaxAttempts /\ safe
    BY DEF DecideOnStatus, Decision
  <2> HIDE DEF d
  <2>3. delay' \in Nat
    BY <2>1, DelayType DEF TypeOK, OncePerAttempt
  <2>4. TypeOK'
    BY <2>1, <2>3 DEF TypeOK, Places
  <2> QED
    BY <2>1, <2>2, <2>4
    DEF TypeOK, OnceUnsafe, OncePerAttempt, UnknownOutcomeIsReported, GivenUpIsAborted
<1>9. CASE Tick
  <2>1. TypeOK'
    BY <1>9 DEF Tick, TypeOK, Places
  <2> QED
    BY <1>9, <2>1 DEF Tick, OnceUnsafe, OncePerAttempt, UnknownOutcomeIsReported, GivenUpIsAborted
<1>10. CASE ResponseTimer \/ AbortTimer \/ ClientLeaves
  <2>1. TypeOK'
    BY <1>10 DEF ResponseTimer, AbortTimer, ClientLeaves, TypeOK, Places
  <2>2. OnceUnsafe' /\ OncePerAttempt' /\ UnknownOutcomeIsReported'
    BY <1>10 DEF ResponseTimer, AbortTimer, ClientLeaves, OnceUnsafe, OncePerAttempt,
                 UnknownOutcomeIsReported
  <2>3. GivenUpIsAborted'
    BY <1>10 DEF ResponseTimer, AbortTimer, ClientLeaves, GivenUpIsAborted
  <2> QED
    BY <2>1, <2>2, <2>3
<1>11. CASE UNCHANGED vars
  BY <1>11 DEF vars, TypeOK, OnceUnsafe, OncePerAttempt, UnknownOutcomeIsReported, GivenUpIsAborted
<1> QED
  BY <1>1, <1>2, <1>3, <1>4, <1>5, <1>6, <1>7, <1>8, <1>9, <1>10, <1>11 DEF Next, Loop

\* An unsafe request is sent at most once, no request is attempted more often than
\* configured, and an unsafe request that was sent and failed is reported as unknown.
THEOREM RetryLoopSafety ==
  Spec => [](TypeOK /\ UnsafeLeavesOnce /\ UnknownOutcomeIsReported /\ AttemptsBounded)
<1>1. Spec => []Inv
  BY InitInv, NextInv, PTL DEF Spec
<1>2. Inv => TypeOK /\ UnsafeLeavesOnce /\ UnknownOutcomeIsReported /\ AttemptsBounded
  BY DEF Inv, OnceUnsafe, OncePerAttempt, UnsafeLeavesOnce, AttemptsBounded
<1> QED
  BY <1>1, <1>2, PTL

\* When the loop throws after an unsafe request has left, its caller has been told that the
\* outcome is unknown (RetryLoopSafety, of which this is the part that answers depend on).
THEOREM UnknownOutcomesAreReported == Spec => []UnknownOutcomeIsReported
BY RetryLoopSafety, PTL

\* The place of the loop, its clock, its flags and its counters keep their types.
THEOREM RetryLoopTypes == Spec => []TypeOK
BY RetryLoopSafety, PTL

\* Nothing is sent for a safe request that has been given up, although the loop itself does
\* not look: the aborted signal stops the next fetch.
THEOREM GivenUpIsNotSent == Spec => NoSafeWriteAfterGivingUp
<1>1. Inv /\ [Next]_vars => [safe /\ (timedOut \/ clientGone) => reached' = reached]_vars
  <2> SUFFICES ASSUME Inv, Next, safe, timedOut \/ clientGone PROVE reached' = reached
    BY DEF vars
  <2>1. ~RequestLeaves
    BY DEF Inv, GivenUpIsAborted, RequestLeaves
  <2> QED
    BY <2>1 DEF Next, Loop, StartAttempt, FetchAborts, Drained, Wakes, ConnectFails,
                ConnectionDrops, CaughtWith, Responds, Tick, ResponseTimer, AbortTimer,
                ClientLeaves
<1> QED
  BY <1>1, InitInv, NextInv, PTL DEF Spec, NoSafeWriteAfterGivingUp
=============================================================================
