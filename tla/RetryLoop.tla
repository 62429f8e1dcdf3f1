----------------------------- MODULE RetryLoop -----------------------------
(***************************************************************************)
(* One run of fetchUpstreamWithRetry (index.js) with the timers and the    *)
(* close handler of the request it serves.  `safe` is the class of the     *)
(* request.  The upstream is the environment: it may refuse the            *)
(* connection, take the request and answer, take it and drop the           *)
(* connection, or take it and stay silent.                                 *)
(***************************************************************************)
EXTENDS RetryPolicy, Naturals

CONSTANTS MaxAttempts,  \* UPSTREAM_RETRY_ATTEMPTS, or 1 when retries are off
          BaseDelay,    \* UPSTREAM_RETRY_BASE_DELAY_MS
          Deadline,     \* REQUEST_TIMEOUT_MS
          UnsafeMax,    \* UNSAFE_MAX_DURATION_MS
          RetryAfters,  \* what the upstream may send as Retry-After
          MaxTime       \* the bound of the model's clock, where it stops

ASSUME LoopAssumption ==
  /\ MaxAttempts \in Nat \ {0}
  /\ BaseDelay \in Nat /\ Deadline \in Nat /\ UnsafeMax \in Nat /\ MaxTime \in Nat
  /\ RetryAfters \subseteq Nat \cup {NoWait}

VARIABLES safe,       \* classification.safe
          pc,         \* where the loop stands
          attempt,    \* let attempt
          remaining,  \* remainingMs, read at the top of the iteration
          delay,      \* decision.delayMs of the iteration
          wakeAt,     \* when sleep(delayMs) ends
          now,        \* Date.now(), from the arrival of the request
          timedOut, clientGone, aborted,  \* the flags of the request and its controller
          outcomeUnknown,                 \* set by onOutcomeUnknown
          reached     \* history: how often the request left the proxy

requestVars == <<timedOut, clientGone, aborted>>
vars == <<safe, pc, attempt, remaining, delay, wakeAt, now, requestVars, outcomeUnknown, reached>>

Places == {"top",       \* about to start an attempt
           "fetching",  \* fetch() called, nothing written yet
           "sent",      \* the request left, no response headers yet
           "draining",  \* response.arrayBuffer() of a response that will be retried
           "sleeping",  \* sleep(delayMs)
           "returned",  \* a response is returned
           "threw"}     \* the last error is thrown

TypeOK ==
  /\ safe \in BOOLEAN
  /\ pc \in Places
  /\ attempt \in Nat
  /\ remaining \in Int
  /\ delay \in Nat
  /\ wakeAt \in Nat
  /\ now \in Nat
  /\ timedOut \in BOOLEAN /\ clientGone \in BOOLEAN /\ aborted \in BOOLEAN
  /\ outcomeUnknown \in BOOLEAN
  /\ reached \in Nat

Init ==
  /\ safe \in BOOLEAN
  /\ pc = "top" /\ attempt = 1
  /\ remaining = Deadline /\ delay = 0 /\ wakeAt = 0 /\ now = 0
  /\ timedOut = FALSE /\ clientGone = FALSE /\ aborted = FALSE
  /\ outcomeUnknown = FALSE
  /\ reached = 0

Ended == pc \in {"returned", "threw"}

-----------------------------------------------------------------------------
(* The loop *)

StartAttempt ==
  /\ pc = "top"
  /\ remaining' = Deadline - now
  /\ pc' = "fetching"
  /\ UNCHANGED <<safe, attempt, delay, wakeAt, now, requestVars, outcomeUnknown, reached>>

\* The bytes go out.
RequestLeaves ==
  /\ pc = "fetching" /\ ~aborted
  /\ pc' = "sent"
  /\ reached' = reached + 1
  /\ UNCHANGED <<safe, attempt, remaining, delay, wakeAt, now, requestVars, outcomeUnknown>>

\* The clock of the model stops at MaxTime, so a longer sleep ends there.
After(d) == IF now + d > MaxTime THEN MaxTime ELSE now + d

\* The catch branch: note an unknown outcome, then give up or sleep.
CaughtWith(e) ==
  LET decision == DecideOnError(safe, attempt, MaxAttempts, e, remaining)
  IN  /\ outcomeUnknown' = (outcomeUnknown \/ decision.outcomeUnknown)
      /\ \/ /\ ~decision.retry \/ timedOut \/ clientGone
            /\ pc' = "threw"
            /\ UNCHANGED <<delay, wakeAt>>
         \/ /\ decision.retry /\ ~timedOut /\ ~clientGone
            /\ pc' = "sleeping"
            /\ delay' \in Delays(attempt, BaseDelay, NoWait)
            /\ wakeAt' = After(delay')
      /\ UNCHANGED <<safe, attempt, remaining, now, requestVars, reached>>

\* Before the request left, undici may report any code.
ConnectFails(e) == pc = "fetching" /\ ~aborted /\ ~e.aborted /\ CaughtWith(e)

\* After it left, no error proves that it did not.
ProvesNotSent(e) == e.code = "connect" \/ (e.code = "unlisted" /\ e.text)

ConnectionDrops(e) ==
  pc = "sent" /\ ~aborted /\ ~e.aborted /\ ~ProvesNotSent(e) /\ CaughtWith(e)

\* An aborted signal rejects fetch() with AbortError, also when fetch() has only just started.
FetchAborts == pc \in {"fetching", "sent"} /\ aborted /\ CaughtWith(AbortError)

\* Response headers arrive: return the response, or read it to the end and sleep.
Responds(status, retryAfter) ==
  LET decision == DecideOnStatus(safe, attempt, MaxAttempts, status, remaining)
  IN  /\ pc = "sent" /\ ~aborted
      /\ \/ /\ ~decision.retry \/ timedOut \/ clientGone
            /\ pc' = "returned"
            /\ UNCHANGED delay
         \/ /\ decision.retry /\ ~timedOut /\ ~clientGone
            /\ pc' = "draining"
            /\ delay' \in Delays(attempt, BaseDelay, retryAfter)
      /\ UNCHANGED <<safe, attempt, remaining, wakeAt, now, requestVars, outcomeUnknown, reached>>

\* arrayBuffer() ends, by the end of the body or by a failure that is swallowed; then the sleep.
Drained ==
  /\ pc = "draining"
  /\ pc' = "sleeping"
  /\ wakeAt' = After(delay)
  /\ UNCHANGED <<safe, attempt, remaining, delay, now, requestVars, outcomeUnknown, reached>>

\* The sleep is over; nothing is checked again before the next fetch.
Wakes ==
  /\ pc = "sleeping" /\ now >= wakeAt
  /\ pc' = "top"
  /\ attempt' = attempt + 1
  /\ UNCHANGED <<safe, remaining, delay, wakeAt, now, requestVars, outcomeUnknown, reached>>

-----------------------------------------------------------------------------
(* The request the loop serves *)

Tick ==
  /\ ~Ended /\ now < MaxTime
  /\ now' = now + 1
  /\ UNCHANGED <<safe, pc, attempt, remaining, delay, wakeAt, requestVars, outcomeUnknown, reached>>

\* timeoutId: REQUEST_TIMEOUT_MS passed.  A safe request is aborted, an unsafe one detached.
ResponseTimer ==
  /\ ~Ended /\ ~timedOut /\ now >= Deadline
  /\ timedOut' = TRUE
  /\ aborted' = (aborted \/ safe)
  /\ UNCHANGED <<safe, pc, attempt, remaining, delay, wakeAt, now, clientGone,
                 outcomeUnknown, reached>>

\* A mistake: only safe requests get the second timer.
AbortTimerSafeOnly ==
  /\ ~Ended /\ ~aborted /\ safe
  /\ now >= Deadline
  /\ aborted' = TRUE
  /\ UNCHANGED <<safe, pc, attempt, remaining, delay, wakeAt, now, timedOut, clientGone,
                 outcomeUnknown, reached>>

\* abortId: the upstream deadline, REQUEST_TIMEOUT_MS for a safe request as well.
AbortTimer ==
  /\ ~Ended /\ ~aborted
  /\ now >= IF safe THEN Deadline ELSE UnsafeMax
  /\ aborted' = TRUE
  /\ UNCHANGED <<safe, pc, attempt, remaining, delay, wakeAt, now, timedOut, clientGone,
                 outcomeUnknown, reached>>

\* A mistake: upstreamInFlight is reset before the loop is over, so nothing is aborted.
ClientLeavesUnnoticed ==
  /\ ~Ended /\ ~clientGone
  /\ clientGone' = TRUE
  /\ UNCHANGED <<safe, pc, attempt, remaining, delay, wakeAt, now, timedOut, aborted,
                 outcomeUnknown, reached>>

\* onClientClose: the flag for every request, an abort for a safe one (upstreamInFlight is
\* true for the whole loop).
ClientLeaves ==
  /\ ~Ended /\ ~clientGone
  /\ clientGone' = TRUE
  /\ aborted' = (aborted \/ safe)
  /\ UNCHANGED <<safe, pc, attempt, remaining, delay, wakeAt, now, timedOut,
                 outcomeUnknown, reached>>

-----------------------------------------------------------------------------

Loop == StartAttempt \/ FetchAborts \/ Drained \/ Wakes

Next ==
  \/ Loop \/ RequestLeaves
  \/ \E e \in Errors : ConnectFails(e) \/ ConnectionDrops(e)
  \/ \E s \in Statuses, r \in RetryAfters : Responds(s, r)
  \/ Tick \/ ResponseTimer \/ AbortTimer \/ ClientLeaves

\* Time passes, due timers fire and the loop goes on; the upstream need not do anything.  A
\* body that is being drained ends, or its connection fails, or the abort ends it.
Fairness ==
  /\ WF_vars(Loop) /\ WF_vars(Tick)
  /\ WF_vars(ResponseTimer) /\ WF_vars(AbortTimer)

Spec == Init /\ [][Next]_vars /\ Fairness

-----------------------------------------------------------------------------
(* Properties *)

\* An unsafe request reaches the upstream at most once, whatever fails and is retried: the
\* reason retry.js exists (its header, and ADR 0003).
UnsafeLeavesOnce == ~safe => reached <= 1

\* When the loop throws on an unsafe request that left the proxy, the handler has been told
\* that the outcome is unknown: it is what decides between -32008 and an error that invites
\* a retry.
UnknownOutcomeIsReported == pc = "threw" /\ ~safe /\ reached > 0 => outcomeUnknown

\* No request, safe or not, is attempted or sent more often than configured.
AttemptsBounded == attempt <= MaxAttempts /\ reached <= attempt

\* A safe request is never written to the upstream once its client has left or been timed
\* out, although the loop looks at neither between the sleep and the next fetch.
NoSafeWriteAfterGivingUp == [][safe /\ (timedOut \/ clientGone) => reached' = reached]_vars

\* The loop ends, even if the upstream takes the request and never answers: a detached unsafe
\* request too is bounded by its own timer.
LoopEnds == <>Ended
=============================================================================
