---------------------------- MODULE RetryPolicy ----------------------------
(***************************************************************************)
(* src/src/upstream/retry.js: may a failed attempt be repeated, and is the *)
(* outcome of the call known?  Pure operators, used by RetryLoop (one call *)
(* in detail) and by UnsafeCalls (many calls together).                    *)
(*                                                                         *)
(* An error is abstracted to what the policy looks at: whether its name is *)
(* AbortError or TimeoutError, which of the two code tables holds its code *)
(* (neither: "unlisted"), and whether its text names a connect failure.  A *)
(* status is "ok", "refused" (an error not worth a retry) or "retryable"   *)
(* (429, 502, 503, 504).                                                   *)
(***************************************************************************)
EXTENDS Integers

Errors == [aborted : BOOLEAN,
           code : {"connect", "sent", "unlisted"},
           text : BOOLEAN]

AbortError == [aborted |-> TRUE, code |-> "unlisted", text |-> FALSE]

Statuses == {"ok", "refused", "retryable"}

\* No Retry-After header, or one that does not parse.
NoWait == -1

\* A mistake: the baseline's view that an unrecognised failure is transient.
PhaseTrustsUnlisted(e) ==
  IF ~e.aborted /\ e.code # "sent" THEN "connect" ELSE "sent"

\* phaseOfError: only a listed code, or for an unlisted one the text, proves that the request
\* never left; everything else counts as sent.
PhaseOfError(e) ==
  IF /\ ~e.aborted
     /\ e.code = "connect" \/ (e.code = "unlisted" /\ e.text)
  THEN "connect"
  ELSE "sent"

\* decide(): what the policy allows, less what the attempts and the deadline still permit.
Decision(allowed, attempt, maxAttempts, remaining, unknown) ==
  [retry |-> allowed /\ attempt < maxAttempts /\ remaining > 0,
   outcomeUnknown |-> unknown]

\* A mistake: the sent phase of an unsafe request is not told apart from a refusal.
DecideOnErrorKnown(safe, attempt, maxAttempts, e, remaining) ==
  Decision(safe \/ PhaseOfError(e) = "connect", attempt, maxAttempts, remaining, FALSE)

\* decideRetry for an attempt that threw.
DecideOnError(safe, attempt, maxAttempts, e, remaining) ==
  Decision(safe \/ PhaseOfError(e) = "connect", attempt, maxAttempts, remaining,
           ~safe /\ PhaseOfError(e) = "sent")

\* decideRetry for an attempt that got a response.
DecideOnStatus(safe, attempt, maxAttempts, status, remaining) ==
  Decision(safe /\ status = "retryable", attempt, maxAttempts, remaining,
           ~safe /\ status = "retryable")

\* jitteredDelay: any value from nothing to the exponential ceiling.
JitteredDelays(attempt, baseDelay) ==
  0..((IF baseDelay < 1 THEN 1 ELSE baseDelay) * 2^(attempt - 1))

\* A mistake: the missing header is not told apart from a value.
DelaysUnchecked(attempt, baseDelay, retryAfter) == {retryAfter}

\* The wait before the next attempt: Retry-After as the server sent it, otherwise jitter.
Delays(attempt, baseDelay, retryAfter) ==
  IF retryAfter # NoWait THEN {retryAfter} ELSE JitteredDelays(attempt, baseDelay)
=============================================================================
