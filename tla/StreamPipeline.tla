--------------------------- MODULE StreamPipeline ---------------------------
(***************************************************************************)
(* streamWithBackpressure (src/src/upstream/stream.js): chunks of an       *)
(* upstream body go through a tap into the response, until the body ends,  *)
(* a deadline stops it, or something breaks.  One stream; SafeCalls says   *)
(* when it starts and what its handler does with the result.               *)
(*                                                                         *)
(* `arrived`, `tapped` and `received` count chunks, so what waits for the  *)
(* tap is arrived - tapped, and what waits for the client is               *)
(* tapped - received.  A pipeline that fails destroys its three streams in *)
(* the same turn of the event loop, so each failure is one step.           *)
(***************************************************************************)
EXTENDS Integers

CONSTANTS MaxChunks,  \* the bound on the chunks of the upstream
          Room,       \* how many chunks res takes before write() returns false
          Idle,       \* idleTimeoutMs
          Total,      \* totalTimeoutMs
          None

ASSUME StreamAssumption == /\ MaxChunks \in Nat /\ Idle \in Nat /\ Total \in Nat
                           /\ Room \in Nat \ {0}

VARIABLES now,       \* the clock, from the arrival of the request
          upstream,  \* the response body: "open", "ended", "dropped", or "cancelled" by the proxy
          arrived, tapped, received,
          srcEnded,  \* the source has ended, and pipeline() has called end() on the response
          res,       \* the ServerResponse: "none", "open", "ending", "finished" or "destroyed"
          idleDue, totalDue,           \* when the timers fire; None: not armed
          idleTimedOut, totalTimedOut,
          stopDue,   \* the setImmediate of stopSource is pending
          result     \* what streamWithBackpressure returned, None before

timerVars == <<idleDue, totalDue, idleTimedOut, totalTimedOut, stopDue>>
chunkVars == <<arrived, tapped, received>>
pipeVars == <<upstream, chunkVars, srcEnded, res, timerVars, result>>

Results == [ok : BOOLEAN, idleTimedOut : BOOLEAN, totalTimedOut : BOOLEAN, aborted : BOOLEAN]

ASSUME NoResult == None \notin Nat /\ None \notin Results

PipeTypeOK ==
  /\ now \in Nat
  /\ upstream \in {"open", "ended", "dropped", "cancelled"}
  /\ arrived \in Nat /\ tapped \in Nat /\ received \in Nat
  /\ srcEnded \in BOOLEAN
  /\ res \in {"none", "open", "ending", "finished", "destroyed"}
  /\ idleDue \in Nat \cup {None} /\ totalDue \in Nat \cup {None}
  /\ idleTimedOut \in BOOLEAN /\ totalTimedOut \in BOOLEAN /\ stopDue \in BOOLEAN
  /\ result \in Results \cup {None}

PipeInit ==
  /\ now = 0
  /\ upstream = "open"
  /\ arrived = 0 /\ tapped = 0 /\ received = 0
  /\ srcEnded = FALSE /\ res = "none"
  /\ idleDue = None /\ totalDue = None
  /\ idleTimedOut = FALSE /\ totalTimedOut = FALSE /\ stopDue = FALSE
  /\ result = None

\* Between the start of the pipeline and its result.
Piping == totalDue # None /\ result = None

-----------------------------------------------------------------------------
(* How a pipeline ends *)

\* The catch branch: a deadline that fired explains any error; otherwise the text of the error
\* tells an abort or a premature close from other failures.
Caught(looksAborted) ==
  [ok |-> FALSE,
   idleTimedOut |-> idleTimedOut,
   totalTimedOut |-> ~idleTimedOut /\ totalTimedOut,
   aborted |-> ~idleTimedOut /\ ~totalTimedOut /\ looksAborted]

\* A mistake: the failed pipeline leaves the source alone.
FailsSourceOpen(looksAborted, upstreamState, resState) ==
  /\ result' = Caught(looksAborted)
  /\ res' = resState
  /\ idleDue' = None
  /\ UNCHANGED <<now, upstream, chunkVars, srcEnded, totalDue, idleTimedOut, totalTimedOut, stopDue>>

\* pipeline() rejects: it has destroyed the source, which closes the upstream connection, and
\* a response that has not finished.  The finally block clears the timers.
Fails(looksAborted, upstreamState, resState) ==
  /\ result' = Caught(looksAborted)
  /\ upstream' = IF upstream = "open" THEN upstreamState ELSE upstream
  /\ res' = resState
  /\ idleDue' = None
  /\ UNCHANGED <<now, chunkVars, srcEnded, totalDue, idleTimedOut, totalTimedOut, stopDue>>

-----------------------------------------------------------------------------
(* The streams *)

\* The head of the response has been written; both timers are armed.
Open ==
  /\ res = "none"
  /\ res' = "open"
  /\ idleDue' = now + Idle /\ totalDue' = now + Total
  /\ UNCHANGED <<now, upstream, chunkVars, srcEnded, idleTimedOut, totalTimedOut, stopDue, result>>

ChunkArrives ==
  /\ Piping /\ upstream = "open" /\ arrived < MaxChunks
  /\ arrived' = arrived + 1
  /\ UNCHANGED <<now, upstream, tapped, received, srcEnded, res, timerVars, result>>

\* tap.transform re-arms the idle timer and passes the chunk on, unless the client is so slow
\* that the response is full.  After end() the write fails.
Tap ==
  /\ Piping /\ tapped < arrived
  /\ \/ /\ res = "open" /\ tapped - received < Room
        /\ tapped' = tapped + 1
        /\ idleDue' = now + Idle
        /\ UNCHANGED <<now, upstream, arrived, received, srcEnded, res, totalDue, idleTimedOut,
                       totalTimedOut, stopDue, result>>
     \/ res = "ending" /\ Fails(FALSE, "cancelled", "destroyed")

\* The body is read to its end: pipeline() ends the response.
SourceEnds ==
  /\ Piping /\ upstream = "ended" /\ tapped = arrived /\ ~srcEnded
  /\ srcEnded' = TRUE
  /\ res' = IF res = "open" THEN "ending" ELSE res
  /\ UNCHANGED <<now, upstream, chunkVars, timerVars, result>>

\* The client reads what the proxy wrote.
ClientReads ==
  /\ res \in {"open", "ending"} /\ received < tapped
  /\ received' = received + 1
  /\ UNCHANGED <<now, upstream, arrived, tapped, srcEnded, res, timerVars, result>>

\* The response is flushed.  If the source had not ended, its close is a premature one.
ResFinishes ==
  /\ Piping /\ res = "ending" /\ received = tapped
  /\ \/ /\ srcEnded
        /\ result' = [ok |-> TRUE, idleTimedOut |-> FALSE, totalTimedOut |-> FALSE,
                      aborted |-> FALSE]
        /\ res' = "finished" /\ idleDue' = None
        /\ UNCHANGED <<now, upstream, chunkVars, srcEnded, totalDue, idleTimedOut, totalTimedOut,
                       stopDue>>
     \/ ~srcEnded /\ Fails(TRUE, "cancelled", "finished")

\* The upstream ends its body, or its connection breaks ("terminated").
BodyEnds ==
  /\ upstream = "open"
  /\ upstream' = "ended"
  /\ UNCHANGED <<now, chunkVars, srcEnded, res, timerVars, result>>

\* A mistake: a broken body ends the response instead of destroying it.
BodyBreaksEnds == Piping /\ upstream = "open" /\ Fails(FALSE, "dropped", "finished")

BodyBreaks == Piping /\ upstream = "open" /\ Fails(FALSE, "dropped", "destroyed")

-----------------------------------------------------------------------------
(* The deadlines *)

\* stopSource: source.cancel() rejects, as the pipeline has locked the source, and that is
\* swallowed; what stops the stream is the end of the response, one turn later.
IdleFires ==
  /\ Piping /\ idleDue # None /\ now >= idleDue
  /\ idleDue' = None
  /\ idleTimedOut' = TRUE /\ stopDue' = TRUE
  /\ UNCHANGED <<now, upstream, chunkVars, srcEnded, res, totalDue, totalTimedOut, result>>

TotalFires ==
  /\ Piping /\ ~totalTimedOut /\ now >= totalDue
  /\ totalTimedOut' = TRUE /\ stopDue' = TRUE
  /\ UNCHANGED <<now, upstream, chunkVars, srcEnded, res, idleDue, totalDue, idleTimedOut, result>>

\* A mistake: the source is ended as if the upstream had ended it, and the pipeline resolves.
StopResponseResolves ==
  /\ stopDue
  /\ stopDue' = FALSE
  /\ res' = IF res = "open" THEN "ending" ELSE res
  /\ srcEnded' = TRUE
  /\ UNCHANGED <<now, upstream, chunkVars, idleDue, totalDue, idleTimedOut, totalTimedOut, result>>

StopResponse ==
  /\ stopDue
  /\ stopDue' = FALSE
  /\ res' = IF res = "open" THEN "ending" ELSE res
  /\ UNCHANGED <<now, upstream, chunkVars, srcEnded, idleDue, totalDue, idleTimedOut,
                 totalTimedOut, result>>

\* What happens between the streams; a client reads, or leaves (SafeCalls), in the end.
PipeNext ==
  \/ ChunkArrives \/ Tap \/ SourceEnds \/ ClientReads \/ ResFinishes \/ BodyBreaks
  \/ IdleFires \/ TotalFires \/ StopResponse
=============================================================================
