------------------------------ MODULE SafeCalls ------------------------------
(***************************************************************************)
(* routeRequest (src/index.js) for one safe call, from the moment it is    *)
(* classified: fetch, then stream or buffer, log, answer.  The retry loop  *)
(* is RetryLoop; here a fetch responds, fails, or is aborted.  Time is     *)
(* counted from the arrival of the request.                                *)
(***************************************************************************)
EXTENDS StreamPipeline

CONSTANTS Deadline,  \* REQUEST_TIMEOUT_MS, for a safe call also the delay of abortId
          MaxTime    \* the bound of the clock

ASSUME CallAssumption == Deadline \in Nat /\ MaxTime \in Nat

VARIABLES pc,        \* where the handler stands
          client,    \* "there" or "gone"
          clientDisconnected, timedOut,
          aborted,   \* the signal of controller
          sample,    \* what recordMetrics got, None before
          line,      \* the end of the summary line: a status or the mark of a cut stream
          reply      \* the answer to send once the log is written, None if there is none

handlerVars == <<pc, client, clientDisconnected, timedOut, aborted, sample, line, reply>>
vars == <<now, pipeVars, handlerVars>>

Places == {"fetching",   \* await performFetch()
           "streaming",  \* await streamWithBackpressure()
           "buffering",  \* await response.text()
           "logging",    \* await appendSummaryLog() and writeDetailedDebugLog()
           "done"}

Marks == {"none", "IDLE_TIMEOUT", "TOTAL_TIMEOUT", "CLIENT_ABORTED"}
Lines == [status : {200, 499, 502, 504}, mark : Marks]
Samples == [status : {200, 499, 502, 504}, isError : BOOLEAN]

ASSUME NoSample == None \notin Samples

TypeOK ==
  /\ PipeTypeOK
  /\ pc \in Places
  /\ client \in {"there", "gone"}
  /\ clientDisconnected \in BOOLEAN /\ timedOut \in BOOLEAN /\ aborted \in BOOLEAN
  /\ sample \in Samples \cup {None} /\ line \in Lines \cup {None}
  /\ reply \in {200, 502, 503, 504, None}

Init ==
  /\ PipeInit
  /\ pc = "fetching" /\ client = "there"
  /\ clientDisconnected = FALSE /\ timedOut = FALSE /\ aborted = FALSE
  /\ sample = None /\ line = None /\ reply = None

-----------------------------------------------------------------------------
(* The fetch and what follows it *)

\* Headers arrive.  The finally block clears timeoutId, and only that timer.
Streams ==
  /\ pc = "fetching" /\ ~aborted
  /\ pc' = "streaming"
  /\ Open
  /\ UNCHANGED <<client, clientDisconnected, timedOut, aborted, sample, line, reply>>

Buffers ==
  /\ pc = "fetching" /\ ~aborted
  /\ pc' = "buffering"
  /\ UNCHANGED <<now, pipeVars, client, clientDisconnected, timedOut, aborted, sample, line, reply>>

\* The limiter's wait is over: answered at once, and neither counted nor logged, also if the call
\* was aborted while it waited.
Saturated ==
  /\ pc = "fetching"
  /\ pc' = "done" /\ reply' = 503
  /\ res' = IF client = "there" THEN "finished" ELSE "destroyed"
  /\ upstream' = "cancelled"
  /\ UNCHANGED <<now, chunkVars, srcEnded, timerVars, result, client, clientDisconnected, timedOut,
                 aborted, sample, line>>

\* A mistake: a client that left is counted as an internal error of the proxy.
CatchAs500(timeout) ==
  LET gone == clientDisconnected /\ res \notin {"ending", "finished"}
  IN  /\ pc' = "logging"
      /\ sample' = [status |-> IF gone THEN 500 ELSE 502, isError |-> TRUE]
      /\ line' = [status |-> sample'.status, mark |-> "none"]
      /\ reply' = IF gone THEN None ELSE 502
      /\ UNCHANGED <<client, clientDisconnected, timedOut, aborted>>

\* The catch block up to its first await.
Catch(timeout) ==
  LET status == IF timeout THEN 504 ELSE 502
      gone == clientDisconnected /\ res \notin {"ending", "finished"}
  IN  /\ pc' = "logging"
      /\ sample' = IF gone THEN [status |-> 499, isError |-> FALSE]
                   ELSE [status |-> status, isError |-> TRUE]
      /\ line' = [status |-> sample'.status, mark |-> "none"]
      /\ reply' = IF gone THEN None ELSE status
      /\ UNCHANGED <<client, clientDisconnected, timedOut, aborted>>

\* An aborted signal rejects the fetch, or the read of a body that has not ended.
Aborts ==
  /\ aborted
  /\ pc = "fetching" \/ (pc = "buffering" /\ upstream = "open")
  /\ upstream' = "cancelled"
  /\ Catch(TRUE)
  /\ UNCHANGED <<now, chunkVars, srcEnded, res, timerVars, result>>

\* The connection fails, before the headers or in the body.
Breaks ==
  /\ pc \in {"fetching", "buffering"} /\ ~aborted /\ upstream = "open"
  /\ upstream' = "dropped"
  /\ Catch(FALSE)
  /\ UNCHANGED <<now, chunkVars, srcEnded, res, timerVars, result>>

\* response.text() resolves: count, log, then send.
Buffered ==
  /\ pc = "buffering" /\ upstream = "ended"
  /\ pc' = "logging" /\ reply' = 200
  /\ sample' = [status |-> 200, isError |-> FALSE]
  /\ line' = [status |-> 200, mark |-> "none"]
  /\ UNCHANGED <<now, pipeVars, client, clientDisconnected, timedOut, aborted>>

\* A mistake: the status alone decides, as for a buffered response.
StreamedByStatus ==
  /\ pc = "streaming" /\ result # None
  /\ pc' = "logging"
  /\ sample' = [status |-> 200, isError |-> FALSE]
  /\ line' = [status |-> 200, mark |-> "none"]
  /\ UNCHANGED <<now, pipeVars, client, clientDisconnected, timedOut, aborted, reply>>

\* The stream is over: count it, as an error unless it is whole, and log how it ended.
Streamed ==
  /\ pc = "streaming" /\ result # None
  /\ pc' = "logging"
  /\ sample' = [status |-> 200, isError |-> ~result.ok]
  /\ line' = [status |-> 200,
              mark |-> CASE result.idleTimedOut -> "IDLE_TIMEOUT"
                         [] result.totalTimedOut -> "TOTAL_TIMEOUT"
                         [] result.aborted -> "CLIENT_ABORTED"
                         [] OTHER -> "none"]
  /\ UNCHANGED <<now, pipeVars, client, clientDisconnected, timedOut, aborted, reply>>

\* The log is written; what is left to send is sent, if there is somebody to send it to.
Logged ==
  /\ pc = "logging"
  /\ pc' = "done"
  /\ res' = IF reply = None \/ res # "none" THEN res
            ELSE IF client = "there" THEN "finished" ELSE "destroyed"
  /\ UNCHANGED <<now, upstream, chunkVars, srcEnded, timerVars, result, client,
                 clientDisconnected, timedOut, aborted, sample, line, reply>>

-----------------------------------------------------------------------------
(* Timers and the client *)

Tick == now < MaxTime /\ now' = now + 1 /\ UNCHANGED <<pipeVars, handlerVars>>

\* timeoutId, which the end of the fetch clears.
ResponseTimer ==
  /\ pc = "fetching" /\ ~timedOut /\ now >= Deadline
  /\ timedOut' = TRUE /\ aborted' = TRUE
  /\ UNCHANGED <<now, pipeVars, pc, client, clientDisconnected, sample, line, reply>>

\* What an abort does to the body that is being streamed: a body that is still open breaks off;
\* one that has ended may have been read to its end already, and then nothing happens.
AbortsBody ==
  \/ Piping /\ ~srcEnded /\ Fails(TRUE, "cancelled", "destroyed")
  \/ ~(Piping /\ upstream = "open") /\ UNCHANGED <<now, pipeVars>>

\* A mistake: both timers are cleared when the headers arrive.
AbortTimerCleared ==
  /\ pc = "fetching" /\ ~aborted /\ now >= Deadline
  /\ aborted' = TRUE
  /\ AbortsBody
  /\ UNCHANGED <<pc, client, clientDisconnected, timedOut, sample, line, reply>>

\* abortId, which nothing clears: it fires during the body as well.
AbortTimer ==
  /\ pc # "done" /\ ~aborted /\ now >= Deadline
  /\ aborted' = TRUE
  /\ AbortsBody
  /\ UNCHANGED <<pc, client, clientDisconnected, timedOut, sample, line, reply>>

\* onClientClose aborts a fetch in flight, and during a stream onStreamClientClose aborts the
\* pipeline.
ClientLeaves ==
  /\ client = "there" /\ res \notin {"finished", "destroyed"}
  /\ client' = "gone"
  /\ clientDisconnected' = (clientDisconnected \/ res # "ending")
  /\ aborted' = (aborted \/ pc = "fetching")
  /\ \/ Piping /\ Fails(TRUE, "cancelled", "destroyed")
     \/ ~Piping /\ UNCHANGED <<now, pipeVars>>
  /\ UNCHANGED <<pc, timedOut, sample, line, reply>>

-----------------------------------------------------------------------------

Handler == Aborts \/ Buffered \/ Streamed \/ Logged

Next ==
  \/ Streams \/ Buffers \/ Saturated \/ Breaks \/ Handler
  \/ PipeNext /\ UNCHANGED handlerVars
  \/ pc \in {"streaming", "buffering"} /\ BodyEnds /\ UNCHANGED handlerVars
  \/ Tick \/ ResponseTimer \/ AbortTimer \/ ClientLeaves

\* Time passes, timers and callbacks run, and a client that stays reads.  Nothing is assumed of
\* the upstream.
Fairness ==
  /\ WF_vars(Handler) /\ WF_vars(Tick) /\ WF_vars(ResponseTimer) /\ WF_vars(AbortTimer)
  /\ WF_vars(IdleFires /\ UNCHANGED handlerVars) /\ WF_vars(TotalFires /\ UNCHANGED handlerVars)
  /\ WF_vars(StopResponse /\ UNCHANGED handlerVars)
  /\ WF_vars(Tap /\ UNCHANGED handlerVars) /\ WF_vars(SourceEnds /\ UNCHANGED handlerVars)
  /\ WF_vars(ResFinishes /\ UNCHANGED handlerVars)
  /\ WF_vars(ClientReads /\ UNCHANGED handlerVars)

Spec == Init /\ [][Next]_vars /\ Fairness

-----------------------------------------------------------------------------
(* Properties *)

Whole == upstream = "ended" /\ received = arrived /\ res = "finished"

\* A stream that the metrics do not count as an error reached the client from its first chunk to
\* the end the upstream gave it, whichever deadline, abort or disconnect was on its way ("A
\* truncated stream is an error for the client: it must not look like a clean end", routeRequest).
TruncationIsReported ==
  result # None /\ sample # None /\ ~sample.isError => Whole

\* On the wire only a stream deadline makes a truncated stream end as if it were whole, which ADR
\* 0004 decides and the comment in routeRequest ("must not look like a clean end") leaves out;
\* whatever else cuts it destroys the connection, so that the client sees it.
CleanEndIsWhole ==
  result # None /\ res = "finished" => Whole \/ idleTimedOut \/ totalTimedOut

\* When the handler is through, no upstream connection is left open: not after a deadline, a
\* disconnect, a timeout or a failed write (finding S1).
UpstreamIsReleased == pc = "done" => upstream # "open"

\* Every safe call ends, also when the upstream falls silent in a body, as long as its client
\* reads what it is sent or leaves.
CallEnds == <>(pc = "done")

\* Once headers have arrived, the header deadline has no say: a stream that the proxy breaks off
\* without a stream deadline is one whose client left ("A slow-but-alive stream must not be
\* killed by (1)", stream.js).
HeaderDeadlineSparesStreams == result # None /\ result.aborted => client = "gone"
=============================================================================
