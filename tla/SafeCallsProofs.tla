--------------------------- MODULE SafeCallsProofs ---------------------------
(***************************************************************************)
(* A truncated stream is never taken for a whole one, and no upstream      *)
(* connection outlives its call, for any number of chunks and any timing.  *)
(*                                                                         *)
(* The invariant follows a stream through its life: before it starts,      *)
(* while it is piped, and when its result is known.  Its centre is         *)
(* EndIsEarned: the response of a running pipeline is ended either because *)
(* the body was read to its end or because a deadline has fired.           *)
(***************************************************************************)
EXTENDS SafeCalls, TLAPS

Typed == /\ now \in Nat /\ arrived \in Nat /\ tapped \in Nat /\ received \in Nat
         /\ idleTimedOut \in BOOLEAN /\ totalTimedOut \in BOOLEAN /\ pc \in Places

NotStarted ==
  totalDue = None =>
    /\ result = None /\ ~srcEnded /\ ~stopDue
    /\ pc # "streaming" /\ (res = "none" \/ pc = "done")

Started ==
  totalDue # None =>
    /\ res # "none" /\ pc \notin {"fetching", "buffering"}
    /\ pc \in {"logging", "done"} => result # None

ReadToTheEnd == srcEnded => upstream = "ended" /\ tapped = arrived

EndIsEarned ==
  /\ stopDue => idleTimedOut \/ totalTimedOut
  /\ result = None /\ totalDue # None /\ res = "ending" /\ ~srcEnded => idleTimedOut \/ totalTimedOut

ResultIsFinal ==
  result # None =>
    /\ res \in {"finished", "destroyed"} /\ upstream # "open"
    /\ result.ok => Whole
    /\ res = "finished" => Whole \/ idleTimedOut \/ totalTimedOut

SampleIsOfResult ==
  /\ pc \in {"fetching", "streaming", "buffering"} => sample = None
  /\ result # None /\ sample # None => (~sample.isError => result.ok)

Released == pc \in {"logging", "done"} => upstream # "open"

StreamInv ==
  /\ Typed /\ NotStarted /\ Started /\ ReadToTheEnd /\ EndIsEarned
  /\ ResultIsFinal /\ SampleIsOfResult /\ Released

LEMMA InitStreamInv == Init => StreamInv
<1> SUFFICES ASSUME Init PROVE StreamInv
  OBVIOUS
<1>1. idleTimedOut \in BOOLEAN /\ totalTimedOut \in BOOLEAN
  BY Zenon DEF Init, PipeInit
<1>2. Typed
  BY <1>1, SMT DEF Init, PipeInit, Typed, Places
<1>3. NotStarted /\ Started /\ ReadToTheEnd /\ EndIsEarned
  BY DEF Init, PipeInit, NotStarted, Started, ReadToTheEnd, EndIsEarned
<1>4. ResultIsFinal /\ SampleIsOfResult /\ Released
  BY DEF Init, PipeInit, ResultIsFinal, SampleIsOfResult, Released
<1> QED
  BY <1>2, <1>3, <1>4 DEF StreamInv

\* A pipeline that fails has a result that is not ok.
LEMMA FailureIsKnown ==
  ASSUME NEW looksAborted \in BOOLEAN, idleTimedOut \in BOOLEAN, totalTimedOut \in BOOLEAN
  PROVE  Caught(looksAborted) # None /\ ~Caught(looksAborted).ok
<1>1. Caught(looksAborted) \in Results
  BY Zenon DEF Caught, Results
<1> QED
  BY <1>1, NoResult DEF Caught

-----------------------------------------------------------------------------
(* The steps of the pipeline *)

LEMMA FailureStep ==
  ASSUME StreamInv, Piping, UNCHANGED <<pc, sample>>,
         NEW looksAborted \in BOOLEAN, NEW upstreamState, NEW resState,
         Fails(looksAborted, upstreamState, resState),
         upstreamState # "open",
         \/ resState = "destroyed"
         \/ resState = "finished" /\ (idleTimedOut \/ totalTimedOut)
  PROVE  StreamInv'
<1> DEFINE r == Caught(looksAborted)
<1>1. r # None /\ ~r.ok
  BY FailureIsKnown DEF StreamInv, Typed
<1>2. /\ result' = r /\ upstream' = (IF upstream = "open" THEN upstreamState ELSE upstream)
      /\ res' = resState
      /\ UNCHANGED <<now, arrived, tapped, received, srcEnded, totalDue, idleTimedOut,
                     totalTimedOut, stopDue, pc, sample>>
  BY DEF Fails, chunkVars
<1> HIDE DEF r
<1>3. totalDue # None /\ result = None  BY DEF Piping
<1> USE DEF StreamInv
<1>4. Typed' /\ NotStarted' /\ ReadToTheEnd'
  BY <1>2, <1>3 DEF Typed, NotStarted, ReadToTheEnd
<1>5. Started'
  BY <1>1, <1>2, <1>3 DEF Started
<1>6. EndIsEarned'
  BY <1>1, <1>2, <1>3 DEF EndIsEarned
<1>7. ResultIsFinal'
  BY <1>1, <1>2, <1>3 DEF ResultIsFinal
<1>8. pc \in {"streaming"}
  BY <1>3 DEF Started, Typed, Places
<1>9. SampleIsOfResult' /\ Released'
  BY <1>2, <1>8 DEF SampleIsOfResult, Released
<1> QED
  BY <1>4, <1>5, <1>6, <1>7, <1>9

LEMMA PipeStep ==
  ASSUME StreamInv, PipeNext, UNCHANGED handlerVars
  PROVE  StreamInv'
<1>0. UNCHANGED <<pc, sample>>
  BY DEF handlerVars
<1> USE <1>0 DEF timerVars, chunkVars
<1>1. CASE ChunkArrives
  <2> USE <1>1 DEF ChunkArrives, Piping, StreamInv
  <2>1. Typed' /\ NotStarted' /\ Started'
    BY DEF Typed, NotStarted, Started
  <2>2. ReadToTheEnd' /\ EndIsEarned' /\ ResultIsFinal'
    BY DEF ReadToTheEnd, EndIsEarned, ResultIsFinal
  <2>3. SampleIsOfResult' /\ Released'
    BY DEF SampleIsOfResult, Released
  <2> QED  BY <2>1, <2>2, <2>3
<1>2. CASE Tap
  <2>1. CASE /\ res = "open" /\ tapped' = tapped + 1
             /\ UNCHANGED <<now, upstream, arrived, received, srcEnded, res, totalDue,
                            idleTimedOut, totalTimedOut, stopDue, result>>
    <3> USE <2>1, <1>2 DEF Tap, Piping, StreamInv
    <3>1. Typed' /\ NotStarted' /\ Started'
      BY DEF Typed, NotStarted, Started
    <3>2. ReadToTheEnd' /\ EndIsEarned' /\ ResultIsFinal'
      BY DEF ReadToTheEnd, EndIsEarned, ResultIsFinal, Typed
    <3>3. SampleIsOfResult' /\ Released'
      BY DEF SampleIsOfResult, Released
    <3> QED  BY <3>1, <3>2, <3>3
  <2>2. CASE Fails(FALSE, "cancelled", "destroyed")
    BY <1>2, <2>2, FailureStep DEF Tap
  <2> QED  BY <1>2, <2>1, <2>2 DEF Tap
<1>3. CASE SourceEnds
  <2> USE <1>3 DEF SourceEnds, Piping, StreamInv
  <2>1. Typed' /\ NotStarted' /\ Started'
    BY DEF Typed, NotStarted, Started
  <2>2. ReadToTheEnd' /\ EndIsEarned' /\ ResultIsFinal'
    BY DEF ReadToTheEnd, EndIsEarned, ResultIsFinal
  <2>3. SampleIsOfResult' /\ Released'
    BY DEF SampleIsOfResult, Released
  <2> QED  BY <2>1, <2>2, <2>3
<1>4. CASE ClientReads
  <2> USE <1>4 DEF ClientReads, StreamInv
  <2>1. Typed' /\ NotStarted' /\ Started'
    BY DEF Typed, NotStarted, Started
  <2>2. ReadToTheEnd' /\ EndIsEarned' /\ ResultIsFinal'
    BY DEF ReadToTheEnd, EndIsEarned, ResultIsFinal
  <2>3. SampleIsOfResult' /\ Released'
    BY DEF SampleIsOfResult, Released
  <2> QED  BY <2>1, <2>2, <2>3
<1>5. CASE ResFinishes
  <2>1. CASE srcEnded
    <3> USE <1>5, <2>1 DEF ResFinishes, Piping, StreamInv
    <3>1. /\ result' = [ok |-> TRUE, idleTimedOut |-> FALSE, totalTimedOut |-> FALSE, aborted |-> FALSE]
          /\ res' = "finished"
          /\ UNCHANGED <<now, upstream, arrived, tapped, received, srcEnded, totalDue,
                         idleTimedOut, totalTimedOut, stopDue>>
      OBVIOUS
    <3>2. Whole'
      BY <3>1 DEF Whole, ReadToTheEnd
    <3>3. Typed' /\ NotStarted'
      BY <3>1 DEF Typed, NotStarted
    <3>4. result' # None
      <4>1. [ok |-> TRUE, idleTimedOut |-> FALSE, totalTimedOut |-> FALSE, aborted |-> FALSE] \in Results
        BY Zenon DEF Results
      <4> QED
        BY <3>1, <4>1, NoResult
    <3>5. Started' /\ ReadToTheEnd' /\ EndIsEarned'
      BY <3>1, <3>4 DEF Started, ReadToTheEnd, EndIsEarned
    <3>6. ResultIsFinal'
      BY <3>1, <3>2 DEF ResultIsFinal, ReadToTheEnd
    <3>7. SampleIsOfResult' /\ Released'
      BY <3>1 DEF SampleIsOfResult, Released
    <3> QED  BY <3>3, <3>5, <3>6, <3>7
  <2>2. CASE ~srcEnded
    <3>1. Fails(TRUE, "cancelled", "finished") /\ Piping
      BY <1>5, <2>2 DEF ResFinishes
    <3>2. idleTimedOut \/ totalTimedOut
      BY <1>5, <2>2 DEF ResFinishes, Piping, StreamInv, EndIsEarned
    <3> QED  BY <3>1, <3>2, FailureStep
  <2> QED  BY <2>1, <2>2
<1>6. CASE BodyBreaks
  BY <1>6, FailureStep DEF BodyBreaks
<1>7. CASE IdleFires \/ TotalFires
  <2> USE <1>7 DEF IdleFires, TotalFires, Piping, StreamInv
  <2>1. Typed' /\ NotStarted' /\ Started'
    BY DEF Typed, NotStarted, Started
  <2>2. ReadToTheEnd' /\ EndIsEarned' /\ ResultIsFinal'
    BY DEF ReadToTheEnd, EndIsEarned, ResultIsFinal
  <2>3. SampleIsOfResult' /\ Released'
    BY DEF SampleIsOfResult, Released
  <2> QED  BY <2>1, <2>2, <2>3
<1>8. CASE StopResponse
  <2> USE <1>8 DEF StopResponse, StreamInv
  <2>1. Typed' /\ NotStarted' /\ Started'
    BY DEF Typed, NotStarted, Started
  <2>2. ReadToTheEnd' /\ EndIsEarned' /\ ResultIsFinal'
    BY DEF ReadToTheEnd, EndIsEarned, ResultIsFinal, Whole
  <2>3. SampleIsOfResult' /\ Released'
    BY DEF SampleIsOfResult, Released
  <2> QED  BY <2>1, <2>2, <2>3
<1> QED
  BY <1>1, <1>2, <1>3, <1>4, <1>5, <1>6, <1>7, <1>8 DEF PipeNext

-----------------------------------------------------------------------------
(* The steps of the handler *)

LEMMA StartStep ==
  ASSUME StreamInv, Streams \/ Buffers \/ Saturated
  PROVE  StreamInv'
<1> USE DEF StreamInv, pipeVars, timerVars, chunkVars
<1>1. CASE Streams
  <2>1. now + Total \in Nat /\ totalDue' = now + Total
    BY <1>1, StreamAssumption DEF Streams, Open, Typed
  <2>2. totalDue' # None
    BY <2>1, NoResult
  <2>3. totalDue = None /\ result = None
    BY <1>1 DEF Streams, Started, NotStarted
  <2> USE <1>1, <2>2, <2>3 DEF Streams, Open
  <2>4. Typed' /\ NotStarted' /\ Started'
    BY DEF Typed, Places, NotStarted, Started
  <2>5. ReadToTheEnd' /\ EndIsEarned' /\ ResultIsFinal'
    BY DEF ReadToTheEnd, EndIsEarned, ResultIsFinal
  <2>6. SampleIsOfResult' /\ Released'
    BY DEF SampleIsOfResult, Released
  <2> QED  BY <2>4, <2>5, <2>6
<1>2. CASE Buffers
  <2> USE <1>2 DEF Buffers
  <2>1. Typed' /\ NotStarted' /\ Started'
    BY DEF Typed, Places, NotStarted, Started
  <2>2. ReadToTheEnd' /\ EndIsEarned' /\ ResultIsFinal'
    BY DEF ReadToTheEnd, EndIsEarned, ResultIsFinal, Whole
  <2>3. SampleIsOfResult' /\ Released'
    BY DEF SampleIsOfResult, Released
  <2> QED  BY <2>1, <2>2, <2>3
<1>3. CASE Saturated
  <2>1. totalDue = None /\ result = None /\ ~srcEnded /\ ~stopDue
    BY <1>3 DEF Saturated, Started, NotStarted
  <2> USE <1>3, <2>1 DEF Saturated
  <2>2. Typed' /\ NotStarted' /\ Started'
    BY DEF Typed, Places, NotStarted, Started
  <2>3. ReadToTheEnd' /\ EndIsEarned' /\ ResultIsFinal'
    BY DEF ReadToTheEnd, EndIsEarned, ResultIsFinal
  <2>4. SampleIsOfResult' /\ Released'
    BY DEF SampleIsOfResult, Released
  <2> QED  BY <2>2, <2>3, <2>4
<1> QED
  BY <1>1, <1>2, <1>3

LEMMA CatchStep ==
  ASSUME StreamInv, Aborts \/ Breaks
  PROVE  StreamInv'
<1>1. /\ totalDue = None /\ result = None /\ ~srcEnded /\ ~stopDue /\ res = "none"
  BY DEF Aborts, Breaks, StreamInv, Started, NotStarted
<1>2. /\ pc' = "logging" /\ upstream' # "open"
      /\ UNCHANGED <<now, arrived, tapped, received, srcEnded, res, idleDue, totalDue, idleTimedOut,
                     totalTimedOut, stopDue, result>>
  BY DEF Aborts, Breaks, Catch, chunkVars, timerVars
<1> USE <1>1, <1>2 DEF StreamInv
<1>3. Typed' /\ NotStarted' /\ Started'
  BY DEF Typed, Places, NotStarted, Started
<1>4. ReadToTheEnd' /\ EndIsEarned' /\ ResultIsFinal'
  BY DEF ReadToTheEnd, EndIsEarned, ResultIsFinal
<1>5. SampleIsOfResult' /\ Released'
  BY DEF SampleIsOfResult, Released
<1> QED
  BY <1>3, <1>4, <1>5

LEMMA EndStep ==
  ASSUME StreamInv, Buffered \/ Streamed \/ Logged
  PROVE  StreamInv'
<1> USE DEF StreamInv, pipeVars, timerVars, chunkVars
<1>1. CASE Buffered
  <2> USE <1>1 DEF Buffered
  <2>1. Typed' /\ NotStarted' /\ Started'
    BY DEF Typed, Places, NotStarted, Started
  <2>2. ReadToTheEnd' /\ EndIsEarned' /\ ResultIsFinal'
    BY DEF ReadToTheEnd, EndIsEarned, ResultIsFinal, Whole
  <2>3. totalDue = None /\ result = None
    BY DEF Started, NotStarted
  <2>4. SampleIsOfResult' /\ Released'
    BY <2>3 DEF SampleIsOfResult, Released
  <2> QED  BY <2>1, <2>2, <2>4
<1>2. CASE Streamed
  <2>1. /\ pc = "streaming" /\ pc' = "logging" /\ result # None
        /\ sample'.isError = ~result.ok
        /\ UNCHANGED <<now, upstream, arrived, tapped, received, srcEnded, res, totalDue,
                       idleTimedOut, totalTimedOut, stopDue, result>>
    BY <1>2 DEF Streamed
  <2>2. Typed' /\ NotStarted' /\ Started'
    BY <2>1 DEF Typed, Places, NotStarted, Started
  <2>3. ReadToTheEnd' /\ EndIsEarned' /\ ResultIsFinal'
    BY <2>1 DEF ReadToTheEnd, EndIsEarned, ResultIsFinal, Whole
  <2>4. SampleIsOfResult' /\ Released'
    BY <2>1 DEF SampleIsOfResult, Released, ResultIsFinal
  <2> QED  BY <2>2, <2>3, <2>4
<1>3. CASE Logged
  <2>1. /\ pc = "logging" /\ pc' = "done" /\ (res # "none" => res' = res)
        /\ UNCHANGED <<now, upstream, arrived, tapped, received, srcEnded, totalDue, idleTimedOut,
                       totalTimedOut, stopDue, result, sample>>
    BY <1>3 DEF Logged
  <2>2. totalDue # None => res' = res
    BY <2>1 DEF Started
  <2>3. result # None => res' = res
    BY <2>2 DEF NotStarted
  <2>4. Typed' /\ NotStarted' /\ Started'
    BY <2>1, <2>2 DEF Typed, Places, NotStarted, Started
  <2>5. ReadToTheEnd' /\ EndIsEarned'
    BY <2>1, <2>2 DEF ReadToTheEnd, EndIsEarned
  <2>6. ResultIsFinal'
    BY <2>1, <2>3 DEF ResultIsFinal, Whole
  <2>7. SampleIsOfResult' /\ Released'
    BY <2>1 DEF SampleIsOfResult, Released
  <2> QED  BY <2>4, <2>5, <2>6, <2>7
<1> QED
  BY <1>1, <1>2, <1>3

LEMMA BodyStep ==
  ASSUME StreamInv, BodyEnds, UNCHANGED handlerVars
  PROVE  StreamInv'
<1> USE DEF StreamInv, BodyEnds, timerVars, chunkVars, handlerVars
<1>1. Typed' /\ NotStarted' /\ Started'
  BY DEF Typed, NotStarted, Started
<1>2. ReadToTheEnd' /\ EndIsEarned' /\ ResultIsFinal'
  BY DEF ReadToTheEnd, EndIsEarned, ResultIsFinal
<1>3. SampleIsOfResult' /\ Released'
  BY DEF SampleIsOfResult, Released
<1> QED
  BY <1>1, <1>2, <1>3

\* A step that leaves the streams and the place of the handler alone.
LEMMA QuietStep ==
  ASSUME StreamInv, UNCHANGED <<pipeVars, pc, sample>>, now' \in Nat
  PROVE  StreamInv'
<1> USE DEF StreamInv, pipeVars, timerVars, chunkVars
<1>1. Typed' /\ NotStarted' /\ Started'
  BY DEF Typed, NotStarted, Started
<1>2. ReadToTheEnd' /\ EndIsEarned' /\ ResultIsFinal'
  BY DEF ReadToTheEnd, EndIsEarned, ResultIsFinal, Whole
<1>3. SampleIsOfResult' /\ Released'
  BY DEF SampleIsOfResult, Released
<1> QED
  BY <1>1, <1>2, <1>3

LEMMA TimerStep ==
  ASSUME StreamInv, Tick \/ ResponseTimer \/ AbortTimer \/ ClientLeaves
  PROVE  StreamInv'
<1> now \in Nat
  BY DEF StreamInv, Typed
<1>1. CASE Tick
  BY <1>1, QuietStep DEF Tick, handlerVars
<1>2. CASE ResponseTimer
  BY <1>2, QuietStep DEF ResponseTimer
<1>3. CASE AbortTimer
  <2>1. UNCHANGED <<pc, sample>>
    BY <1>3 DEF AbortTimer
  <2>2. CASE Piping /\ Fails(TRUE, "cancelled", "destroyed")
    BY <2>1, <2>2, FailureStep
  <2>3. CASE UNCHANGED <<now, pipeVars>>
    BY <2>1, <2>3, QuietStep
  <2> QED
    BY <1>3, <2>2, <2>3 DEF AbortTimer, AbortsBody
<1>4. CASE ClientLeaves
  <2>1. UNCHANGED <<pc, sample>>
    BY <1>4 DEF ClientLeaves
  <2>2. CASE Piping /\ Fails(TRUE, "cancelled", "destroyed")
    BY <2>1, <2>2, FailureStep
  <2>3. CASE UNCHANGED <<now, pipeVars>>
    BY <2>1, <2>3, QuietStep
  <2> QED
    BY <1>4, <2>2, <2>3 DEF ClientLeaves
<1> QED
  BY <1>1, <1>2, <1>3, <1>4

LEMMA StreamInvStep == StreamInv /\ [Next]_vars => StreamInv'
<1> SUFFICES ASSUME StreamInv, [Next]_vars PROVE StreamInv'
  OBVIOUS
<1>1. CASE Streams \/ Buffers \/ Saturated
  BY <1>1, StartStep
<1>2. CASE Aborts \/ Breaks
  BY <1>2, CatchStep
<1>3. CASE Buffered \/ Streamed \/ Logged
  BY <1>3, EndStep
<1>4. CASE PipeNext /\ UNCHANGED handlerVars
  BY <1>4, PipeStep
<1>5. CASE BodyEnds /\ UNCHANGED handlerVars
  BY <1>5, BodyStep
<1>6. CASE Tick \/ ResponseTimer \/ AbortTimer \/ ClientLeaves
  BY <1>6, TimerStep
<1>7. CASE UNCHANGED vars
  <2>1. UNCHANGED <<pipeVars, pc, sample>> /\ now' = now
    BY <1>7 DEF vars, handlerVars
  <2> QED
    BY <2>1, QuietStep DEF StreamInv, Typed
<1> QED
  BY <1>1, <1>2, <1>3, <1>4, <1>5, <1>6, <1>7 DEF Next, Handler

LEMMA StreamInvHolds == Spec => []StreamInv
BY InitStreamInv, StreamInvStep, PTL DEF Spec

-----------------------------------------------------------------------------

\* What recordMetrics does not count as an error reached the client as a whole, from its first
\* chunk to the end that the upstream gave it.
THEOREM TruncationsAreReported == Spec => []TruncationIsReported
<1>1. StreamInv => TruncationIsReported
  BY DEF StreamInv, SampleIsOfResult, ResultIsFinal, TruncationIsReported
<1> QED
  BY <1>1, StreamInvHolds, PTL

\* Only a deadline ends a truncated stream as if it were whole; everything else destroys it.
THEOREM CleanEndsAreWhole == Spec => []CleanEndIsWhole
<1>1. StreamInv => CleanEndIsWhole
  BY DEF StreamInv, ResultIsFinal, CleanEndIsWhole
<1> QED
  BY <1>1, StreamInvHolds, PTL

\* A handler that is through has left no upstream connection open.
THEOREM UpstreamsAreReleased == Spec => []UpstreamIsReleased
<1>1. StreamInv => UpstreamIsReleased
  BY DEF StreamInv, Released, UpstreamIsReleased
<1> QED
  BY <1>1, StreamInvHolds, PTL

-----------------------------------------------------------------------------
(* The types *)

Numbers == /\ now \in Nat /\ arrived \in Nat /\ tapped \in Nat /\ received \in Nat
           /\ idleDue \in Nat \cup {None} /\ totalDue \in Nat \cup {None}

States == /\ upstream \in {"open", "ended", "dropped", "cancelled"}
          /\ res \in {"none", "open", "ending", "finished", "destroyed"}
          /\ pc \in Places /\ client \in {"there", "gone"}

Flags == /\ srcEnded \in BOOLEAN /\ idleTimedOut \in BOOLEAN /\ totalTimedOut \in BOOLEAN
         /\ stopDue \in BOOLEAN
         /\ clientDisconnected \in BOOLEAN /\ timedOut \in BOOLEAN /\ aborted \in BOOLEAN

Outcomes == /\ result \in Results \cup {None}
            /\ sample \in Samples \cup {None} /\ line \in Lines \cup {None}
            /\ reply \in {200, 502, 503, 504, None}

LEMMA TypesAre ==
  /\ TypeOK <=> Numbers /\ States /\ Flags /\ Outcomes
  /\ TypeOK' <=> Numbers' /\ States' /\ Flags' /\ Outcomes'
BY Zenon DEF TypeOK, PipeTypeOK, Numbers, States, Flags, Outcomes

LEMMA ResultIs ==
  ASSUME NEW ok \in BOOLEAN, NEW idle \in BOOLEAN, NEW total \in BOOLEAN, NEW gone \in BOOLEAN
  PROVE  [ok |-> ok, idleTimedOut |-> idle, totalTimedOut |-> total, aborted |-> gone] \in Results
BY DEF Results

LEMMA SampleIs ==
  ASSUME NEW status \in {200, 499, 502, 504}, NEW isError \in BOOLEAN, NEW mark \in Marks
  PROVE  /\ [status |-> status, isError |-> isError] \in Samples
         /\ [status |-> status, mark |-> mark] \in Lines
BY DEF Samples, Lines

LEMMA CaughtIs ==
  ASSUME Flags, NEW looksAborted \in BOOLEAN
  PROVE  Caught(looksAborted) \in Results
<1> DEFINE total == ~idleTimedOut /\ totalTimedOut
           gone == ~idleTimedOut /\ ~totalTimedOut /\ looksAborted
<1>1. FALSE \in BOOLEAN /\ idleTimedOut \in BOOLEAN /\ total \in BOOLEAN /\ gone \in BOOLEAN
      BY Zenon DEF Flags
<1>2. Caught(looksAborted) = [ok |-> FALSE, idleTimedOut |-> idleTimedOut,
                              totalTimedOut |-> total, aborted |-> gone]
      BY Zenon DEF Caught
<1> HIDE DEF total, gone
<1> QED  BY <1>1, <1>2, ResultIs

\* A pipeline that fails keeps the types, if the handler does.
LEMMA FailsTypes ==
  ASSUME TypeOK, NEW looksAborted \in BOOLEAN,
         NEW up \in {"cancelled", "dropped"}, NEW end \in {"finished", "destroyed"},
         Fails(looksAborted, up, end)
  PROVE  /\ now' \in Nat /\ arrived' \in Nat /\ tapped' \in Nat /\ received' \in Nat
         /\ idleDue' \in Nat \cup {None} /\ totalDue' \in Nat \cup {None}
         /\ upstream' \in {"open", "ended", "dropped", "cancelled"}
         /\ res' \in {"none", "open", "ending", "finished", "destroyed"}
         /\ srcEnded' \in BOOLEAN /\ idleTimedOut' \in BOOLEAN /\ totalTimedOut' \in BOOLEAN
         /\ stopDue' \in BOOLEAN /\ result' \in Results
<1>1. Numbers /\ States /\ Flags
      BY TypesAre
<1>2. result' \in Results
      BY <1>1, CaughtIs DEF Fails
<1>3. srcEnded' \in BOOLEAN /\ idleTimedOut' \in BOOLEAN /\ totalTimedOut' \in BOOLEAN /\ stopDue' \in BOOLEAN
      BY <1>1, Zenon DEF Fails, Flags
<1>4. /\ now' \in Nat /\ arrived' \in Nat /\ tapped' \in Nat /\ received' \in Nat
      /\ idleDue' \in Nat \cup {None} /\ totalDue' \in Nat \cup {None}
      BY <1>1 DEF Fails, Numbers, chunkVars
<1>5. /\ upstream' \in {"open", "ended", "dropped", "cancelled"}
      /\ res' \in {"none", "open", "ending", "finished", "destroyed"}
      BY <1>1 DEF Fails, States
<1> QED  BY <1>2, <1>3, <1>4, <1>5

\* What the streams keep when the handler stands still, and the other way round.
LEMMA PipeTypes ==
  ASSUME TypeOK, PipeNext \/ BodyEnds, UNCHANGED handlerVars
  PROVE  TypeOK'
<1> USE DEF handlerVars
<1>0. Numbers /\ States /\ Flags /\ Outcomes
      BY TypesAre
<1>a. TRUE \in BOOLEAN /\ FALSE \in BOOLEAN
      OBVIOUS
<1>1. ASSUME NEW looksAborted \in BOOLEAN, NEW up \in {"cancelled", "dropped"},
             NEW end \in {"finished", "destroyed"}, Fails(looksAborted, up, end)
      PROVE  TypeOK'
  <2>1. Numbers' /\ States'
        BY <1>0, <1>1, FailsTypes DEF Numbers, States
  <2>2. Flags'
        BY <1>0, <1>1, FailsTypes, Zenon DEF Flags
  <2>3. Outcomes'
        BY <1>0, <1>1, FailsTypes DEF Outcomes
  <2> QED  BY <2>1, <2>2, <2>3, TypesAre
<1>2. CASE /\ ChunkArrives \/ ClientReads \/ BodyEnds \/ SourceEnds \/ IdleFires \/ TotalFires \/ StopResponse
  <2>1. Numbers'
        BY <1>0, <1>2 DEF ChunkArrives, ClientReads, BodyEnds, SourceEnds, IdleFires, TotalFires,
                          StopResponse, Numbers, chunkVars, timerVars
  <2>2. States'
        BY <1>0, <1>2 DEF ChunkArrives, ClientReads, BodyEnds, SourceEnds, IdleFires, TotalFires,
                          StopResponse, States
  <2>3. Flags'
        BY <1>0, <1>2, Zenon DEF ChunkArrives, ClientReads, BodyEnds, SourceEnds, IdleFires, TotalFires,
                          StopResponse, Flags, timerVars
  <2>4. Outcomes'
        BY <1>0, <1>2 DEF ChunkArrives, ClientReads, BodyEnds, SourceEnds, IdleFires, TotalFires,
                          StopResponse, Outcomes
  <2> QED  BY <2>1, <2>2, <2>3, <2>4, TypesAre
<1>3. CASE Tap
  <2>1. CASE /\ tapped' = tapped + 1 /\ idleDue' = now + Idle
             /\ UNCHANGED <<now, upstream, arrived, received, srcEnded, res, totalDue, idleTimedOut,
                            totalTimedOut, stopDue, result>>
    <3>1. Numbers' /\ States' /\ Outcomes'
          BY <1>0, <2>1, StreamAssumption DEF Numbers, States, Outcomes
    <3>2. Flags'
          BY <1>0, <2>1, Zenon DEF Flags
    <3> QED  BY <3>1, <3>2, TypesAre
  <2> QED  BY <1>a, <1>1, <1>3, <2>1 DEF Tap
<1>4. CASE ResFinishes
  <2>1. CASE Fails(TRUE, "cancelled", "finished")
        BY <1>a, <1>1, <2>1
  <2>2. CASE /\ result' = [ok |-> TRUE, idleTimedOut |-> FALSE, totalTimedOut |-> FALSE, aborted |-> FALSE]
             /\ res' = "finished" /\ idleDue' = None
             /\ UNCHANGED <<now, upstream, chunkVars, srcEnded, totalDue, idleTimedOut, totalTimedOut,
                            stopDue>>
    <3>1. result' \in Results
          BY <1>a, <2>2, ResultIs
    <3>2. Numbers' /\ States' /\ Outcomes'
          BY <1>0, <2>2, <3>1 DEF Numbers, States, Outcomes, chunkVars
    <3>3. Flags'
          BY <1>0, <2>2, Zenon DEF Flags
    <3> QED  BY <3>2, <3>3, TypesAre
  <2> QED  BY <1>4, <2>1, <2>2 DEF ResFinishes
<1>5. CASE BodyBreaks
      BY <1>a, <1>1, <1>5 DEF BodyBreaks
<1> QED  BY <1>2, <1>3, <1>4, <1>5 DEF PipeNext

LEMMA CatchTypes ==
  ASSUME TypeOK, Aborts \/ Breaks
  PROVE  TypeOK'
<1>0. Numbers /\ States /\ Flags /\ Outcomes
      BY TypesAre
<1>a. TRUE \in BOOLEAN /\ FALSE \in BOOLEAN
      OBVIOUS
<1>1. PICK timeout \in BOOLEAN : Catch(timeout)
      BY <1>a DEF Aborts, Breaks
<1>2. PICK up \in {"cancelled", "dropped"} :
        /\ upstream' = up
        /\ UNCHANGED <<now, chunkVars, srcEnded, res, timerVars, result>>
      BY DEF Aborts, Breaks
<1>3. "none" \in Marks
      BY DEF Marks
<1>4. sample' \in Samples /\ line' \in Lines
  <2> DEFINE status == IF timeout THEN 504 ELSE 502
             gone == clientDisconnected /\ res \notin {"ending", "finished"}
  <2>1. status \in {502, 504}
        OBVIOUS
  <2>2. \/ sample' = [status |-> 499, isError |-> FALSE]
        \/ sample' = [status |-> status, isError |-> TRUE]
        BY <1>1, Zenon DEF Catch
  <2>3. line' = [status |-> sample'.status, mark |-> "none"]
        BY <1>1, Zenon DEF Catch
  <2> HIDE DEF status
  <2>4. sample' \in Samples
    <3>1. CASE sample' = [status |-> 499, isError |-> FALSE]
          BY <1>a, <3>1 DEF Samples
    <3>2. CASE sample' = [status |-> status, isError |-> TRUE]
          BY <1>a, <2>1, <3>2 DEF Samples
    <3> QED  BY <2>2, <3>1, <3>2
  <2>5. sample'.status \in {200, 499, 502, 504}
        BY <2>4 DEF Samples
  <2> QED  BY <1>3, <2>3, <2>4, <2>5 DEF Lines
<1>5. pc' = "logging" /\ reply' \in {502, 504, None}
      BY <1>1 DEF Catch
<1>6. UNCHANGED <<client, clientDisconnected, timedOut, aborted>>
      BY <1>1, Zenon DEF Catch
<1>7. Numbers' /\ States' /\ Outcomes'
      BY <1>0, <1>2, <1>4, <1>5, <1>6 DEF Numbers, States, Outcomes, Places, chunkVars, timerVars
<1>8. Flags'
      BY <1>0, <1>2, <1>6, Zenon DEF Flags, timerVars
<1> QED  BY <1>7, <1>8, TypesAre

LEMMA HandlerTypes ==
  ASSUME TypeOK, Streams \/ Buffers \/ Saturated \/ Buffered \/ Streamed \/ Logged
  PROVE  TypeOK'
<1>0. Numbers /\ States /\ Flags /\ Outcomes
      BY TypesAre
<1>a. TRUE \in BOOLEAN /\ FALSE \in BOOLEAN
      OBVIOUS
<1>1. Numbers'
      BY <1>0, StreamAssumption DEF Streams, Buffers, Saturated, Buffered, Streamed, Logged, Open, Numbers,
                  pipeVars, chunkVars, timerVars
<1>2. States'
      BY <1>0 DEF Streams, Buffers, Saturated, Buffered, Streamed, Logged, Open, States, Places, pipeVars
<1>3. Flags'
  <2> USE DEF Flags, pipeVars, timerVars
  <2>1. CASE Streams
        BY <1>0, <2>1, ZenonT(40) DEF Streams, Open
  <2>2. CASE Buffers
        BY <1>0, <2>2, Zenon DEF Buffers
  <2>6. CASE Buffered
        BY <1>0, <2>6, Zenon DEF Buffered
  <2>3. CASE Saturated
        BY <1>0, <2>3, Zenon DEF Saturated
  <2>4. CASE Streamed
        BY <1>0, <2>4, Zenon DEF Streamed
  <2>5. CASE Logged
        BY <1>0, <2>5, Zenon DEF Logged
  <2> QED  BY <2>1, <2>2, <2>3, <2>4, <2>5, <2>6
<1>4. Outcomes'
  <2>1. CASE Streams \/ Buffers \/ Saturated \/ Logged
        BY <1>0, <2>1 DEF Streams, Buffers, Saturated, Logged, Open, Outcomes, pipeVars
  <2>2. "none" \in Marks /\ "IDLE_TIMEOUT" \in Marks /\ "TOTAL_TIMEOUT" \in Marks
        /\ "CLIENT_ABORTED" \in Marks
        BY DEF Marks
  <2>3. CASE Buffered
    <3>1. sample' \in Samples /\ line' \in Lines
          BY <1>a, <2>2, <2>3 DEF Buffered, Samples, Lines
    <3> QED  BY <1>0, <2>3, <3>1 DEF Buffered, Outcomes, pipeVars
  <2>4. CASE Streamed
    <3>1. \E e \in BOOLEAN : sample' = [status |-> 200, isError |-> e]
      <4>1. sample' = [status |-> 200, isError |-> ~result.ok]
            BY <2>4, Zenon DEF Streamed
      <4>2. CASE result.ok
        <5>1. (~result.ok) = FALSE
              BY <4>2, Zenon
        <5> QED  BY <1>a, <4>1, <5>1
      <4>3. CASE ~result.ok
        <5>1. (~result.ok) = TRUE
              BY <4>3, Zenon
        <5> QED  BY <1>a, <4>1, <5>1
      <4> QED  BY <4>2, <4>3
    <3>2. \E mark \in Marks : line' = [status |-> 200, mark |-> mark]
          BY <2>2, <2>4 DEF Streamed
    <3>3. sample' \in Samples
          BY <3>1 DEF Samples
    <3>4. line' \in Lines
          BY <3>2 DEF Lines
    <3> QED  BY <1>0, <2>4, <3>3, <3>4 DEF Streamed, Outcomes, pipeVars
  <2> QED  BY <2>1, <2>3, <2>4
<1> QED  BY <1>1, <1>2, <1>3, <1>4, TypesAre

LEMMA ClockTypes ==
  ASSUME TypeOK, Tick \/ ResponseTimer \/ AbortTimer \/ ClientLeaves
  PROVE  TypeOK'
<1>0. Numbers /\ States /\ Flags /\ Outcomes
      BY TypesAre
<1>1. /\ UNCHANGED <<pc, sample, line, reply>>
      /\ client' \in {"there", "gone"} /\ clientDisconnected' \in BOOLEAN
      /\ timedOut' \in BOOLEAN /\ aborted' \in BOOLEAN
  <2>1. client' \in {"there", "gone"}
        BY <1>0 DEF Tick, ResponseTimer, AbortTimer, ClientLeaves, handlerVars, States
  <2>2. clientDisconnected' \in BOOLEAN /\ timedOut' \in BOOLEAN /\ aborted' \in BOOLEAN
        BY <1>0, Zenon DEF Tick, ResponseTimer, AbortTimer, ClientLeaves, handlerVars, Flags
  <2>3. pc' = pc /\ sample' = sample /\ line' = line /\ reply' = reply
    <3>1. CASE Tick
          BY <3>1 DEF Tick, handlerVars
    <3>2. CASE ResponseTimer
          BY <3>2 DEF ResponseTimer
    <3>3. CASE AbortTimer
          BY <3>3 DEF AbortTimer
    <3>4. CASE ClientLeaves
          BY <3>4 DEF ClientLeaves
    <3> QED  BY <3>1, <3>2, <3>3, <3>4
  <2> QED  BY <2>1, <2>2, <2>3, Zenon
<1>2. \/ UNCHANGED pipeVars /\ now' \in Nat
      \/ Fails(TRUE, "cancelled", "destroyed")
  <2>0. now \in Nat
        BY <1>0 DEF Numbers
  <2>1. CASE Tick
    <3>1. now' \in Nat
          BY <2>0, <2>1 DEF Tick
    <3>2. UNCHANGED pipeVars
          BY <2>1, Zenon DEF Tick
    <3> QED  BY <3>1, <3>2, Zenon
  <2>2. CASE ResponseTimer
        BY <2>0, <2>2 DEF ResponseTimer
  <2>3. CASE AbortTimer
        BY <2>0, <2>3 DEF AbortTimer, AbortsBody
  <2>4. CASE ClientLeaves
        BY <2>0, <2>4 DEF ClientLeaves
  <2> QED  BY <2>1, <2>2, <2>3, <2>4
<1>3. CASE UNCHANGED pipeVars /\ now' \in Nat
  <2>1. Numbers' /\ States' /\ Outcomes'
        BY <1>0, <1>1, <1>3 DEF Numbers, States, Outcomes, pipeVars, chunkVars, timerVars
  <2>2. Flags'
        BY <1>0, <1>1, <1>3, Zenon DEF Flags, pipeVars, timerVars
  <2> QED  BY <2>1, <2>2, TypesAre
<1>4. ASSUME NEW looksAborted \in BOOLEAN, NEW up \in {"cancelled", "dropped"},
             NEW end \in {"finished", "destroyed"}, Fails(looksAborted, up, end)
      PROVE  TypeOK'
  <2>1. Numbers' /\ States'
        BY <1>0, <1>1, <1>4, FailsTypes DEF Numbers, States
  <2>2. Flags'
        BY <1>0, <1>1, <1>4, FailsTypes, Zenon DEF Flags
  <2>3. Outcomes'
        BY <1>0, <1>1, <1>4, FailsTypes DEF Outcomes
  <2> QED  BY <2>1, <2>2, <2>3, TypesAre
<1>5. TRUE \in BOOLEAN
      OBVIOUS
<1> QED  BY <1>2, <1>3, <1>4, <1>5

\* Every variable of the call and its streams keeps its type, so that each call is logged with
\* one of the marks and answered with one of the statuses of the code, whatever ends it.
THEOREM SafeCallsTypes == Spec => []TypeOK
<1>1. Init => TypeOK
  <2> SUFFICES ASSUME Init PROVE TypeOK
      OBVIOUS
  <2>1. Numbers /\ States /\ Outcomes
        BY DEF Init, PipeInit, Numbers, States, Outcomes, Places
  <2>2. Flags
        BY Zenon DEF Init, PipeInit, Flags
  <2> QED  BY <2>1, <2>2, TypesAre
<1>2. ASSUME TypeOK, [Next]_vars PROVE TypeOK'
  <2>1. CASE UNCHANGED vars
    <3>0. Numbers /\ States /\ Flags /\ Outcomes
          BY <1>2, TypesAre
    <3>1. Numbers' /\ States' /\ Outcomes'
          BY <2>1, <3>0 DEF vars, Numbers, States, Outcomes, pipeVars, chunkVars, timerVars, handlerVars
    <3>2. Flags'
          BY <2>1, <3>0, Zenon DEF vars, Flags, pipeVars, timerVars, handlerVars
    <3> QED  BY <3>1, <3>2, TypesAre
  <2>2. CASE (PipeNext \/ BodyEnds) /\ UNCHANGED handlerVars
        BY <1>2, <2>2, PipeTypes
  <2>3. CASE Aborts \/ Breaks
        BY <1>2, <2>3, CatchTypes
  <2>4. CASE Streams \/ Buffers \/ Saturated \/ Buffered \/ Streamed \/ Logged
        BY <1>2, <2>4, HandlerTypes
  <2>5. CASE Tick \/ ResponseTimer \/ AbortTimer \/ ClientLeaves
        BY <1>2, <2>5, ClockTypes
  <2> QED  BY <1>2, <2>1, <2>2, <2>3, <2>4, <2>5 DEF Next, Handler
<1> QED  BY <1>1, <1>2, PTL DEF Spec
=============================================================================
