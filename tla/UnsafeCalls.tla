---------------------------- MODULE UnsafeCalls ----------------------------
(***************************************************************************)
(* Unsafe (generating) calls through routeRequest of index.js: replay,     *)
(* coalescing, the race of the shared work against the response deadline,  *)
(* detaching, and the capture of late results.  It composes the result     *)
(* store (StoreOps), the limiter (UpstreamLimiter) and the retry decisions *)
(* (RetryPolicy).                                                          *)
(*                                                                         *)
(* A step is what runs between two turns of the event loop.  When the      *)
(* shared promise settles, everything that awaits it runs in that same     *)
(* turn, in the order it was attached, up to its next await; so settling   *)
(* is one step with all the puts in it.  The awaits that follow (log       *)
(* writes, mostly) are where other calls come in between.                  *)
(***************************************************************************)
EXTENDS StoreOps, RetryPolicy, FiniteSets

CONSTANTS Calls,        \* the calls the clients make, each once
          Ops,          \* the operations they ask for
          Asked,        \* the body that asks for an operation, and the API key it comes with
          Requests,     \* what a call may ask: an operation, and whether it carries a key
          Sizes,        \* sizes of response bodies
          Streams,      \* whether a response may be an event stream: a set of BOOLEAN values
          Limit,        \* MAX_CONCURRENT_UPSTREAM
          MaxAttempts,  \* UPSTREAM_RETRY_ATTEMPTS, or 1 when retries are off
          MaxClock,     \* bound of the model's clock
          SafeToolsCsv, UnsafeToolsCsv,
          None

Class == INSTANCE Classification

\* A body is an array of messages or a single one; it has none if it is no JSON or is empty.  The
\* parameters of a message are its tool and the rest of them, its arguments; None: there are no
\* parameters.  All bodies are unsafe, or they would not come here.
ASSUME AskedAssumption ==
  \A op \in Ops :
    LET asked == Asked[op]
        messages == asked.messages
    IN  /\ asked = [apiKey |-> asked.apiKey, array |-> asked.array, messages |-> messages]
        /\ messages \in Seq(ToSet(messages))
        /\ asked.array \in BOOLEAN /\ (asked.array \/ Len(messages) <= 1)
        /\ \A m \in ToSet(messages) :
             /\ m = [method |-> m.method, tool |-> m.tool, arguments |-> m.arguments]
             /\ m.arguments = None => m.tool = None
        /\ ~Class!ClassifyRequest(messages).safe

ASSUME CallsAssumption ==
  /\ IsFiniteSet(Calls) /\ None \notin Calls
  /\ Requests \subseteq [op : Ops, key : BOOLEAN]
  /\ Sizes \subseteq Nat /\ Streams \subseteq BOOLEAN /\ Limit \in Nat /\ MaxAttempts \in Nat \ {0} /\ MaxClock \in Nat

VARIABLES
  \* the clients
  request,    \* what the call asks
  open,       \* its connection is open
  reply,      \* what the client received
  \* the handlers
  pc,         \* where the handler of the call stands
  gen,        \* the call whose generation it awaits, or was answered with
  timedOut,   \* let timedOut
  orphaned,   \* let orphaned
  \* the shared work a call started
  phase,      \* how far its fetch is
  attempt, aborted, outcomeUnknown,
  body,       \* the response: its size, and whether it is an event stream
  joiners,    \* the handlers that await its promise, in the order they joined
  \* the proxy
  results, inFlight, clock,  \* the idempotency store: stored results, and work by fingerprint
  active, queue, slot,       \* the upstream limiter
  \* history
  written,    \* the calls whose request left for the upstream
  claimed,    \* the generations that settled with some handler still attached
  dropped     \* the fingerprints whose result the store evicted, expired or refused

clientVars  == <<request, open, reply>>
handlerVars == <<pc, gen, timedOut, orphaned>>
workVars    == <<phase, attempt, aborted, outcomeUnknown, body, joiners>>
limiterVars == <<active, queue, slot>>
storeVars   == <<results, inFlight, clock>>
historyVars == <<written, claimed, dropped>>
vars == <<clientVars, handlerVars, workVars, limiterVars, storeVars, historyVars>>

L == INSTANCE UpstreamLimiter WITH Tasks <- Calls, Patient <- {}

\* Only a single message has parameters of its own: params of an array, or of a body that was not
\* parsed, is undefined.
NoParams == [tool |-> None, arguments |-> None]

Params(op) ==
  LET asked == Asked[op]
  IN  IF asked.array \/ asked.messages = <<>> THEN NoParams
      ELSE [tool |-> asked.messages[1].tool, arguments |-> asked.messages[1].arguments]

HasParams(op) == Params(op) # NoParams

\* A mistake: the parameters are left out.
FingerprintOfMethod(op) ==
  [apiKey |-> Asked[op].apiKey, method |-> Class!ClassifyRequest(Asked[op].messages).method,
   params |-> NoParams]

\* fingerprintOf: the API key, the method of the verdict (None: "unknown") and the parameters.
Fingerprint(op) ==
  [apiKey |-> Asked[op].apiKey, method |-> Class!ClassifyRequest(Asked[op].messages).method,
   params |-> Params(op)]

Fps == {Fingerprint(op) : op \in Ops}

FingerprintOf == [op \in Ops |-> Fingerprint(op)]

Fp(c) == FingerprintOf[request[c].op]

Replies == {"result", "replay",  \* a body
            "running",           \* -32004: still running, retry the identical call
            "timedOut",          \* -32004: the upstream request was aborted
            "unknown",           \* -32008: outcome unknown
            "failed",            \* -32006: the upstream request failed
            "saturated"}         \* -32009

ASSUME NoneAssumption == None \notin Replies

Fetching == {"fetching",  \* fetch() called (or waiting for its slot), nothing written yet
             "sent",      \* the request left, no response headers yet
             "backoff"}   \* sleep() between two attempts

Unsettled == Fetching \cup {"reading"}  \* the body is being read to its end

Places == {"idle",
           "replaying",  \* has a stored result, about to send it
           "racing",     \* awaits the shared work or its deadline
           "detached",   \* answered at its deadline; a late result will be stored
           "relaying",   \* coalesced: has the result, awaits the log before put and send
           "finishing",  \* started the work: has put the result, awaits the log
           "streaming",  \* the same, sending an event stream
           "done"}

TypeOK ==
  /\ request \in [Calls -> Requests \cup {None}]
  /\ open \in [Calls -> BOOLEAN]
  /\ reply \in [Calls -> Replies \cup {None}]
  /\ pc \in [Calls -> Places]
  /\ gen \in [Calls -> Calls \cup {None}]
  /\ timedOut \in [Calls -> BOOLEAN] /\ orphaned \in [Calls -> BOOLEAN]
  /\ phase \in [Calls -> Unsettled \cup {"off", "ok", "refused", "failed", "broken"}]
  /\ attempt \in [Calls -> Nat] /\ aborted \in [Calls -> BOOLEAN]
  /\ outcomeUnknown \in [Calls -> BOOLEAN]
  /\ body \in [Calls -> [sse : Streams, bytes : Sizes] \cup {None}]
  /\ joiners \in [Calls -> Seq(Calls)]
  /\ results \in Seq([fp : Fps, gen : Calls, bytes : Nat, storedAt : Nat,
                      delivered : BOOLEAN, key : BOOLEAN])
  /\ inFlight \in [Fps -> Calls \cup {None}]
  /\ clock \in Nat
  /\ L!TypeOK
  /\ written \subseteq Calls /\ claimed \subseteq Calls
  /\ dropped \subseteq Fps

Init ==
  /\ request = [c \in Calls |-> None]
  /\ open = [c \in Calls |-> TRUE]
  /\ reply = [c \in Calls |-> None]
  /\ pc = [c \in Calls |-> "idle"]
  /\ gen = [c \in Calls |-> None]
  /\ timedOut = [c \in Calls |-> FALSE] /\ orphaned = [c \in Calls |-> FALSE]
  /\ phase = [c \in Calls |-> "off"]
  /\ attempt = [c \in Calls |-> 1] /\ aborted = [c \in Calls |-> FALSE]
  /\ outcomeUnknown = [c \in Calls |-> FALSE] /\ body = [c \in Calls |-> None]
  /\ joiners = [c \in Calls |-> <<>>]
  /\ results = <<>> /\ inFlight = [f \in Fps |-> None] /\ clock = 0
  /\ L!Init
  /\ written = {} /\ claimed = {} /\ dropped = {}

\* What the client of c receives; nothing when its connection is closed.
Sends(c, what) == reply' = IF open[c] THEN [reply EXCEPT ![c] = what] ELSE reply

\* History: a fingerprint is dropped when a result of it (or one just put) is not stored.
NotesDropped(putFps) ==
  dropped' = {f \in Fps : (f \in putFps \cup dropped \/ Has(results, f)) /\ ~Has(results', f)}

-----------------------------------------------------------------------------
(* A call arrives *)

\* take() has a result for it; the answer waits for a log write.
Replays(c, f) ==
  /\ TakeHits(results, f, request'[c].key, clock)
  /\ pc' = [pc EXCEPT ![c] = "replaying"]
  /\ gen' = [gen EXCEPT ![c] = EntryOf(results, f).gen]
  /\ UNCHANGED <<workVars, limiterVars, inFlight>>

\* join() finds the work of an identical call.
Joins(c, f) ==
  /\ ~TakeHits(results, f, request'[c].key, clock)
  /\ inFlight[f] # None
  /\ pc' = [pc EXCEPT ![c] = "racing"]
  /\ gen' = [gen EXCEPT ![c] = inFlight[f]]
  /\ joiners' = [joiners EXCEPT ![inFlight[f]] = Append(@, c)]
  /\ UNCHANGED <<phase, attempt, aborted, outcomeUnknown, body, limiterVars, inFlight>>

\* join() finds nothing: performFetch runs up to acquire(), or to fetch() if there is a slot.
Starts(c, f) ==
  /\ ~TakeHits(results, f, request'[c].key, clock)
  /\ inFlight[f] = None
  /\ pc' = [pc EXCEPT ![c] = "racing"]
  /\ gen' = [gen EXCEPT ![c] = c]
  /\ joiners' = [joiners EXCEPT ![c] = <<c>>]
  /\ phase' = [phase EXCEPT ![c] = "fetching"]
  /\ L!Acquire(c)
  /\ inFlight' = [inFlight EXCEPT ![f] = c]
  /\ UNCHANGED <<attempt, aborted, outcomeUnknown, body>>

\* From fingerprintOf to the race; take() sweeps the store and touches what it returns.
Arrive(c) ==
  /\ pc[c] = "idle"
  /\ \E r \in Requests :
       /\ request' = [request EXCEPT ![c] = r]
       /\ results' = AfterTake(results, Fp(c)', r.key, clock)
       /\ Replays(c, Fp(c)') \/ Joins(c, Fp(c)') \/ Starts(c, Fp(c)')
  /\ NotesDropped({})
  /\ UNCHANGED <<open, reply, timedOut, orphaned, clock, written, claimed>>

\* The stored body is sent, with the caller's id written into it.
Replay(c) ==
  /\ pc[c] = "replaying"
  /\ Sends(c, "replay")
  /\ pc' = [pc EXCEPT ![c] = "done"]
  /\ UNCHANGED <<request, open, gen, timedOut, orphaned, workVars, limiterVars, storeVars,
                 historyVars>>

-----------------------------------------------------------------------------
(* The shared promise settles *)

Joined(d) == ToSet(joiners[d])

\* A mistake: the key as it came (None: undefined) instead of Boolean(key).
ResultWithRawKey(d, h, bytes, delivered) ==
  [fp |-> Fp(h), gen |-> d, bytes |-> bytes, storedAt |-> clock, delivered |-> delivered,
   key |-> IF request[h].key THEN TRUE ELSE None]

\* What a handler h puts when it has the result of d.
Result(d, h, bytes, delivered) ==
  [fp |-> Fp(h), gen |-> d, bytes |-> bytes, storedAt |-> clock,
   delivered |-> delivered, key |-> request[h].key]

\* The handlers that put in the turn in which d settles, in the order they run: the callbacks
\* of the detached ones hang on the promise itself, those that race are resumed later.
Putting(d) ==
  Only(joiners[d], {h \in Calls : pc[h] = "detached"})
    \o Only(joiners[d], {h \in Calls : pc[h] = "racing" /\ (orphaned[h] \/ h = d)})

\* A mistake: a late result is marked as delivered, like any other.
AfterSettlingDelivered(d, bytes) ==
  FoldLeft(LAMBDA rs, h : AfterPut(rs, Result(d, h, bytes, TRUE)), results, Putting(d))

\* Only the handler that still has a client puts its result as delivered.
AfterSettling(d, bytes) ==
  FoldLeft(LAMBDA rs, h : AfterPut(rs, Result(d, h, bytes, ~orphaned[h])), results, Putting(d))

\* A mistake: the finally of join is missing.
ClearsNothing(d) ==
  /\ UNCHANGED inFlight
  /\ joiners' = [joiners EXCEPT ![d] = <<>>]

\* The finally of join, whoever is registered under the fingerprint.
Clears(d) ==
  /\ inFlight' = [inFlight EXCEPT ![Fp(d)] = None]
  /\ joiners' = [joiners EXCEPT ![d] = <<>>]

\* text() has read the whole body.  Only a status below 400 is stored.  A handler that was
\* orphaned ends here, whether or not it has answered.
Resolve(d, ok, sse, bytes) ==
  /\ phase[d] = "reading" /\ ~aborted[d]
  /\ phase' = [phase EXCEPT ![d] = IF ok THEN "ok" ELSE "refused"]
  /\ body' = [body EXCEPT ![d] = [sse |-> sse, bytes |-> bytes]]
  /\ Clears(d)
  /\ pc' = [h \in Calls |->
              CASE h \notin Joined(d)                    -> pc[h]
                [] h \in Joined(d) /\ orphaned[h]        -> "done"
                [] h \in Joined(d) \ {d} /\ ~orphaned[h] -> "relaying"
                [] h = d /\ h \in Joined(d) /\ ~orphaned[h] ->
                     IF sse THEN "streaming" ELSE "finishing"]
  /\ results' = IF ok THEN AfterSettling(d, bytes) ELSE results
  /\ NotesDropped(IF ok THEN {Fp(h) : h \in ToSet(Putting(d))} ELSE {})
  /\ claimed' = IF \E h \in Joined(d) : ~orphaned[h] THEN claimed \cup {d} ELSE claimed
  /\ UNCHANGED <<clientVars, gen, timedOut, orphaned, attempt, aborted, outcomeUnknown,
                 limiterVars, clock, written>>

\* The catch of routeRequest: what a handler that still waits answers.  Each handler has an
\* outcomeUnknown of its own, and only the one that started the work has its set.
ErrorReply(h, why) ==
  IF why # "failed" THEN why ELSE IF outcomeUnknown'[h] THEN "unknown" ELSE "failed"

\* The promise of d rejects: detached handlers only log it, and one whose client left does not
\* answer.  The log writes before the answer change nothing here and are left out.
Reject(d, why) ==
  /\ phase' = [phase EXCEPT ![d] = IF phase[d] = "reading" THEN "broken" ELSE "failed"]
  /\ Clears(d)
  /\ pc' = [h \in Calls |-> IF h \in Joined(d) THEN "done" ELSE pc[h]]
  /\ reply' = [h \in Calls |-> IF h \in Joined(d) /\ pc[h] = "racing" /\ open[h]
                               THEN ErrorReply(h, why) ELSE reply[h]]
  /\ UNCHANGED <<request, open, gen, timedOut, orphaned, attempt, aborted, body, results,
                 clock, claimed, dropped>>

-----------------------------------------------------------------------------
(* The shared work: performFetch and the reading of its response *)

Runs(d) == slot[d] = "running"

\* The wait for a slot times out: nothing was sent.
LimiterTimeout(d) ==
  /\ L!WaitTimeout(d)
  /\ Reject(d, "saturated")
  /\ UNCHANGED <<outcomeUnknown, written>>

RequestLeaves(d) ==
  /\ phase[d] = "fetching" /\ Runs(d) /\ ~aborted[d]
  /\ phase' = [phase EXCEPT ![d] = "sent"]
  /\ written' = written \cup {d}
  /\ UNCHANGED <<clientVars, handlerVars, attempt, aborted, outcomeUnknown, body, joiners,
                 limiterVars, storeVars, claimed, dropped>>

\* The catch of fetchUpstreamWithRetry.  The flags it looks at are those of the call that
\* started the work.  Whether the deadline had passed when the attempt started is left open.
CaughtWith(d, e) ==
  \E remaining \in 0..1 :
    LET decision == DecideOnError(FALSE, attempt[d], MaxAttempts, e, remaining)
        repeats  == decision.retry /\ ~timedOut[d] /\ open[d]
    IN  /\ outcomeUnknown' = [outcomeUnknown EXCEPT ![d] = @ \/ decision.outcomeUnknown]
        /\ \/ /\ ~repeats
              /\ L!Release(d)
              /\ Reject(d, IF e.aborted THEN "timedOut" ELSE "failed")
              /\ UNCHANGED written
           \/ /\ repeats
              /\ phase' = [phase EXCEPT ![d] = "backoff"]
              /\ UNCHANGED <<clientVars, handlerVars, attempt, aborted, body, joiners,
                             limiterVars, storeVars, historyVars>>

ConnectFails(d, e) ==
  phase[d] = "fetching" /\ Runs(d) /\ ~aborted[d] /\ ~e.aborted /\ CaughtWith(d, e)

\* Once the request has left, no error proves that it did not.
ConnectionDrops(d, e) ==
  /\ phase[d] = "sent" /\ ~aborted[d] /\ ~e.aborted /\ PhaseOfError(e) = "sent"
  /\ CaughtWith(d, e)

FetchAborts(d) ==
  phase[d] \in {"fetching", "sent"} /\ Runs(d) /\ aborted[d] /\ CaughtWith(d, AbortError)

\* The sleep is over.  Nothing is checked again before the next fetch.
Wakes(d) ==
  /\ phase[d] = "backoff"
  /\ phase' = [phase EXCEPT ![d] = "fetching"]
  /\ attempt' = [attempt EXCEPT ![d] = @ + 1]
  /\ UNCHANGED <<clientVars, handlerVars, aborted, outcomeUnknown, body, joiners, limiterVars,
                 storeVars, historyVars>>

\* A mistake: the slot is not released.
HeadersKeepsSlot(d) ==
  /\ phase[d] = "sent" /\ ~aborted[d]
  /\ phase' = [phase EXCEPT ![d] = "reading"]
  /\ UNCHANGED <<clientVars, handlerVars, attempt, aborted, outcomeUnknown, body, joiners,
                 limiterVars, storeVars, historyVars>>

\* Response headers: whatever the status, an unsafe call is not repeated; the slot is free
\* again before the body is read.
Headers(d) ==
  /\ phase[d] = "sent" /\ ~aborted[d]
  /\ phase' = [phase EXCEPT ![d] = "reading"]
  /\ L!Release(d)
  /\ UNCHANGED <<clientVars, handlerVars, attempt, aborted, outcomeUnknown, body, joiners,
                 storeVars, historyVars>>

\* text() rejects: the connection broke, or the signal was aborted.  Outside the retry loop,
\* so onOutcomeUnknown is not called.
BodyFails(d) ==
  /\ phase[d] = "reading"
  /\ UNCHANGED <<outcomeUnknown, limiterVars, written>>
  /\ Reject(d, IF aborted[d] THEN "timedOut" ELSE "failed")

-----------------------------------------------------------------------------
(* Timers and clients.  The timer behind timedOut and the one the race ends with have the same *)
(* duration but not the same start, so anything may come in between.                           *)

ResponseTimer(h) ==
  /\ pc[h] = "racing" /\ ~timedOut[h]
  /\ timedOut' = [timedOut EXCEPT ![h] = TRUE]
  /\ orphaned' = [orphaned EXCEPT ![h] = TRUE]
  /\ UNCHANGED <<clientVars, pc, gen, workVars, limiterVars, storeVars, historyVars>>

\* A mistake: the handler forgets the work it detaches from.
DeadlineForgets(h) ==
  /\ pc[h] = "racing" /\ timedOut[h]
  /\ pc' = [pc EXCEPT ![h] = "detached"]
  /\ orphaned' = [orphaned EXCEPT ![h] = TRUE]
  /\ inFlight' = [inFlight EXCEPT ![Fp(h)] = None]
  /\ Sends(h, "running")
  /\ UNCHANGED <<request, open, gen, timedOut, workVars, limiterVars, results, clock, historyVars>>

\* The race ends with ORPHAN_SENTINEL.
Deadline(h) ==
  /\ pc[h] = "racing" /\ timedOut[h]
  /\ pc' = [pc EXCEPT ![h] = "detached"]
  /\ orphaned' = [orphaned EXCEPT ![h] = TRUE]
  /\ Sends(h, "running")
  /\ UNCHANGED <<request, open, gen, timedOut, workVars, limiterVars, storeVars, historyVars>>

\* A mistake: the deadline clears both timers.
AbortTimerCleared(d) ==
  /\ pc[d] = "racing" /\ timedOut[d] /\ phase[d] \in Unsettled /\ ~aborted[d]
  /\ aborted' = [aborted EXCEPT ![d] = TRUE]
  /\ UNCHANGED <<clientVars, handlerVars, phase, attempt, outcomeUnknown, body, joiners,
                 limiterVars, storeVars, historyVars>>

\* abortId of the call that started the work, which survives its detaching.  UNSAFE_MAX_DURATION_MS
\* is longer than REQUEST_TIMEOUT_MS, as it is by default.
AbortTimer(d) ==
  /\ pc[d] = "detached" /\ phase[d] \in Unsettled /\ ~aborted[d]
  /\ aborted' = [aborted EXCEPT ![d] = TRUE]
  /\ UNCHANGED <<clientVars, handlerVars, phase, attempt, outcomeUnknown, body, joiners,
                 limiterVars, storeVars, historyVars>>

\* onClientClose (nothing listens yet while a stored result is being sent).  The work goes on.
Disconnect(c) ==
  /\ open[c] /\ pc[c] \in {"replaying", "racing", "relaying", "finishing", "streaming"}
  /\ open' = [open EXCEPT ![c] = FALSE]
  /\ orphaned' = [orphaned EXCEPT ![c] = @ \/ pc[c] # "replaying"]
  /\ UNCHANGED <<request, reply, pc, gen, timedOut, workVars, limiterVars, storeVars, historyVars>>

-----------------------------------------------------------------------------
(* The handlers that have a result *)

\* What a handler stores as delivered just before it sends.
PutsDelivered(h) ==
  IF phase[gen[h]] = "ok"
  THEN /\ results' = AfterPut(results, Result(gen[h], h, body[gen[h]].bytes, TRUE))
       /\ NotesDropped({Fp(h)})
  ELSE UNCHANGED <<results, dropped>>

\* The log is written: put and send.  The client may have left meanwhile; nothing looks.
Answers(h) ==
  /\ PutsDelivered(h)
  /\ Sends(h, "result")
  /\ pc' = [pc EXCEPT ![h] = "done"]
  /\ UNCHANGED <<request, open, gen, timedOut, orphaned, workVars, limiterVars, inFlight, clock,
                 written, claimed>>

\* A coalesced call, which has put nothing before.
Relay(h) == pc[h] = "relaying" /\ Answers(h)

\* The call that started the work, which puts for the second time.
Finish(h) == pc[h] = "finishing" /\ Answers(h)

\* An event stream is sent in the turns after its put.
StreamEnd(h) ==
  /\ pc[h] = "streaming"
  /\ Sends(h, "result")
  /\ pc' = [pc EXCEPT ![h] = "done"]
  /\ UNCHANGED <<request, open, gen, timedOut, orphaned, workVars, limiterVars, storeVars,
                 historyVars>>

Tick ==
  /\ clock < MaxClock
  /\ clock' = clock + 1
  /\ UNCHANGED <<clientVars, handlerVars, workVars, limiterVars, results, inFlight, historyVars>>

Next ==
  \/ Tick
  \/ \E c \in Calls :
       \/ Arrive(c) \/ Disconnect(c)
       \/ Replay(c) \/ Relay(c) \/ Finish(c) \/ StreamEnd(c)
       \/ ResponseTimer(c) \/ Deadline(c) \/ AbortTimer(c)
       \/ RequestLeaves(c) \/ Headers(c) \/ BodyFails(c) \/ FetchAborts(c) \/ Wakes(c)
       \/ LimiterTimeout(c)
       \/ \E e \in Errors : ConnectFails(c, e) \/ ConnectionDrops(c, e)
       \/ \E ok \in BOOLEAN, sse \in Streams, bytes \in Sizes : Resolve(c, ok, sse, bytes)

\* Timers fire, an aborted fetch or read ends, and a handler that has a result goes on.  The
\* upstream need not do anything, and clients need not come, stay or leave.
Fairness ==
  \A c \in Calls :
    /\ WF_vars(ResponseTimer(c)) /\ WF_vars(Deadline(c)) /\ WF_vars(AbortTimer(c))
    /\ WF_vars(LimiterTimeout(c)) /\ WF_vars(Wakes(c))
    /\ WF_vars(FetchAborts(c)) /\ WF_vars(aborted[c] /\ BodyFails(c))
    /\ WF_vars(Replay(c)) /\ WF_vars(Relay(c)) /\ WF_vars(Finish(c)) /\ WF_vars(StreamEnd(c))

Spec == Init /\ [][Next]_vars /\ Fairness

-----------------------------------------------------------------------------
(* Properties *)

Working(d) == phase[d] \in Unsettled

\* Whatever joins, detaches, leaves, fails and comes back: two generations of one fingerprint
\* never run at once, and the one that runs is the one a newcomer joins ("a second identical
\* request must not start a second generation", index.js:3337).
OneGenerationAtATime == \A d \in Calls : Working(d) => inFlight[Fp(d)] = d

\* No handler waits for work that is over: what it awaits still runs and will wake it.
NobodyWaitsForNothing ==
  \A h \in Calls : pc[h] \in {"racing", "detached"}
                   => Working(gen[h]) /\ h \in Joined(gen[h])

\* The limiter's slots and its queue belong to the work that is fetching, to all of it and to
\* nothing else, through retries, aborts and the settling of calls nobody waits for.
SlotsBelongToWork ==
  /\ L!SlotsExact /\ L!QueueIsWaiters
  /\ \A d \in Calls : slot[d] # "idle" <=> phase[d] \in Fetching

\* A call is answered with the result of a call with the same API key; and one that has parameters
\* with that of a call with the same method and parameters, and no other, whatever bodies without
\* parameters are on their way (store.js:22).
ParamsAreAnswered ==
  \A c \in Calls : reply[c] \in {"result", "replay"}
    => LET mine == Asked[request[c].op]
           theirs == Asked[request[gen[c]].op]
       IN  theirs.apiKey = mine.apiKey /\ (HasParams(request[c].op) => theirs = mine)

\* The client whose own call failed after it was sent and before the response is never told a
\* plain failure: that would invite a second generation (index.js:3752).
OwnerIsToldUnknown ==
  \A c \in Calls : reply[c] = "failed" /\ gen[c] = c /\ c \in written => phase[c] = "broken"

\* A generation whose clients had all gone, or been answered, when it ended can be collected:
\* its result is stored, for anyone who asks, unless the store dropped it or the result of
\* another generation has replaced it.
DetachedResultIsKept ==
  \A d \in Calls : phase[d] = "ok" /\ d \notin claimed /\ Fp(d) \notin dropped
    => /\ Has(results, Fp(d))
       /\ EntryOf(results, Fp(d)).gen = d => ~EntryOf(results, Fp(d)).delivered

StartsWork(c) == phase[c] = "off" /\ phase'[c] # "off"

\* "Explicit keys replay a completed result even if it was already delivered" (README): a call
\* with a key never starts a generation after one that succeeded, unless the store dropped the
\* result.
KeyedRetryReplays ==
  [][\A c, d \in Calls :
       /\ StartsWork(c) /\ request'[c].key
       /\ phase[d] = "ok" /\ Fp(d) = Fp(c)'
       => Fp(d) \in dropped']_vars

\* Every handler ends, whatever the upstream and the client do, and detached work does too.
HandlersEnd == \A c \in Calls : pc[c] # "idle" ~> pc[c] = "done"

\* "An unsafe request that failed after being sent returns -32008" (README.md:78).
FailureAfterSendingIsUnknown == \A c \in Calls : reply[c] = "failed" => gen[c] \notin written

Received(d) == \E c \in Calls : gen[c] = d /\ reply[c] \in {"result", "replay"}

\* "Without a key, a delivered result is not replayed" (README.md:73): where nobody used a key,
\* a result that a client has received is not replayed to another call.
DeliveredIsNotReplayed ==
  [][\A c \in Calls :
       /\ pc[c] = "idle" /\ pc'[c] = "replaying" /\ ~request'[c].key
       /\ \A b \in Calls : gen[b] = gen'[c] => ~request[b].key
       => ~Received(gen'[c])]_vars

Collectable(f, d) ==
  /\ Has(results, f)
  /\ EntryOf(results, f).gen = d
  /\ Replayable(EntryOf(results, f), FALSE)

\* "Never loses a generation" (README.md:333): a result is received by a client, about to be
\* sent to one, or there for a retry to collect, unless the store dropped it.
NeverLosesAGeneration ==
  \A d \in Calls : phase[d] = "ok" /\ Fp(d) \notin dropped
    => \/ Received(d)
       \/ \E h \in Calls : gen[h] = d /\ open[h]
                           /\ pc[h] \in {"replaying", "relaying", "finishing", "streaming"}
       \/ Collectable(Fp(d), d)
=============================================================================
