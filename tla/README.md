# TLA+ models of gstitch-mcproxy

The proxy forwards MCP (JSON-RPC over HTTP) calls to Google Stitch. Its hard part is what
`docs/adr/0003-idempotency.md` is about: a call that generates something must not run twice, must
not be lost when its client leaves or times out, and must still end. Around it stand the gates every
request passes, the streams of the calls that only read, and a log that survives shutdowns. These
modules model those parts of the code, TLC checks them on small instances, and TLAPS proves their
safety properties for every instance.

Read `UnsafeCalls.tla` first, then `Admission.tla` and `SafeCalls.tla`: a request passes
`Admission` and continues in one of the other two.

## The system

`index.js` is a Node HTTP server around `routeRequest`; the modules under `src/` are its parts.
Everything runs on one event loop, so a step of a model is what runs between two turns of the loop,
and whatever the code awaits is where other requests, timers and sockets come in.

| Component | State it keeps | Operations | What makes it correct |
| --- | --- | --- | --- |
| limiter (`upstream/limiter.js`) | a counter, a FIFO queue of waiters with timers | acquire, release, wait timeout | no slot leaks or is given twice, FIFO, no caller starves |
| retry (`upstream/retry.js`, `fetchUpstreamWithRetry`) | attempt number, flags of its request | one attempt after another, with sleeps | an unsafe request leaves at most once; its unknown outcome is reported; the loop ends |
| idempotency store (`idempotency/store.js`) | results by fingerprint in LRU order, promises in flight | put, take, join, settle, forget, sweep | bounded; replays within the window and only what may be replayed; running work is found |
| unsafe calls (`routeRequest`) | per handler: timers, `orphaned`, the result it holds | take, join, race, detach, store, answer | one generation at a time; a detached result can be collected; nobody waits for ever |
| safe calls (`routeRequest`) | per handler: timers, flags, the answer it holds | fetch, stream or buffer, log, answer | the upstream is released; the call ends; a cut stream is counted as an error |
| stream pipeline (`upstream/stream.js`) | chunks on their way, idle and total timers | tap, end, stop, abort | a truncated stream is not taken for a whole one; a silent one is not kept |
| gate (`routeRequest`) | the request, what it read, its credential | gates in order, body, local answers, forward | who is served; one count per call; ids in every refusal |
| rate limit (`http/ratelimit.js`) | a token bucket per client | check, sweep | a burst is bounded, also when the clock steps back or the sweep forgets a bucket |
| token cache (`getCachedToken`) | token, its time, the pending run | use, join, refresh | one gcloud run at a time; a failure is not inherited |
| policies (`http/security.js`) | none | decide on origin, host, address | only the local network is trusted |
| classification (`mcp/classify.js`) | none | classify a body, annotate tools | a batch is as unsafe as its most unsafe message |
| JSON-RPC helpers (`mcp/jsonrpc.js`) | none | ids, project, local fallbacks | an error resolves every call of the body |
| summary log (`index.js`) | a promise chain, files | append, rotate, flush | lines keep their order; only the oldest go |
| shutdown (`index.js`) | open connections | drain, flush, exit, force | it ends; lines of answered requests are kept |
| metrics (`observability/metrics.js`) | counters | record | every call counts once |
| views, debug logs, configuration | module-level settings | | not modelled, see below |

They interact by calls and promises. A handler decides the gates and the rate limit in one turn,
awaits its body and, without a key, a gcloud token that it may share with others; then it is
classified. An unsafe handler calls `take` and `join` of the store; the first handler of a
fingerprint starts the shared work, which runs the retry loop inside `run` of the limiter; every
handler that joined awaits the same promise and races it against a deadline of its own; the socket's
`close` event and the timers set flags that the loop and the handler read later. A safe handler runs
the retry loop for itself and pipes the body through the stream tap into its response. Both write
summary lines to one promise chain, which the shutdown flushes. The hard behaviours are the orders
in which a result, a deadline, a second timer, a disconnect, a second identical call, a failure and
a shutdown can follow each other. `PROJECT.json` lists them, each at its line, under `hazards`.

## Modules

| Module | Models | Notes |
| --- | --- | --- |
| `Semaphore` | what a bounded semaphore promises | abstract specification |
| `UpstreamLimiter` | `createSemaphore` | counter and queue; implements `Semaphore` |
| `UpstreamLimiterProofs` | | proofs about it |
| `RetryPolicy` | `decideRetry`, `phaseOfError`, `jitteredDelay` | pure operators |
| `RetryLoop` | `fetchUpstreamWithRetry` with the timers and the close handler of its request | one request in detail, with a clock |
| `RetryLoopProofs` | | proofs about it |
| `Subsequence` | `Array.prototype.filter`, deletions from a `Map` | a recursive function that proofs can expand |
| `StoreOps` | the operations on stored results | pure operators on the LRU sequence |
| `ReplayMemory` | what the store promises | abstract specification |
| `IdempotencyStore` | `createIdempotencyStore` as its API | every sequence of calls; implements `ReplayMemory` |
| `UnsafeCalls` | `routeRequest` for unsafe calls | composes `StoreOps`, `RetryPolicy` and instances of `UpstreamLimiter` and `Classification` |
| `UnsafeCallsProofs` | | proofs about it, on top of `Facts` and `UpstreamLimiterProofs` |
| `Facts` | | lemmas on induction, sequences, folds and `StoreOps` |
| `IdempotencyStoreProofs` | | proofs about the store, on top of `Facts` |
| `StreamPipeline` | `streamWithBackpressure` | the state and steps of one stream |
| `SafeCalls` | `routeRequest` for one safe call | composes `StreamPipeline` |
| `SafeCallsProofs` | | proofs about both |
| `RateLimit` | `createTokenBucketLimiter` and the sweep | with a clock that steps back |
| `Policies`, `Classification`, `JsonRpc` | the modules of those names | pure operators |
| `TokenCache` | `getCachedToken`, `getAccessToken` | actions on the cache and its runs |
| `Admission` | `routeRequest` up to the forwarding, `handleRequest` | composes the five above |
| `AdmissionProofs` | | proofs about it and about `RateLimit` |
| `LineLog` | what the summary log promises | abstract specification |
| `SummaryLog` | `appendSummaryLog`, rotation, `gracefulShutdown` | implements `LineLog` |
| `SummaryLogProofs` | | proofs about it |
| `MC*` | | instances for TLC |

Operators commented "A mistake" are variants of the definition that follows them. Each contains a
plausible bug and is used in place of that definition to see that a property notices it; no
specification refers to them.

### UpstreamLimiter

`active` and `queue` are the variables of the closure. `slot` says what each call of `run()` does,
which the code keeps only in the call stack; the properties relate the two. `resolve()` of a waiter
raises `active` inside `release()`, so a slot changes hands in one step. A caller may call again
after its task ended. `Patient` are callers without a wait bound.

### RetryLoop

One run of the loop, `safe` or not, with `Date.now()` as a clock that stops at `MaxTime`. The
upstream refuses a connection, takes the request and drops it, answers with any class of status, or
stays silent. `timeoutId`, `abortId` and `onClientClose` are actions; `reached` counts how often the
request left the proxy.

### IdempotencyStore

`results` is a JavaScript `Map` whose insertion order is the LRU order, so it is a sequence. A body
is the call that produced it and a size. `recency` and `forgotten` are history variables: the order
of use as the callers see it, and the promises that `forget()` removed while they ran.

### UnsafeCalls

One call per member of `Calls`. `pc` is where its handler stands, and each of its values is a place
where the handler awaits something. `phase` is how far the upstream work is that the call started,
if it started any; the two are independent, because a handler that answered at its deadline
(`detached`) leaves its work running. `joiners` are the handlers that await a promise, in the order
they attached. When the promise settles, all of them run in the same turn of the loop, the callbacks
of detached handlers before the handlers that race; `Resolve` and `Reject` are that turn, with all
the puts in it.

What a call asks is an operation; `Asked` has the body that asks for it (its messages, and whether
they stand in an array) and the API key it comes with. `Fingerprint` is what `fingerprintOf` hashes:
the API key, the method of the verdict, which `Classification` gives and which for a batch is that of
its first unsafe message, and the parameters, which only a single message has (`parsedBody?.params`).

Abstractions: a hash is what it is made from. The parameters of a message are its tool and the rest
of them. The deadline test of a retry (`remainingMs > 0`) is left open, which allows
more than the code does. Log writes are left out except where a handler awaits one between two steps
that others can see. It is assumed that `UNSAFE_MAX_DURATION_MS` is longer than `REQUEST_TIMEOUT_MS`
(it is by default; the code does not check it), and that a client's disconnect is noticed, which is
not so while a handler still awaits `getCachedToken()`.

### SafeCalls and StreamPipeline

`StreamPipeline` has the body between the upstream and the client: chunks are counted as they
arrive, pass the tap and are read by the client; `res` takes `Room` of them before it pushes back.
Its actions are the tap, the end of the body, the two deadlines, `stopSource`, and the ways in which
one of the three streams breaks; Node's `pipeline` destroys the other two in the same turn, so each
failure is one step. `SafeCalls` adds the handler: `pc` is where it awaits (the fetch, the stream,
the buffered body, the log), `clientDisconnected`, `timedOut` and `aborted` are the flags that the
two timers and the `close` handlers set, `sample` is what `recordMetrics` got. The catch block is
modelled with all its branches. How often a fetch is tried is `RetryLoop`'s matter.

### Admission and its parts

`Slots` are requests, each with the place `pc` where its handler awaits. The first turn (`Gate` and
the rate limit) is one action, as in the code; reading the body, joining or starting a gcloud run,
and the answers are further ones. `settings` are those of the process: whether a key is in the
environment and whether gcloud may be asked. `Policies` has addresses, names and headers as records
of what the predicates look at: the first two octets of an IPv4 address, the range of an IPv6
address, what a name ends in. `Classification` and `JsonRpc` see a body as a sequence of messages;
`ReadsOnly` in `Classification` is the reference that verdicts are compared with. `RateLimit` counts
tokens in units in which a request costs `Cost` and a tick refills `Rate`, so that fractions are
whole numbers; `touched`, `admitted`, `forgotten` and `since` are history variables, an observation
that may begin at any time. A request that is forwarded ends here. `METRICS_ENABLED` and `RATE_LIMIT_ENABLED`
are on.

### SummaryLog

A line is the number of its submission. `queue` is the promise chain, its head is the line that is
written, and `at` the file operation that comes next: `stat`, the renames from the oldest file down,
`append`. Each of them may fail, as the code swallows it. `process` follows the shutdown through
drain, flush and exit, or the forced exit; the process may be killed at any time and be started
again over the files it left. `handler` says where a request stands to its log line, and `open`
which connections the shutdown waits for. Most handlers submit their line before they answer, or in
the turn in which their stream ends; an unsafe call that is answered at its deadline submits it only
when its upstream work ends, with no connection needed (`detached`, `captured`). A connection carries
one request. A first start may find the files of an earlier process (`Found`); their lines are
numbered as they stand (`FoundAssumption`), because nothing is known of them but that they were
written in that order.

## What the runs check

| Run | Instance | Result |
| --- | --- | --- |
| `limiter` | 5 callers, 2 slots, 1 patient | all properties hold |
| `retry_loop` | 3 attempts, deadline 3, abort at 5, clock to 8 | all hold |
| `store` | 3 fingerprints, room for 2 entries and 3 bytes, bodies of 1, 2 and 4 bytes, window 1, clock to 2, 2 promises | all hold |
| `unsafe_calls` | 3 calls, each of a single message with parameters, one without, or a batch with a key, 1 slot, room for 1 result | all hold |
| `unsafe_calls_end` | 2 calls on one operation, 2 attempts, event streams, results that expire | the handlers end, under fairness |
| `safe_calls` | up to 3 chunks, a response that takes 1, idle deadline 2, total 4, header deadline 3, clock to 8 | all hold |
| `admission` | one request of every kind for the gates; one call of every kind of body and credential; three calls of one client at once | all hold |
| `summary_log` | 2 requests, a log of 1 line and 2 rotated files, empty or found with 3 lines, up to 6 lines and 2 faults | all hold |
| `body_failure` | as `unsafe_calls_end` | violated: a failure in the body is answered `-32006`, not `-32008` |
| `delivered_replay` | with 3 calls | violated: a collected result is replayed again to a keyless call |
| `lost_generation` | as `unsafe_calls_end` | violated: a result counts as delivered before it is sent |
| `header_deadline` | as `safe_calls` | violated: the abort timer of a safe call cuts a live event stream |

The last four state what the documentation says of the program; `findings` in `PROJECT.json` quotes
it and names the line where the code does otherwise.

Why the bounds are enough. Two calls of one fingerprint are what coalescing, replay and the loss of
a result need; a third call adds a waiter that detaches at another time than the first, a second
operation that evicts the first one's result, and a second caller for the only slot. With one slot
every second work has to queue. With room for one result every put of another operation evicts. A
clock that can take one step past a window of 0 makes every result expire at some point. Five
callers on two slots leave a queue of three, in which a waiter in the middle can time out. Bodies of
1, 2 and 4 bytes against 3 make a put evict by count, by bytes, or be refused.

For a stream, three chunks put one at the client, one in the response and one before the tap. The
header deadline lies between the idle and the total deadline, and the clock goes on to twice the
total, so every deadline can be the first, and the last, to fire. The gates decide every request by
itself, so one request at a time meets every branch of them; what requests share is the bucket, the
token and the counters, for which three calls of one client race: the burst is one request, so the
second waits for a refill, and the clock steps back once between them. The clock goes on to 3 and
the sweep forgets a bucket that is older than 1. A request costs 3, which the rate refills in 3 ticks:
so the sweep gives tokens away, and without `Gain` the bound does not hold. A second gcloud run follows a
failure of the first, or a token that has aged past its `Ttl`. The two rotated files are the fewest
for which a failed rename lets another one overwrite a file; six lines fill all files and lose the
oldest; two faults let a rename and an append fail together.

The three bodies of `unsafe_calls` are all `tools/call`. The single message without parameters and
the batch share a fingerprint, although a safe message stands first in the batch, and one of them has
a key and the other has not; the message with parameters has a fingerprint of its own, which it loses
as soon as the parameters are left out of it.

No symmetry is used where a run checks liveness. `unsafe_calls` uses a view that leaves out the locals
of handlers that ended and of work that settled: no action and none of its properties reads them.

Fairness. Timers fire and callbacks run: that is the event loop. A `fetch` or a body read whose
signal was aborted rejects, as the fetch standard demands. A handler that has its result goes on,
since the log writes it awaits never reject. Nothing is assumed of the upstream or of the clients;
that calls end all the same is what `LoopEnds` and `HandlersEnd` say. For the limiter alone it is
assumed that a task ends, which is what `LoopEnds` shows of the tasks it is given. `CallEnds` needs
more: time passes, and a client that stays reads what it is sent, because no timer of the proxy
bounds a response that is ending. `ShutdownEnds` assumes that a file operation ends, one way or the
other, and that the interval of the shutdown fires. `Admission` states no fairness: nothing in the
code promises that gcloud ends.

Deadlock is not checked where the modelled calls are finite in number and the system rightly stops
(`RetryLoop`, `UnsafeCalls`, `SafeCalls`, `Admission`, `SummaryLog`).

## What is proved

By TLAPS, for all values of the constants that satisfy the assumptions named in the modules: every
safety property that a run checks (state invariants, action properties and type invariants) and the
three refinements, of the limiter, of the store and of the log. Each theorem is
`Spec => []Property` or `Spec => Property`, from an inductive invariant that is at least as strong.

**`UpstreamLimiterProofs`.** The queue is exactly the waiting callers, each once; the counter is the
number of running tasks; a slot is never free beside a queue; nobody overtakes; the limiter
implements `Semaphore`. The inductive invariant is the conjunction of the four state properties: the
counter can only be shown right together with the queue, because `Release` hands the slot to the
head of the queue, which must be a waiter, and must be there once. `QueueIsWaiters` and `SlotsExact`
are stated in the module and proved, and no run checks them separately.

**`RetryLoopProofs`.** An unsafe request leaves the proxy at most once, its unknown outcome is
reported when the loop throws, attempts are bounded, and a safe request is not written after its
client left or timed out. The strengthening says, for every place of the loop, how often the request
can have left by then, and that a safe request whose flags are set has its signal aborted, which is
what stops the attempt after a sleep although the loop does not look at the flags again.

**`IdempotencyStoreProofs`.** Work in flight is found by the next identical call: the invariant is
that property with the types of the two maps, and it holds whatever is stored. For the stored results
the invariant is `LruInv`: one entry to a fingerprint, within the limits, and the order of the
entries is the order of their last use as the callers see it. From it follow `Bounded`, and
`EvictsLeastRecentlyUsed`, because a put removes a prefix of the sequence and a prefix is what was
used least recently. `ImplementsReplayMemory` maps the sequence to a function of fingerprints; a put,
a replay and a sweep are each shown to be one step of the abstract memory. The assumptions are that
bounds and sizes are natural numbers and that `None` is no job, fingerprint or abstract entry.

**`UnsafeCallsProofs`.** One generation of a fingerprint at a time, nobody waits for work that is
over, slots belong to work that is fetching, and an owner whose request left and failed before the
response is not told a plain failure. The invariant `IInv` has three parts. `Tracking` ties the
entries of `inFlight`, the lists of joiners and the places of the handlers to each other: that work
is registered is kept only because what is registered works for its fingerprint, otherwise a promise
that settles could clear the entry of another. `Slots` is the invariant of `UpstreamLimiterProofs`
for the embedded limiter, cited through an instance, with the agreement of `slot` and `phase`.
`Answered` says that written work does not go back to fetching. These parts never look at the stored
results.

The properties of stored results rest on a second invariant over the first, `Keeping`: whoever
started work awaits it to its end (`OwnersWait`), an entry and an answer come from a call of the same
fingerprint (`Sources`), an entry counts as delivered only if a handler with a client had its result,
and what ended well is in the store or was dropped (`Deliveries`). This gives `DetachedResultIsKept`,
`KeyedRetryReplays` and `ParamsAreAnswered`.

`ParamsAreAnswered` follows from `Sources`, since fingerprints that are equal have equal API keys, and
with parameters in them come from single messages, whose method and parameters are all there is.
Nothing is assumed of the bodies but their shape (`AskedAssumption`) and that all of them are unsafe,
or they would not be here. Without parameters the code confuses operations (see below), so no more
can be proved. `CallsAssumption` says that calls are finitely many, that requests ask for operations,
and that sizes and limits are natural numbers.

**`SafeCallsProofs`.** A stream that is not counted as an error reached its client whole, a response
that ends cleanly is whole unless a stream deadline cut it, and no upstream connection outlives its
call, for any number of chunks and any deadlines. `EndIsEarned` is the centre of the invariant: while
a pipeline runs, its response is ended only because the body was read to its end or because a
deadline has fired. `StreamAssumption` and `CallAssumption` say that the constants are natural
numbers and that the response takes at least one chunk.

**`AdmissionProofs`.** For the buckets alone: in no interval is a client admitted more often than the
burst and the refill of that interval allow, plus what the sweep gave away, for any clock that steps
back and any rate, burst and age. The invariant bounds what was admitted plus what is left in the
bucket by the time of the last check. A bucket is forgotten only after more than `MaxAge`, for which
the old one would have been refilled; `Gain` is what a full one has more than that. It is nothing
where the rate fills the burst within the age, as with the defaults.
`RouterBoundsBursts` carries the bound over to the router with all its steps, each of which is a step
of the buckets or leaves them alone.

Only the trusted are served; at most one gcloud process runs and whoever waits joins a running one: a
handler past its first turn has passed the gates, and one that waits for a token brought no key. An
error answer has the ids of the whole body, for bodies of any length, because the body is read once
and the answer takes its ids from what was read (`BodyInv`). A verdict is never safer than the
reference `ReadsOnly`: the verdict of a batch is that of its first message that may write, if it has
one (`VerdictIsTheUnsafeOne`), for a batch of any length. A request is
counted once, and the counters by status add up: the totals equal the number of requests whose place
says that they were counted, and a step of a handler adds itself to that set and one to the sum. The
theorem about the trusted assumes that `CORS_ORIGIN` is empty and `TRUST_PROXY` is off;
`AdmissionAssumption` says that requests carry keys in the three known headers, come from an address,
and bring a sequence of messages, and that requests are finitely many.

**`SummaryLogProofs`.** The lines in the files and in the queue are in the order of submission, and
unless a rename has failed a rotation finds the place empty to which it moves a file, but for that of
the oldest (`Ordered`, `Pending`, `Rotation`). The line of a request whose handler has submitted it
is queued, in a file, lost by a failing append, older than everything in the files, or a rename has
failed (`Accounted`); after the drain nobody else is answered (`Flushed`). `AnsweredLinesSurvive`
follows, since at a clean exit nothing up to the flushed line is queued. It exempts a call that was
answered at its deadline and whose work ended after the last connection was gone (`OutlivesItsClient`):
its line is not there to be flushed, and is lost (see below). For `ImplementsLineLog`, the
content of all files is one sequence joined from them; an append, an unlink and a rename change two
neighbouring parts of it at most, so they append at its end, take a prefix off, or, after a failed
rename, take a stretch out of the middle. This holds for any number of files, any sizes, and faults,
kills and restarts in any order. `LogAssumption` and `FoundAssumption` say that there is at least one
rotated file and that a first start finds lines in order.

`Facts` holds what these proofs share. The provers cannot instantiate a theorem that takes a
predicate, so the induction theorems of the library cannot be used directly: `Facts` states induction
for sets of numbers, and that a recursive function exists for a step that is itself a function;
the folds, the filter and the flattened sequences of the models are shown to be such functions, and
their properties follow by induction over the length. `AdmissionProofs` and `SummaryLogProofs` take
`Facts` as an instance, because they have no store: its bounds are given values, and no fact about
them is used.

Only model-checked: liveness (`PatientGetsSlot`, `LoopEnds`, `HandlersEnd`, `CallEnds`,
`ShutdownEnds`). These properties rest on fairness, and so on `ENABLED`, which is out of the provers'
reach; the safety part of their arguments (nobody waits for work that is over, slots belong to work
that is fetching, the limiter is first come first served) is proved.

## Where the code and its description differ

Four differences have a run of their own (above). Others were seen while modelling and have none:

* A result that arrives between the two timers of the response deadline (`index.js:3241` and
  `:3420`) finds `orphaned` set, is stored, and its client gets no answer: the connection stays open
  until the client leaves. `HandlersEnd` still holds, because the handler itself ends.
* `store.js:22` says that a result is only replayed for "the same method and the same canonical
  parameters". An array and a body that was not parsed have no `params` (`index.js:3135`), and the
  method of a batch is that of its first unsafe message. So batches with one first unsafe method are
  confused with each other and with a single message of that method without parameters, and so are all
  bodies that are no JSON (method `unknown`), whatever their text: one is coalesced into another, or
  answered with its result. `ParamsAreAnswered` says, and its theorem proves, what is left of the
  promise: never across API keys, and never for a call that has parameters.
* A handler that started the work puts its result a second time after it has awaited its log lines
  (`index.js:3651`). If an identical keyless call meanwhile started a generation, lost its client and
  ended, that put replaces its result, which nobody has received, by the older one. This is another
  way to violate `NeverLosesAGeneration`.
* The comment at `index.js:4196` says that the queue is flushed "or the last request's line is lost on
  every restart". An unsafe call that is answered 504 at its deadline submits its only line when its
  upstream work ends (`index.js:3381-3397`). When its client closes before that, the shutdown finds no
  connection, flushes and exits, and the line is lost. `AnsweredLinesSurvive` exempts these calls.
* The comment at `index.js:3540` says that a truncated stream "must not look like a clean end". In the
  metrics and the log it does not (`TruncationIsReported`). On the wire it does where a stream deadline
  cut it, as ADR 0004 decides ("A deadline ends the response, it does not abort the socket"), and
  `CleanEndIsWhole` exempts those deadlines.
* The sweep forgets a bucket after a fixed 300 s (`index.js:1088`). With a burst that the rate does not
  refill in that time (rate 1, burst 1000) a client that pauses that long gets a full bucket instead of
  the refill. `BurstBounded` allows for it by `Gain`.
* ADR 0005:53-54 says that `CORS_ORIGIN` widens what is allowed; a single origin narrows it, and
  requests without an `Origin` header are refused too. The theorem about the trusted therefore
  assumes that it is empty.
* ADR 0005 counts `/health` to the public part; it is among the paths for local clients only.
* A body that crosses the size limit is refused with its ids (`README.md:133`) only if the chunk
  that crosses it also completes the body.
* `README.md:361` says that `errors_total` counts 5xx; it counts refused calls with 4xx as well, and
  `rate_limited_total` counts refused origins. A 503 for a full queue is neither counted nor logged,
  and a client body that breaks off is counted as a 502.
* The `Retry-After` of a 429 is always one second.
* A name without dots is allowed as a `Host` and not as an `Origin`; a `Host` in the form
  `[::ffff:a.b.c.d]` is refused as malformed.
* `annotateToolsList` overwrites a `destructiveHint` of the upstream when its `readOnlyHint` is
  missing.
* Lines that handlers of departed clients submit after the flush of a shutdown began are lost;
  nobody is answered after that.

## What is not modelled, and the plan

Done: limiter, retry loop, store, unsafe calls; stream pipeline and safe calls; the front of the
router with rate limit, policies, credentials, token cache, classification and ids; summary log and
shutdown.

Not modelled, with the reason:

* `readSummaryLogLines` and the log views read files at one moment, and nothing depends on them.
* `rewriteJsonRpcId` and `parseJsonRpcMetadata`: `UnsafeCalls` abstracts from ids, and the metadata
  only goes into log lines.
* Latency buckets, counters by method and their rendering: nothing reads them back.
* Environment parsing and the server factory run once at start; their values are the constants.
* The detailed debug logs, HTML views, the handler of `clientError`, and `scripts/live-probe.js`
  keep no state that others depend on.
* A wall clock that jumps forward fills the buckets for the jump; only steps back are modelled.
* Connections that are kept alive for several requests.
* A gcloud process that hangs: it has no timeout, so every call without a key then waits for ever.
  `GcloudIsShared` says that they wait for one process, and no property says that they end.

What is left of the plan: the replay of bodies under another id (`rewriteJsonRpcId`), and, of the
proofs, shorter arguments where two modules repeat one.
