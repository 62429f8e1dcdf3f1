------------------------------ MODULE Admission ------------------------------
(***************************************************************************)
(* The front of routeRequest (src/index.js): everything a request passes   *)
(* before it goes to Stitch.  The policies and the rate limit are applied  *)
(* in one turn; then the handler waits for the body and, if need be, for a *)
(* gcloud token, while other requests arrive.                              *)
(*                                                                         *)
(* A request that is "forwarded" continues in UnsafeCalls or SafeCalls.    *)
(* The waits for the log are left out: an answer is sent in the step that  *)
(* counts it.                                                              *)
(***************************************************************************)
EXTENDS RateLimit, FiniteSets, SequencesExt

CONSTANTS Slots,
          Workloads,  \* what may be sent to which process: records of `calls`, which has a request
                      \* or None for every slot, and `settings`
          Malformed,
          CorsOrigin, AnyOrigin, AllowedOrigins, AllowedHosts, AllowAllHosts, TrustProxy,
          SafeToolsCsv, UnsafeToolsCsv, LocalFallbackMethods,
          LogViewerEnabled, EnvProject,
          Ttl, MaxRuns

VARIABLES call,        \* the request of a slot, None if there is none
          settings,    \* of the process: envKey, gcloudFallback
          pc,          \* where its handler stands
          seen,        \* the body the handler has read
          credential,  \* what it uses
          verdict,     \* its classification
          answer,      \* what it answered
          joined,      \* the gcloud run it waits for
          failed,      \* the gcloud runs that failed
          metrics,
          warned,      \* warnings.noProjectId
          token, fetchedAt, pending, running, runs

Policy == INSTANCE Policies
Class == INSTANCE Classification
Rpc == INSTANCE JsonRpc
Gcloud == INSTANCE TokenCache

Credentials == {"basic", "x", "stitch", "env", "gcloud"}
KeyHeaders == {"basic", "x", "stitch"}

Refusals == [status : Nat, counted : {"not", "limited", "request", "error"}]

ASSUME AdmissionAssumption ==
  /\ None \notin Credentials /\ None \notin Nat /\ None \notin Refusals
  /\ IsFiniteSet(Slots) /\ MaxRuns \in Nat
  /\ None \notin SafeToolsCsv \cup Class!SAFE_TOOLS
  /\ \A w \in Workloads :
       /\ w.settings \in [envKey : BOOLEAN, gcloudFallback : BOOLEAN]
       /\ \A s \in Slots : w.calls[s] # None =>
            /\ w.calls[s].keys \subseteq KeyHeaders /\ Policy!ClientAddress(w.calls[s]) \in Ips
            /\ w.calls[s].peer.form # "name"
            /\ LET messages == w.calls[s].body.messages IN messages \in Seq(ToSet(messages))

tokenVars == <<token, fetchedAt, pending, running, runs, failed>>
workload == <<call, settings>>
handlerVars == <<workload, pc, seen, credential, verdict, answer, joined, warned>>
vars == <<rateVars, tokenVars, handlerVars, metrics>>

Places == {"new", "limited", "reading", "token", "forwarded", "answered"}
Statuses == {200, 202, 204, 400, 401, 403, 404, 405, 413, 429, 500, 502}
Metrics == [requestsTotal : Nat, errorsTotal : Nat, rateLimitedTotal : Nat,
            byStatus : [Statuses -> Nat]]

TypeOK ==
  /\ RateTypeOK /\ Gcloud!TokenTypeOK
  /\ pc \in [Slots -> Places]
  /\ credential \in [Slots -> Credentials \cup {None}]
  /\ \A s \in Slots : pc[s] = "answered" => answer[s].status \in Statuses
  /\ joined \in [Slots -> 1..MaxRuns \cup {None}] /\ failed \subseteq 1..MaxRuns
  /\ metrics \in Metrics
  /\ settings \in [envKey : BOOLEAN, gcloudFallback : BOOLEAN]
  /\ warned \in BOOLEAN

Init ==
  /\ RateInit /\ Gcloud!TokenInit /\ failed = {}
  /\ \E w \in Workloads : call = w.calls /\ settings = w.settings
  /\ pc = [s \in Slots |-> "new"]
  /\ seen = [s \in Slots |-> Rpc!Empty]
  /\ credential = [s \in Slots |-> None] /\ verdict = [s \in Slots |-> None]
  /\ answer = [s \in Slots |-> None] /\ joined = [s \in Slots |-> None]
  /\ metrics = [requestsTotal |-> 0, errorsTotal |-> 0, rateLimitedTotal |-> 0,
                byStatus |-> [st \in Statuses |-> 0]]
  /\ warned = FALSE

-----------------------------------------------------------------------------
(* Answers and counters *)

\* recordMetrics, without the latencies.
Recorded(status, isError) ==
  [metrics EXCEPT !.requestsTotal = @ + 1,
                  !.byStatus[status] = @ + 1,
                  !.errorsTotal = @ + IF isError THEN 1 ELSE 0]

RateLimited == [metrics EXCEPT !.rateLimitedTotal = @ + 1]

\* A mistake: the code of the error goes out as the status of the answer.
AnswersByCode(s, status, ids) ==
  /\ pc' = [pc EXCEPT ![s] = "answered"]
  /\ answer' = [answer EXCEPT ![s] = [status |-> IF status = 429 THEN -32002 ELSE status,
                                     ids |-> Rpc!ErrorIds(ids)]]

Answers(s, status, ids) ==
  /\ pc' = [pc EXCEPT ![s] = "answered"]
  /\ answer' = [answer EXCEPT ![s] = [status |-> status, ids |-> Rpc!ErrorIds(ids)]]

-----------------------------------------------------------------------------
(* The first turn *)

LogViewerPaths == {"/logs", "/api/logs", "/api/logs/summary"}

SensitivePaths == LogViewerPaths \cup {"/metrics", "/health"}

\* The pages, which read the state of the router and do not change it.
Pages ==
  ({"/metrics", "/health", "/instructions"} \X {"GET", "HEAD"})
  \cup ((LogViewerPaths \cup {"/auth", "/.well-known/oauth-protected-resource",
                              "/.well-known/openid-configuration"}) \X {"GET"})
  \cup {<<"/token", "POST">>}

PageStatus(r) ==
  IF <<r.path, r.method>> \in Pages /\ (r.path \in LogViewerPaths => LogViewerEnabled)
  THEN 200 ELSE 404

Refusal(status, counted) == [status |-> status, counted |-> counted]

\* A mistake: the pages are served before the test for local clients.
GateServesPagesFirst(r) ==
  IF r.method = "OPTIONS"
  THEN Refusal(IF r.path = "/mcp" /\ ~Policy!EvaluateOrigin(r.origin).allowed THEN 403 ELSE 204, "not")
  ELSE IF r.path = Malformed THEN Refusal(400, "not")
  ELSE IF Policy!MalformedHost(r.host) THEN Refusal(400, "error")
  ELSE IF ~Policy!HostAllowed(r.host) THEN Refusal(403, "error")
  ELSE IF r.path # "/mcp" THEN Refusal(PageStatus(r), "not")
  ELSE IF r.method # "POST" THEN Refusal(405, "request")
  ELSE IF ~Policy!EvaluateOrigin(r.origin).allowed THEN Refusal(403, "limited")
  ELSE None

\* What is answered at once, and how it is counted; None: the request goes on to the rate limit.
Gate(r) ==
  IF r.method = "OPTIONS"
  THEN Refusal(IF r.path = "/mcp" /\ ~Policy!EvaluateOrigin(r.origin).allowed THEN 403 ELSE 204, "not")
  ELSE IF r.path = Malformed THEN Refusal(400, "not")
  ELSE IF Policy!MalformedHost(r.host) THEN Refusal(400, "error")
  ELSE IF ~Policy!HostAllowed(r.host) THEN Refusal(403, "error")
  ELSE IF r.path \in SensitivePaths /\ ~Policy!IsLocalClient(r) THEN Refusal(403, "not")
  ELSE IF r.path # "/mcp" THEN Refusal(PageStatus(r), "not")
  ELSE IF r.method # "POST" THEN Refusal(405, "request")
  ELSE IF ~Policy!EvaluateOrigin(r.origin).allowed THEN Refusal(403, "limited")
  ELSE None

New(s) == pc[s] = "new" /\ call[s] # None

GateAnswers(s) ==
  LET gate == Gate(call[s])
  IN  /\ New(s) /\ gate # None
      /\ Answers(s, gate.status, <<>>)
      /\ metrics' = CASE gate.counted = "not" -> metrics
                      [] gate.counted = "limited" -> RateLimited
                      [] OTHER -> Recorded(gate.status, gate.counted = "error")
      /\ UNCHANGED <<rateVars, tokenVars, workload, seen, credential, verdict, joined, warned>>

\* The handler takes a token of the client's bucket and begins to read the body, if only to echo
\* the ids in a 429.
Limits(s) ==
  LET client == Policy!ClientAddress(call[s])
  IN  /\ New(s) /\ Gate(call[s]) = None
      /\ CheckRateLimit(client)
      /\ pc' = [pc EXCEPT ![s] = IF Passes(client) THEN "reading" ELSE "limited"]
      /\ metrics' = IF Passes(client) THEN metrics ELSE RateLimited
      /\ UNCHANGED <<tokenVars, workload, seen, credential, verdict, answer, joined, warned>>

-----------------------------------------------------------------------------
(* The body *)

\* What the reader has when it stops: all of the body, or, past the limit, a prefix that is no
\* JSON unless the chunk that crossed the limit was the last one.
Read(r) == IF r.fits THEN {r.body} ELSE {r.body, Rpc!Garbage}

LimitedBody(s) ==
  /\ pc[s] = "limited"
  /\ \E body \in Read(call[s]) :
       /\ seen' = [seen EXCEPT ![s] = body]
       /\ Answers(s, 429, Rpc!ExtractIds(body))
  /\ UNCHANGED <<rateVars, tokenVars, workload, credential, verdict, joined, metrics, warned>>

TooLarge(s) ==
  /\ pc[s] = "reading" /\ ~call[s].fits
  /\ \E body \in Read(call[s]) :
       /\ seen' = [seen EXCEPT ![s] = body]
       /\ Answers(s, 413, Rpc!ExtractIds(body))
  /\ metrics' = Recorded(413, TRUE)
  /\ UNCHANGED <<rateVars, tokenVars, workload, credential, verdict, joined, warned>>

\* A mistake: a call that was counted as refused is counted again when its body breaks.
BodyBreaksCounts(s) ==
  /\ pc[s] \in {"reading", "limited"}
  /\ Answers(s, IF pc[s] = "limited" THEN 500 ELSE 502, <<>>)
  /\ metrics' = Recorded(502, TRUE)
  /\ UNCHANGED <<rateVars, tokenVars, workload, seen, credential, verdict, joined, warned>>

\* The connection closes in the body.  The reader throws: into the catch block, which counts a
\* 502, or past it into handleRequest, which counts nothing.
BodyBreaks(s) ==
  /\ pc[s] \in {"reading", "limited"}
  /\ LET limited == pc[s] = "limited"
     IN  /\ Answers(s, IF limited THEN 500 ELSE 502, <<>>)
         /\ metrics' = IF limited THEN metrics ELSE Recorded(502, TRUE)
  /\ UNCHANGED <<rateVars, tokenVars, workload, seen, credential, verdict, joined, warned>>

-----------------------------------------------------------------------------
(* Credentials, classification and the local answers *)

\* Later headers win over earlier ones and over the environment.  (That no foreign origin gets
\* here with the key of the environment is tested once more; Gate has refused it.)
KeyOf(r) ==
  IF "basic" \in r.keys THEN "basic"
  ELSE IF "x" \in r.keys THEN "x"
  ELSE IF "stitch" \in r.keys THEN "stitch"
  ELSE IF settings.envKey THEN "env" ELSE None

Warns(body) == warned' = (warned \/ (Rpc!ExtractProjectId(body) = None /\ ~EnvProject))

\* From the classification on: answered locally, or handed on with its verdict.
Proceeds(s, body, cred) ==
  LET fallback == Rpc!LocalFallback(body, LocalFallbackMethods)
  IN  /\ credential' = [credential EXCEPT ![s] = cred]
      /\ verdict' = [verdict EXCEPT ![s] = Class!ClassifyRequest(body.messages)]
      /\ \/ /\ fallback = "forward"
            /\ pc' = [pc EXCEPT ![s] = "forwarded"]
            /\ UNCHANGED <<answer, metrics>>
         \/ /\ fallback # "forward"
            /\ LET status == IF fallback = "result" THEN 200 ELSE 202
               IN  Answers(s, status, Rpc!ExtractIds(body)) /\ metrics' = Recorded(status, FALSE)

\* A mistake: the refusal does not look at the body.
RefusesWithoutIds(s, body) == Answers(s, 401, <<>>) /\ metrics' = Recorded(401, TRUE)

RefusesUnauthorized(s, body) ==
  Answers(s, 401, Rpc!ExtractIds(body)) /\ metrics' = Recorded(401, TRUE)

Reads(s) ==
  /\ pc[s] = "reading" /\ call[s].fits
  /\ seen' = [seen EXCEPT ![s] = call[s].body]

Unauthorized(s) ==
  /\ Reads(s) /\ KeyOf(call[s]) = None /\ ~settings.gcloudFallback
  /\ RefusesUnauthorized(s, call[s].body)
  /\ UNCHANGED <<rateVars, tokenVars, workload, credential, verdict, joined, warned>>

WithKey(s) ==
  /\ Reads(s) /\ KeyOf(call[s]) # None
  /\ Warns(call[s].body)
  /\ Proceeds(s, call[s].body, KeyOf(call[s]))
  /\ UNCHANGED <<rateVars, tokenVars, workload, joined>>

WithCachedToken(s) ==
  /\ Reads(s) /\ KeyOf(call[s]) = None /\ settings.gcloudFallback
  /\ Gcloud!TokenIsCached(wall)
  /\ Warns(call[s].body)
  /\ Proceeds(s, call[s].body, "gcloud")
  /\ UNCHANGED <<rateVars, tokenVars, workload, joined>>

WaitsForToken(s) ==
  /\ Reads(s) /\ KeyOf(call[s]) = None /\ settings.gcloudFallback
  /\ \E run \in 1..MaxRuns :
       /\ Gcloud!AwaitsToken(wall, run)
       /\ joined' = [joined EXCEPT ![s] = run]
  /\ pc' = [pc EXCEPT ![s] = "token"]
  /\ Warns(call[s].body)
  /\ UNCHANGED <<rateVars, failed, workload, credential, verdict, answer, metrics>>

GcloudExits ==
  /\ \E run \in running, ok \in BOOLEAN :
       /\ Gcloud!GcloudEnds(run, ok, wall)
       /\ failed' = IF ok THEN failed ELSE failed \cup {run}
  /\ UNCHANGED <<rateVars, handlerVars, metrics>>

\* The promise settles.  Whether the client is still there is not looked at: the close handler
\* is attached later.
TokenSettles(s) ==
  /\ pc[s] = "token" /\ joined[s] \notin running
  /\ \/ /\ joined[s] \in failed
        /\ Answers(s, 502, Rpc!ExtractIds(seen[s]))
        /\ metrics' = Recorded(502, TRUE)
        /\ UNCHANGED <<credential, verdict>>
     \/ joined[s] \notin failed /\ Proceeds(s, seen[s], "gcloud")
  /\ UNCHANGED <<rateVars, tokenVars, workload, seen, joined, warned>>

-----------------------------------------------------------------------------

Handler(s) ==
  \/ GateAnswers(s) \/ Limits(s) \/ LimitedBody(s) \/ TooLarge(s) \/ BodyBreaks(s)
  \/ Unauthorized(s) \/ WithKey(s) \/ WithCachedToken(s) \/ WaitsForToken(s) \/ TokenSettles(s)

Environment ==
  /\ \/ SweepBuckets \/ ClockTicks \/ StartObserving
     \/ \E d \in Steps : ClockStepsBack(d)
  /\ UNCHANGED <<tokenVars, handlerVars, metrics>>

Next == (\E s \in Slots : Handler(s)) \/ GcloudExits \/ Environment

Spec == Init /\ [][Next]_vars

-----------------------------------------------------------------------------
(* Properties *)

LanOrigin(origin) == origin = None \/ origin \in AllowedOrigins \/ Policy!OriginAllowedByDefault(origin)

Served(s) == pc[s] = "forwarded" \/ (pc[s] = "answered" /\ answer[s].status \in {200, 202})

\* The answer to a foreign origin is not readable for its page.  Whoever is served came with a
\* host of the local network; on /mcp also without an origin or with one of the local network,
\* and for logs, metrics and health from it.  The proxy's own credentials are spent only for a
\* call that brought none (ADR 0005; the order of the gates in routeRequest is deliberate, and
\* so is the precedence of the credentials).
OnlyTheTrustedAreServed ==
  \A s \in Slots : call[s] # None =>
    LET r == call[s]
    IN  /\ Policy!CorsGrant(r.origin) = "reflected" => LanOrigin(r.origin)
        /\ Served(s) =>
             /\ Policy!HostAllowed(r.host)
             /\ r.path = "/mcp" => LanOrigin(r.origin)
             /\ r.path \in SensitivePaths => Policy!IsPrivateAddress(r.peer)
             /\ credential[s] \in {"env", "gcloud"} => r.keys = {}

\* Every error answer to a call whose body was read carries the ids of all its messages, and
\* nothing else, so that each pending call of the client is resolved (finding P2).
EveryIdIsEchoed ==
  \A s \in Slots :
    pc[s] = "answered" /\ answer[s].status \in {401, 413, 429, 502} /\ seen[s] # Rpc!Empty =>
      ToSet(answer[s].ids) \ {None} = {seen[s].messages[i].id : i \in DOMAIN seen[s].messages} \ {None}

\* A call is "safe" only if every one of its messages only reads, and a tool is annotated as
\* read-only only if it is one whose calls are (ADR 0003: fail closed, also for batches).
VerdictIsConservative ==
  \A s \in Slots : verdict[s] # None =>
    LET messages == seen[s].messages
        unannotated == [readOnlyHint |-> None, destructiveHint |-> None]
    IN  /\ verdict[s].safe <=>
             messages # <<>> /\ \A i \in DOMAIN messages : Class!ReadsOnly(messages[i])
        /\ \A i \in DOMAIN messages : messages[i].method = "tools/call" =>
             (Class!AnnotateTool(messages[i].tool, unannotated).readOnlyHint
                <=> Class!ReadsOnly(messages[i]))

\* The requests that the metrics are about: those for /mcp, and those refused for their host.
Counts(s) ==
  /\ call[s] # None /\ pc[s] \in {"answered", "limited"}
  /\ call[s].method # "OPTIONS" /\ call[s].path # Malformed
  /\ call[s].path = "/mcp" \/ Policy!MalformedHost(call[s].host) \/ ~Policy!HostAllowed(call[s].host)

\* Each of them is counted exactly once, as a request or as refused, whatever fails after it was
\* counted, and the counters by status add up (recordMetrics).
EveryCallCountsOnce ==
  /\ metrics.requestsTotal + metrics.rateLimitedTotal = Cardinality({s \in Slots : Counts(s)})
  /\ metrics.requestsTotal = MapThenSumSet(LAMBDA st : metrics.byStatus[st], Statuses)

\* At most one gcloud process runs, and a caller that has to wait joins one that is running: it
\* never inherits the failure of one that has ended (getCachedToken).
GcloudIsShared ==
  [][/\ Cardinality(running') <= 1
     /\ \A s \in Slots : pc[s] # "token" /\ pc'[s] = "token" => joined'[s] \in running']_vars
=============================================================================
