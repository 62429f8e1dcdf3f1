------------------------------ MODULE TokenCache ------------------------------
(***************************************************************************)
(* getCachedToken and getAccessToken of src/index.js: one gcloud process   *)
(* for all callers that need a token at the same time, its token kept for  *)
(* Ttl.  gcloud runs are numbered, and a token is known by its run.        *)
(***************************************************************************)
EXTENDS Integers

CONSTANTS Ttl, MaxRuns,  \* the bound on gcloud runs
          None

VARIABLES token,      \* cache.value: the run that issued it, None before
          fetchedAt,  \* cache.fetchedAt
          pending,    \* cache.pending: the run whose promise it is, None if there is none
          running,    \* the gcloud processes that are running
          runs        \* how many were started

tokenVars == <<token, fetchedAt, pending, running, runs>>

TokenTypeOK ==
  /\ token \in 1..MaxRuns \cup {None} /\ fetchedAt \in Int
  /\ pending \in 1..MaxRuns \cup {None}
  /\ running \subseteq 1..MaxRuns /\ runs \in 0..MaxRuns

TokenInit ==
  /\ token = None /\ fetchedAt = 0 /\ pending = None
  /\ running = {} /\ runs = 0

TokenIsCached(now) == token # None /\ now - fetchedAt <= Ttl

\* A mistake: nobody looks at cache.pending.
StartsOwnGcloud(now, run) ==
  /\ ~TokenIsCached(now)
  /\ runs < MaxRuns
  /\ run = runs + 1
  /\ runs' = run /\ running' = running \cup {run} /\ pending' = run
  /\ UNCHANGED <<token, fetchedAt>>

\* The caller waits for `run`: the one that is pending, or a new one.
AwaitsToken(now, run) ==
  /\ ~TokenIsCached(now)
  /\ \/ run = pending /\ UNCHANGED tokenVars
     \/ /\ pending = None /\ runs < MaxRuns
        /\ run = runs + 1
        /\ runs' = run /\ running' = running \cup {run} /\ pending' = run
        /\ UNCHANGED <<token, fetchedAt>>

\* A mistake: a failed run stays pending.
GcloudEndsPending(run, ok, now) ==
  /\ run \in running
  /\ running' = running \ {run}
  /\ IF ok THEN token' = run /\ fetchedAt' = now /\ pending' = None
     ELSE UNCHANGED <<token, fetchedAt, pending>>
  /\ UNCHANGED runs

\* gcloud prints a token or fails; its promise settles in the same turn, and is cleared.
GcloudEnds(run, ok, now) ==
  /\ run \in running
  /\ running' = running \ {run}
  /\ pending' = None
  /\ IF ok THEN token' = run /\ fetchedAt' = now ELSE UNCHANGED <<token, fetchedAt>>
  /\ UNCHANGED runs
=============================================================================
