----------------------------- MODULE Semaphore -----------------------------
(***************************************************************************)
(* What a bounded semaphore promises its callers, with no counter and no   *)
(* queue: a set of callers that hold a slot and a set that waits for one.  *)
(* UpstreamLimiter (src/src/upstream/limiter.js) is shown to implement it. *)
(***************************************************************************)
EXTENDS Naturals, FiniteSets

CONSTANTS Tasks,  \* the callers of run()
          Limit   \* how many may hold a slot at once; 0 means any number

VARIABLES holders, waiting

vars == <<holders, waiting>>

HasRoom == Limit = 0 \/ Cardinality(holders) < Limit

Init == holders = {} /\ waiting = {}

\* A caller gets a slot at once when there is one, and only waits when there is none.
Enter(t) ==
  /\ t \notin holders \cup waiting
  /\ \/ HasRoom  /\ holders' = holders \cup {t} /\ UNCHANGED waiting
     \/ ~HasRoom /\ waiting' = waiting \cup {t} /\ UNCHANGED holders

\* A slot that becomes free passes to one waiter in the same step, if there is a waiter.
Leave(t) ==
  /\ t \in holders
  /\ \/ waiting = {} /\ holders' = holders \ {t} /\ UNCHANGED waiting
     \/ \E w \in waiting : /\ holders' = (holders \ {t}) \cup {w}
                           /\ waiting' = waiting \ {w}

GiveUp(t) == t \in waiting /\ waiting' = waiting \ {t} /\ UNCHANGED holders

Next == \E t \in Tasks : Enter(t) \/ Leave(t) \/ GiveUp(t)

Spec == Init /\ [][Next]_vars
=============================================================================
