---------------------------- MODULE ReplayMemory ----------------------------
(***************************************************************************)
(* What the result store promises: a memory of the last result of each     *)
(* operation that may lose any result at any time, but never replays one   *)
(* past its window, nor one a client already has to a caller who asked for *)
(* no idempotency.  IdempotencyStore is shown to implement it.             *)
(***************************************************************************)
EXTENDS Integers

CONSTANTS Fps, Gens, Window, None

VARIABLES memory,    \* the result remembered for each operation, or None
          clock,
          replayed   \* the replay the last step made, with the caller's key, or None

vars == <<memory, clock, replayed>>

Init == memory = [f \in Fps |-> None] /\ clock = 0 /\ replayed = None

\* Some of the results may be lost in any step.
LosesAtMost(m) == \A f \in Fps : memory'[f] \in {m[f], None}

Remember(f, g, key, told) ==
  /\ replayed' = None /\ UNCHANGED clock
  /\ LosesAtMost([memory EXCEPT ![f] =
                    [gen |-> g, at |-> clock, told |-> told, key |-> key]])

Replay(f, key) ==
  /\ memory[f] # None /\ memory'[f] = memory[f]
  /\ replayed' = [fp |-> f, gen |-> memory[f].gen, key |-> key]
  /\ clock - memory[f].at <= Window
  /\ memory[f].told => key \/ memory[f].key
  /\ LosesAtMost(memory) /\ UNCHANGED clock

Tell(f) ==
  /\ replayed' = None /\ UNCHANGED clock
  /\ memory[f] # None
  /\ memory' = [memory EXCEPT ![f].told = TRUE]

Lose == replayed' = None /\ UNCHANGED clock /\ LosesAtMost(memory)

Tick == clock' = clock + 1 /\ replayed' = None /\ UNCHANGED memory

Next ==
  \/ Lose \/ Tick
  \/ \E f \in Fps :
       \/ \E g \in Gens, key, told \in BOOLEAN : Remember(f, g, key, told)
       \/ \E key \in BOOLEAN : Replay(f, key)
       \/ Tell(f)

Spec == Init /\ [][Next]_vars
=============================================================================
