--------------------------- MODULE MCUnsafeCalls ---------------------------
(* Calls are alike.  The view leaves out what is dead: the locals of a     *)
(* handler that ended and of work that settled.                            *)
EXTENDS UnsafeCalls
CONSTANTS o1, bare, batch

\* A call with parameters, one without, and a batch: the last two share a fingerprint.
Call(tool, arguments) == [method |-> "tools/call", tool |-> tool, arguments |-> arguments]
Body(array, messages) == [apiKey |-> "k1", array |-> array, messages |-> messages]
Generate == Call("generate_variants", "a1")
Look == Call("list_screens", "a1")

MCAsked ==
     (o1 :> Body(FALSE, <<Generate>>))
  @@ (bare :> Body(FALSE, <<Call(None, None)>>))
  @@ (batch :> Body(TRUE, <<Look, Generate>>))

OneOperation == [op : {o1}, key : BOOLEAN]
ThreeBodies == [op : {o1, bare}, key : {FALSE}] \cup [op : {batch}, key : {TRUE}]

Symmetry == Permutations(Calls)

Settled(c) == ~Working(c)
Over(c) == pc[c] = "done" /\ Settled(c)

Local(f, dead(_)) == [c \in Calls |-> IF dead(c) THEN FALSE ELSE f[c]]

View ==
  <<request, reply, pc, gen, phase, joiners, storeVars, limiterVars, historyVars,
    Local(open, Over), Local(timedOut, Over), Local(orphaned, Over),
    Local(aborted, Settled), Local(outcomeUnknown, Settled),
    [c \in Calls |-> IF Settled(c) THEN 0 ELSE attempt[c]],
    [c \in Calls |-> IF \E h \in Calls : gen[h] = c /\ pc[h] \in {"relaying", "finishing", "streaming"}
                     THEN body[c] ELSE None]>>
=============================================================================
