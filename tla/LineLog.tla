------------------------------- MODULE LineLog -------------------------------
(***************************************************************************)
(* What the summary log promises: lines appear in the order in which they  *)
(* were submitted, each at most once, and what goes is the oldest.  Only   *)
(* after a rename has failed may a rotation lose lines in the middle.      *)
(***************************************************************************)
EXTENDS Integers, Sequences

VARIABLES lines,   \* all lines that can still be read, oldest first; numbered as submitted
          last,    \* the last line that was appended
          damaged  \* a rename has failed

logVars == <<lines, last, damaged>>

LogInit == damaged = FALSE

AppendLine ==
  /\ last' > last /\ lines' = Append(lines, last')
  /\ UNCHANGED damaged

DropOldest ==
  /\ \E n \in 1..Len(lines) : lines' = SubSeq(lines, n + 1, Len(lines))
  /\ UNCHANGED <<last, damaged>>

Damage == damaged' = TRUE /\ UNCHANGED <<lines, last>>

\* One stretch of lines is overwritten.
LoseInTheMiddle ==
  /\ damaged
  /\ \E j \in 1..Len(lines) : \E i \in 1..j :
       lines' = SubSeq(lines, 1, i - 1) \o SubSeq(lines, j + 1, Len(lines))
  /\ UNCHANGED <<last, damaged>>

LogNext == AppendLine \/ DropOldest \/ Damage \/ LoseInTheMiddle

LogSpec == LogInit /\ [][LogNext]_logVars
=============================================================================
