----------------------------- MODULE Subsequence -----------------------------
(***************************************************************************)
(* What Array.prototype.filter and the deletions from a Map leave behind.  *)
(* SelectSeq takes an operator and its definition cannot be expanded in a  *)
(* proof; this one takes the set of the elements that stay.                *)
(***************************************************************************)
EXTENDS Integers, SequencesExt

\* The elements of s that are in kept, in their order.
Only(s, kept) ==
  LET only[i \in 0..Len(s)] ==
        IF i = 0 THEN <<>>
        ELSE IF s[i] \in kept THEN Append(only[i - 1], s[i]) ELSE only[i - 1]
  IN  only[Len(s)]
=============================================================================
