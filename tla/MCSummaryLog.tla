---------------------------- MODULE MCSummaryLog ----------------------------
(* The files of a first start, and those that an earlier process left.     *)
EXTENDS SummaryLog
CONSTANTS r1, r2

MCFound == {[i \in 0..MaxRotated |-> None],
            [i \in 0..MaxRotated |-> <<MaxRotated + 1 - i>>]}
=============================================================================
