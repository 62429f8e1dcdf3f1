---------------------------- MODULE MCRetryLoop ----------------------------
(* Three attempts, a deadline that can pass during any of them, a          *)
(* Retry-After shorter and one longer than what is left.                   *)
EXTENDS RetryLoop
MCRetryAfters == {NoWait, 1, 4}
=============================================================================
