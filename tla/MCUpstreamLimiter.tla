------------------------- MODULE MCUpstreamLimiter -------------------------
(* Two slots and five callers, so that a queue of three forms: one waits as *)
(* long as it takes, the others time out at any moment.                    *)
EXTENDS UpstreamLimiter
=============================================================================
