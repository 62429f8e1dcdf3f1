---------------------------- MODULE MCSafeCalls ----------------------------
(* The values of the constants are in the configurations.                  *)
EXTENDS SafeCalls
=============================================================================
