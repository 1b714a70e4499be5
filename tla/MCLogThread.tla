----------------------------- MODULE MCLogThread -----------------------------
(* Instances of the log thread for TLC. *)
EXTENDS LogThread, TLC

CONSTANTS mainSrc, dbSrc   \* model values: the sources
=============================================================================
