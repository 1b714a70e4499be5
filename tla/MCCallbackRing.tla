--------------------------- MODULE MCCallbackRing ---------------------------
(* An instance of the callback ring for TLC. *)
EXTENDS CallbackRing

ASSUME CallbackAssumption
=============================================================================
