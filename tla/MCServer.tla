------------------------------ MODULE MCServer ------------------------------
(* An instance of the program for TLC. *)
EXTENDS Server
=============================================================================
