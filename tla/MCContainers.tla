---------------------------- MODULE MCContainers ----------------------------
(* An instance of the containers for TLC. *)
EXTENDS Containers

\* TLC goes over every word; PowersLeast proves it for every width
ASSUME PowersAssumption == PowersAreLeast
=============================================================================
