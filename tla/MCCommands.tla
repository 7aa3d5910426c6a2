----------------------------- MODULE MCCommands ------------------------------
(* Instances of Commands for TLC. *)
EXTENDS Commands, TLC

Interchangeable == Permutations(Clients)
==============================================================================
