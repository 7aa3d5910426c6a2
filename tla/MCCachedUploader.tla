-------------------------- MODULE MCCachedUploader ---------------------------
(* Instances of CachedUploader for TLC. *)
EXTENDS CachedUploader, TLC

CONSTANTS c1, c2

(* The threads run the same code. *)
Threads == Permutations(Callers)
==============================================================================
