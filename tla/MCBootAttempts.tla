--------------------------- MODULE MCBootAttempts ----------------------------
(* The instances of MCBootloader with the starts of pending images counted. *)
EXTENDS MCBootloader, BootAttempts
==============================================================================
