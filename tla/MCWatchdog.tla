----------------------------- MODULE MCWatchdog ------------------------------
(* Instances of Watchdog for TLC: a task that may interrupt the watchdog   *)
(* task, and one that may not.                                             *)
EXTENDS Watchdog, TLC

CONSTANTS gateway, led

MCOrder   == <<gateway, led>>
MCTimeout == gateway :> 2 @@ led :> 3
MCPace    == gateway :> 1 @@ led :> 2
==============================================================================
