------------------------------ MODULE MCOtaTask ------------------------------
(* Instances of OtaTask for TLC. *)
EXTENDS OtaTask, TLC

CONSTANTS t1, t2, d1

(* Every task is for the same device. *)
MCDeviceOf == [t \in Tasks |-> d1]
==============================================================================
