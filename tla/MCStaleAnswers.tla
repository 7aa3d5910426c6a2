--------------------------- MODULE MCStaleAnswers ----------------------------
(***************************************************************************)
(* Behaviours of OtaTransfer that lead to a session misled by stale        *)
(* acknowledgements.  Script only leaves steps out, so that the search is  *)
(* short: whatever StaleSpec does, TSpec does.                             *)
(***************************************************************************)
EXTENDS OtaTransfer, TLC

CONSTANTS i1, i2

MCSize    == i1 :> 3 @@ i2 :> 1
MCVersion == i1 :> 1 @@ i2 :> 1
MCLinked  == i1 :> "B" @@ i2 :> "B"
MCCatalogue == {[img |-> i, target |-> "B", version |-> 1] : i \in {i1, i2}}
MCOffers == {PrepareFrame(o) : o \in MCCatalogue}

(* Session 1 ends in the middle of the transfer of i1 and leaves the       *)
(* acknowledgements of repeated frames in the cache; then the device is    *)
(* reset.  Session 2 sends i1 again and runs ahead of the device, on those *)
(* acknowledgements.  Session 3 sends i2, which is shorter.                *)
Script ==
  /\ ~gw'.cancel
  /\ sessions' # sessions => gw'.fw.img = (IF sessions' = 3 THEN i2 ELSE i1)
  /\ sessions' = 2 => resets' = 1
  /\ resets' # resets =>
       sessions = 1 /\ gw.phase = "idle" /\ ackCache[1] = "ack" /\ ackCache[2] = "ack"
  /\ sessions < 3 => gw'.phase # "verify"
  /\ gw.phase # "idle" /\ gw'.phase = "idle" => gw.n = 2

StaleSpec == TInit /\ [][TNext /\ Script]_tvars
==============================================================================
