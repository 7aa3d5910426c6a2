--------------------------- MODULE MCOtaTransfer -----------------------------
(* Instances of OtaTransfer for TLC. *)
EXTENDS StaleAnswers, TLC

CONSTANTS i1, i2

MCSize    == i1 :> 2 @@ i2 :> 1
MCVersion == i1 :> 1 @@ i2 :> 1
MCLinked  == i1 :> "B" @@ i2 :> "A"
(* Both images are sent for slot B, the second was built for slot A. *)
MCCatalogue == {[img |-> i1, target |-> "B", version |-> 1],
                [img |-> i2, target |-> "B", version |-> 0]}
MCOffers == {PrepareFrame(o) : o \in MCCatalogue}
==============================================================================
