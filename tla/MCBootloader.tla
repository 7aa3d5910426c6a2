---------------------------- MODULE MCBootloader -----------------------------
(* Instances of Bootloader for TLC. *)
EXTENDS Bootloader, TLC

CONSTANTS i1, i2

MCSize    == i1 :> 2 @@ i2 :> 1
MCVersion == i1 :> 1 @@ i2 :> 1
MCLinked  == i1 :> "B" @@ i2 :> "A"
(* A versioned image for the slot the bootloader picks, one without a      *)
(* version for slot A, which is refused while the device runs from A, and  *)
(* the same with a chunk size that bl_handle_prepare refuses.  Frame       *)
(* sequence numbers start just below the wrap.                             *)
MCOffer(i, t, v) ==
  [seq |-> OtaSeqMod - 1, size |-> Size[i], crc |-> i, chunk |-> 1, target |-> t, version |-> v]
MCOffers ==
  {MCOffer(i1, "AUTO", 1), MCOffer(i2, "A", 0), [MCOffer(i2, "A", 0) EXCEPT !.chunk = 0]}

(* One image of one block, for the runs about the journal alone. *)
MCOneSize    == i1 :> 1
MCOneVersion == i1 :> 1
MCOneLinked  == i1 :> "B"
MCOneOffers  == {MCOffer(i1, "AUTO", 1)}
==============================================================================
