---------------------------- MODULE BootAttempts -----------------------------
(***************************************************************************)
(* How often the bootloader starts an image that the application never     *)
(* confirms.  The device is Bootloader, with a history variable that       *)
(* counts the starts of the pending image since the OTA_COMMIT that made   *)
(* it pending.                                                             *)
(***************************************************************************)
EXTENDS Bootloader

VARIABLE starts      \* history: starts of the pending image, up to MaxBootAttempts + 1

avars == <<vars, starts>>

CountedStarts ==
  IF StartsPending THEN (IF starts > MaxBootAttempts THEN starts ELSE starts + 1)
  ELSE IF NewPending THEN 0
  ELSE starts

AInit == Init /\ starts = 0
ANext == Next /\ starts' = CountedStarts
ASpec == AInit /\ [][ANext]_avars

(* stm32_ota_contract.md, section 7: an image that is not confirmed is     *)
(* started at most BL_MAX_BOOT_ATTEMPTS times, then rolled back.           *)
BootAttemptsBounded == starts <= MaxBootAttempts
==============================================================================
