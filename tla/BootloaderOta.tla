---------------------------- MODULE BootloaderOta ----------------------------
(***************************************************************************)
(* The OTA frame handlers of the bootloader                                *)
(* (SmartHome/bootloader/bootloader_ota.c and bootloader_flash.c), as      *)
(* functions of the session context g_ctx, the RAM copy of the metadata    *)
(* and the received frame.  Bootloader drives them on a device that may    *)
(* lose power at any step, OtaTransfer drives them from the gateway over a *)
(* lossy line.                                                             *)
(*                                                                         *)
(* Sizes, offsets and chunk lengths are counted in blocks of one DATA      *)
(* frame, so the 246-byte limit on a chunk is MaxChunk = 1 block.          *)
(***************************************************************************)
EXTENDS OtaMetadata

CONSTANT OtaSeqMod      \* the seq field of OTA frames is a uint16_t

ASSUME OtaSeqAssumption == OtaSeqMod \in Nat \ {0, 1}

OtaSeqs == 0..(OtaSeqMod - 1)
OtaSeqNext(q) == (q + 1) % OtaSeqMod
MaxChunk == 1

(* Contents of one block of an application slot.                           *)
(*   erased: 0xFF; whole: block n of image img; part: the same, but the    *)
(*   programming stopped half way; junk: an erase that stopped half way.   *)
Cells == [st : {"erased", "junk"}, img : {NoImage}, n : {0}]
         \cup [st : {"whole", "part"}, img : Images, n : 1..SlotBlocks]
Erased == [st |-> "erased", img |-> NoImage, n |-> 0]
Junk   == [st |-> "junk", img |-> NoImage, n |-> 0]
Whole(i, n) == [st |-> "whole", img |-> i, n |-> n]
Part(i, n)  == [st |-> "part", img |-> i, n |-> n]
SlotContents == [1..SlotBlocks -> Cells]
ErasedSlot == [k \in 1..SlotBlocks |-> Erased]
JunkSlot   == [k \in 1..SlotBlocks |-> Junk]

(* bl_crc32 over the first size blocks of a slot is the CRC of image i. *)
CrcMatches(content, size, i) ==
  /\ i \in Images
  /\ size = Size[i]
  /\ \A k \in 1..size : content[k] = Whole(i, k)

(* bl_is_vector_valid: the reset vector points anywhere into flash. *)
VectorValid(content) ==
  content[1].st = "whole" /\ content[1].n = 1 /\ Linked[content[1].img] # "nowhere"

(* bl_vector_valid_for_slot: the reset vector points into this slot. *)
VectorValidForSlot(content, s) ==
  content[1].st = "whole" /\ content[1].n = 1 /\ Linked[content[1].img] = s

(* Mutant: the vector table is checked, the CRC is not. *)
SlotImageValidNoCrc(m, slots, s) ==
  m.size[s] # 0 /\ m.size[s] <= SlotBlocks /\ VectorValid(slots[s])

(* bl_slot_image_valid *)
SlotImageValid(m, slots, s) ==
  /\ m.size[s] # 0
  /\ m.size[s] <= SlotBlocks
  /\ VectorValid(slots[s])
  /\ CrcMatches(slots[s], m.size[s], m.crc[s])

(***************************************************************************)
(* g_ctx                                                                   *)
(***************************************************************************)
Contexts ==
  [active   : BOOLEAN,
   expected : OtaSeqs,
   target   : SlotsOrNone,
   size     : 0..(SlotBlocks + 1),
   crc      : Images \cup {NoImage},
   chunk    : 0..(MaxChunk + 1),
   version  : 0..MaxVersion,
   offset   : 0..SlotBlocks]

(* bl_ctx_reset *)
ResetCtx ==
  [active |-> FALSE, expected |-> 0, target |-> "NONE", size |-> 0,
   crc |-> NoImage, chunk |-> 0, version |-> 0, offset |-> 0]

(***************************************************************************)
(* OTA_PREPARE.  target is "AUTO" when the frame has no target_base field  *)
(* and "OTHER" when it is no slot base; version is 0 when absent.          *)
(***************************************************************************)
PrepareFrames ==
  [seq : OtaSeqs, size : 0..(SlotBlocks + 1), crc : Images,
   chunk : 0..(MaxChunk + 1), target : {"A", "B", "AUTO", "OTHER"},
   version : 0..MaxVersion]

(* bl_pick_target_slot *)
PickTargetSlot(m) == IF m.active = "A" THEN "B" ELSE "A"

PrepareTarget(m, f) == IF f.target = "AUTO" THEN PickTargetSlot(m) ELSE f.target

(* Mutant: any slot may be prepared. *)
PrepareAnySlot(m, t) == t \in Slots

(* bl_prepare_target_allowed *)
PrepareTargetAllowed(m, t) ==
  /\ t \in Slots
  /\ \/ \A s \in Slots : m.state[s] \in {"INVALID", "ROLLBACK"}
     \/ m.active = "NONE" \/ m.confirmed = "NONE"
     \/ t # m.active /\ t # m.confirmed

(* bl_metadata_min_allowed_version *)
MinAllowedVersion(m) == IF m.minAllowed = 0 THEN 1 ELSE m.minAllowed

(* The error of the checks of bl_handle_prepare, in their order; "OK" when *)
(* the target slot is erased next.                                         *)
PrepareError(m, f) ==
  CASE f.size = 0 \/ f.size > SlotBlocks -> "BAD_PAYLOAD"
    [] f.chunk = 0 \/ f.chunk > MaxChunk -> "BAD_CHUNK_SIZE"
    [] ~PrepareTargetAllowed(m, PrepareTarget(m, f)) -> "BAD_TARGET"
    [] f.version # 0 /\ f.version < MinAllowedVersion(m) -> "ROLLBACK"
    [] OTHER -> "OK"

(* The fields of g_ctx that PREPARE overwrites before it checks anything:  *)
(* a refused PREPARE leaves them in a session that is under way.           *)
PrepareScratch(c, f) ==
  [c EXCEPT !.size = f.size, !.crc = f.crc, !.chunk = f.chunk, !.version = f.version]

(* The session after a successful erase. *)
PreparedCtx(f, t) ==
  [active |-> TRUE, expected |-> OtaSeqNext(f.seq), target |-> t, size |-> f.size,
   crc |-> f.crc, chunk |-> f.chunk, version |-> f.version, offset |-> 0]

(***************************************************************************)
(* OTA_DATA: block n of image img, at offset n - 1 as the gateway sends it; *)
(* fits says that chunk_len is the number of data bytes of the frame.      *)
(***************************************************************************)
DataFrames ==
  {f \in [seq : OtaSeqs, img : Images, n : 1..SlotBlocks, fits : BOOLEAN] :
     f.n <= Size[f.img]}

(* The frame acknowledged last, seen again: acknowledged, nothing written. *)
DataDuplicate(c, f) ==
  /\ c.active
  /\ OtaSeqNext(f.seq) = c.expected
  /\ f.fits
  /\ f.n = c.offset

(* The remaining checks of bl_handle_data, in their order; "OK" when the   *)
(* block is programmed next.                                               *)
DataError(c, f) ==
  CASE ~c.active -> "BAD_PAYLOAD"
    [] f.seq # c.expected -> "BAD_OFFSET"
    [] ~f.fits \/ 1 > c.chunk -> "BAD_PAYLOAD"
    [] f.n - 1 # c.offset \/ f.n > c.size -> "BAD_OFFSET"
    [] OTHER -> "OK"

(* bl_flash_write of block n of img at a cell: what the cell may hold      *)
(* afterwards when it succeeds (programming only clears bits, so read-back *)
(* fails unless the cell was erased or holds the same data), and when it   *)
(* fails.                                                                  *)
CanProgram(cell, f) == cell \in {Erased, Part(f.img, f.n), Whole(f.img, f.n)}
ProgramFailed(cell, f) ==
  IF CanProgram(cell, f) /\ cell # Whole(f.img, f.n) THEN Part(f.img, f.n)
  ELSE IF cell = Whole(f.img, f.n) THEN cell ELSE Junk

(* Session after the block has been programmed *)
DataWritten(c) ==
  [c EXCEPT !.offset = c.offset + 1, !.expected = OtaSeqNext(c.expected)]

(***************************************************************************)
(* OTA_VERIFY and OTA_COMMIT                                               *)
(***************************************************************************)
VerifyError(c, slots, f) ==
  CASE ~c.active -> "BAD_PAYLOAD"
    [] f.seq # c.expected \/ f.crc # c.crc \/ c.offset # c.size -> "BAD_PAYLOAD"
    [] ~CrcMatches(slots[c.target], c.size, c.crc) -> "BAD_CRC32"
    [] ~VectorValidForSlot(slots[c.target], c.target) -> "BAD_VECTOR"
    [] OTHER -> "OK"

Verified(c) == [c EXCEPT !.expected = OtaSeqNext(c.expected)]

CommitError(c, f) ==
  IF ~c.active \/ f.seq # c.expected THEN "BAD_PAYLOAD" ELSE "OK"

(* The record bl_handle_commit hands to bl_metadata_commit.  The code does *)
(* not ask that OTA_VERIFY succeeded.                                      *)
PendingMetadata(m, c) ==
  [m EXCEPT !.pending = c.target,
            !.attempts = 0,
            !.state[c.target] = "PENDING",
            !.size[c.target] = c.size,
            !.crc[c.target] = c.crc,
            !.version[c.target] = c.version,
            !.seq = SeqNext(m.seq)]
==============================================================================
