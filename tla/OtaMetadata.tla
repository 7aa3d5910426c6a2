----------------------------- MODULE OtaMetadata -----------------------------
(***************************************************************************)
(* The OTA metadata record of the STM32 node and the journal it lives in   *)
(* (SmartHome/bootloader/bootloader_metadata.c, and the copy of the same   *)
(* algorithm in SmartHome/1_App/app_gateway.c).                            *)
(*                                                                         *)
(* The journal is flash sector 4, used as an append-only array of at most  *)
(* MaxRecords fixed-size records.  Its erased tail is not represented: the *)
(* journal is the sequence of the entries before the first erased one.  An *)
(* entry whose magic, schema or CRC-32 is wrong (a torn write) has         *)
(* ok = FALSE.  Firmware images are abstract: the CRC-32 of an image is    *)
(* taken to identify it, so the crc field holds the image itself.          *)
(***************************************************************************)
EXTENDS Integers, Sequences, FiniteSets

CONSTANTS
  Images,            \* firmware images a gateway may offer
  NoImage,           \* the CRC field of a slot that was never described
  Size,              \* Size[i]: blocks of image i (a block is what one DATA frame carries)
  Version,           \* Version[i]: the version number of image i
  Linked,            \* Linked[i]: slot whose address range holds i's reset vector, or "nowhere"
  SlotBlocks,        \* capacity of an application slot, in blocks (BL_APP_A_SIZE)
  MaxVersion,        \* bound on version numbers
  SeqMod,            \* meta_seq is a uint16_t: 65536 in the code
  MaxRecords,        \* BL_META_MAX_RECORDS: 65536 \div 60 in the code
  MaxBootAttempts    \* BL_MAX_BOOT_ATTEMPTS: 3 in the code

Slots == {"A", "B"}
SlotsOrNone == {"A", "B", "NONE"}
ImgStates == {"INVALID", "VALID", "PENDING", "CONFIRMED", "ROLLBACK"}

ASSUME NoImageAssumption == NoImage \notin Images

ASSUME ImagesAssumption ==
  /\ SlotBlocks \in Nat \ {0}
  /\ MaxVersion \in Nat \ {0}
  /\ Size \in [Images -> 1..SlotBlocks]
  /\ Version \in [Images -> 0..MaxVersion]
  /\ Linked \in [Images -> {"A", "B", "nowhere"}]

(* A full journal spans less than half of the sequence numbers, so that    *)
(* serial-number comparison orders all of its records (1092 and 65536 in   *)
(* the code).                                                              *)
ASSUME JournalAssumption ==
  /\ MaxRecords \in Nat \ {0}
  /\ SeqMod \in Nat
  /\ 2 * MaxRecords < SeqMod
  /\ MaxBootAttempts \in Nat

Metadata ==
  [seq        : 0..(SeqMod - 1),
   active     : SlotsOrNone,
   pending    : SlotsOrNone,
   confirmed  : SlotsOrNone,
   attempts   : 0..MaxBootAttempts,
   state      : [Slots -> ImgStates],
   size       : [Slots -> 0..(SlotBlocks + 1)],
   crc        : [Slots -> Images \cup {NoImage}],
   version    : [Slots -> 0..MaxVersion],
   minAllowed : 0..MaxVersion]

(* bl_metadata_default: the memset leaves size, crc and version zero. *)
DefaultMetadata ==
  [seq        |-> 1,
   active     |-> "A",
   pending    |-> "NONE",
   confirmed  |-> "A",
   attempts   |-> 0,
   state      |-> [s \in Slots |-> IF s = "A" THEN "VALID" ELSE "INVALID"],
   size       |-> [s \in Slots |-> 0],
   crc        |-> [s \in Slots |-> NoImage],
   version    |-> [s \in Slots |-> 0],
   minAllowed |-> 1]

Entry == [ok : BOOLEAN, m : Metadata]

(* A record that bl_metadata_validate refuses. *)
TornEntry == [ok |-> FALSE, m |-> DefaultMetadata]

(* uint16_t arithmetic on meta_seq *)
SeqNext(q) == (q + 1) % SeqMod

(* bl_meta_seq_is_newer: the uint16_t difference is in 1..0x7FFF *)
SeqIsNewer(candidate, current) ==
  LET delta == (candidate - current) % SeqMod
  IN  delta # 0 /\ 2 * delta < SeqMod

(* Mutant: sequence numbers compared as plain integers. *)
ScanBestPlain(best, e) ==
  IF e.ok /\ (~best.ok \/ e.m.seq > best.m.seq) THEN e ELSE best

(* One iteration of the loop of bl_meta_find_latest: best is the entry     *)
(* found so far (ok = FALSE: none), e the next entry before the erased     *)
(* tail.                                                                   *)
ScanBest(best, e) ==
  IF e.ok /\ (~best.ok \/ SeqIsNewer(e.m.seq, best.m.seq)) THEN e ELSE best

(* The record bl_metadata_commit writes: sequence number 0 becomes 1. *)
CommitRecord(m) == IF m.seq = 0 THEN [m EXCEPT !.seq = 1] ELSE m

ValidEntries(j) == {k \in DOMAIN j : j[k].ok}

(***************************************************************************)
(* Reference for the scan, independent of its loop: the earliest entry     *)
(* such that no valid entry is newer.                                      *)
(***************************************************************************)
IsLatest(j, k) ==
  /\ k \in ValidEntries(j)
  /\ \A n \in ValidEntries(j) : ~SeqIsNewer(j[n].m.seq, j[k].m.seq)
  /\ \A n \in ValidEntries(j) : n < k => SeqIsNewer(j[k].m.seq, j[n].m.seq)

Latest(j) ==
  LET K == {k \in DOMAIN j : IsLatest(j, k)} IN
  IF K = {} THEN TornEntry ELSE j[CHOOSE k \in K : TRUE]
==============================================================================
