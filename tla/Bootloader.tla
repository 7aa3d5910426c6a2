----------------------------- MODULE Bootloader ------------------------------
(***************************************************************************)
(* The STM32 node as an A/B-updatable device: bootloader main(), its OTA   *)
(* loop, the metadata journal in flash and the confirmation of a new image *)
(* by the application (bootloader_main.c, bootloader_ota.c,                *)
(* bootloader_metadata.c; Gateway_ConfirmSlotEarly of app_gateway.c).      *)
(*                                                                         *)
(* Flash (journal, slots) and the backup register survive a reset; all     *)
(* other variables are RAM and are lost.  A reset may come between any two *)
(* steps; a flash operation that stops half way leaves the same flash      *)
(* contents as one that the HAL reports as failed.                         *)
(***************************************************************************)
EXTENDS BootloaderOta

CONSTANTS
  Offers,        \* the OTA_PREPARE frames that may arrive
  FlashFaults    \* a flash operation may fail or stop half way

ASSUME OffersAssumption == Offers \subseteq PrepareFrames
ASSUME FlashFaultsAssumption == FlashFaults \in BOOLEAN

VARIABLES
  journal,     \* flash sector 4: the records before the erased tail
  slots,       \* flash sectors 5-7 and 8-10: contents of the two slots
  forceFlag,   \* RTC->BKP0R holds the boot-to-bootloader magic
  pc,          \* where execution is
  scan,        \* loop variables of the journal scan: next entry, best so far
  meta,        \* RAM copy of the metadata in the bootloader's main()
  ctx,         \* g_ctx of the OTA loop
  timed,       \* the OTA loop runs with the idle timeout
  commit,      \* the record being committed and what follows the commit
  run,         \* slot whose vector table the bootloader jumped through
  confirmSent  \* g_app_confirm_sent

flash == <<journal, slots>>
vars == <<journal, slots, forceFlag, pc, scan, meta, ctx, timed, commit, run,
          confirmSent>>

Places == {"off", "scan", "flag", "ota", "select", "fallback", "commit",
           "app", "appScan"}
AppPlaces == {"app", "appScan"}
Returns == {"none", "flag", "fallback", "jump", "ack", "app"}

NoScan == [k |-> 1, best |-> TornEntry]
NoCommit == [rec |-> DefaultMetadata, ret |-> "none"]

TypeOK ==
  /\ journal \in Seq(Entry)
  /\ Len(journal) <= MaxRecords
  /\ slots \in [Slots -> SlotContents]
  /\ forceFlag \in BOOLEAN
  /\ pc \in Places
  /\ scan \in [k : Nat \ {0}, best : Entry]
  /\ meta \in Metadata
  /\ ctx \in Contexts
  /\ timed \in BOOLEAN
  /\ commit \in [rec : Metadata, ret : Returns]
  /\ run \in SlotsOrNone
  /\ confirmSent \in BOOLEAN

(* A device as it leaves programming: bootloader only. *)
Init ==
  /\ journal = <<>>
  /\ slots = [s \in Slots |-> ErasedSlot]
  /\ forceFlag = FALSE
  /\ pc = "off"
  /\ scan = NoScan
  /\ meta = DefaultMetadata
  /\ ctx = ResetCtx
  /\ timed = FALSE
  /\ commit = NoCommit
  /\ run = "NONE"
  /\ confirmSent = FALSE

(* What a reset does to RAM. *)
RamLost ==
  /\ pc' = "off"
  /\ scan' = NoScan
  /\ meta' = DefaultMetadata
  /\ ctx' = ResetCtx
  /\ timed' = FALSE
  /\ commit' = NoCommit
  /\ run' = "NONE"
  /\ confirmSent' = FALSE

(* main() starts and scans the journal (bl_metadata_any_valid, then        *)
(* bl_metadata_load_or_default, which repeats the same scan).              *)
PowerOn ==
  /\ pc = "off"
  /\ pc' = "scan"
  /\ UNCHANGED <<flash, forceFlag, scan, meta, ctx, timed, commit, run,
                 confirmSent>>

(* One iteration of the loop of bl_meta_find_latest / ota_meta_load. *)
ScanStep ==
  /\ pc \in {"scan", "appScan"}
  /\ scan.k <= Len(journal)
  /\ scan' = [k |-> scan.k + 1, best |-> ScanBest(scan.best, journal[scan.k])]
  /\ UNCHANGED <<flash, forceFlag, pc, meta, ctx, timed, commit, run,
                 confirmSent>>

(* Enter bl_metadata_commit(m), to continue at ret. *)
StartCommit(m, ret) ==
  /\ pc' = "commit"
  /\ commit' = [rec |-> m, ret |-> ret]

(* The scan is over: take the record found, or heal with the default. *)
LoadMetadata ==
  /\ pc = "scan"
  /\ scan.k > Len(journal)
  /\ scan' = NoScan
  /\ IF scan.best.ok
     THEN /\ meta' = scan.best.m
          /\ pc' = "flag"
          /\ UNCHANGED commit
     ELSE /\ meta' = DefaultMetadata
          /\ StartCommit(CommitRecord(DefaultMetadata), "flag")
  /\ UNCHANGED <<flash, forceFlag, ctx, timed, run, confirmSent>>

(* bl_consume_force_bootloader_flag, and the entry of bl_ota_loop. *)
ConsumeForceFlag ==
  /\ pc = "flag"
  /\ IF forceFlag
     THEN /\ forceFlag' = FALSE
          /\ pc' = "ota"
          /\ ctx' = ResetCtx
          /\ timed' = TRUE
     ELSE /\ pc' = "select"
          /\ UNCHANGED <<forceFlag, ctx, timed>>
  /\ UNCHANGED <<flash, scan, meta, commit, run, confirmSent>>

(* Mutant: the pending slot is not cleared. *)
RolledBackStillPending(m) == [m EXCEPT !.state[m.pending] = "ROLLBACK", !.attempts = 0]

(* Roll the pending image back: the record keeps its sequence number. *)
RolledBack(m) ==
  [m EXCEPT !.state[m.pending] = "ROLLBACK", !.pending = "NONE", !.attempts = 0]

(* Mutant: the start is not counted. *)
NoMoreAttempt(m) == m

(* Count one more start of the pending image; again the same sequence      *)
(* number.                                                                 *)
OneMoreAttempt(m) == [m EXCEPT !.attempts = m.attempts + 1]

(* Mutant: one start too many. *)
MayStartPendingOnceMore(m) ==
  SlotImageValid(m, slots, m.pending) /\ m.attempts <= MaxBootAttempts

MayStartPending(m) ==
  SlotImageValid(m, slots, m.pending) /\ m.attempts < MaxBootAttempts

(* The slot selection of main() up to the jump to the pending slot. *)
SelectSlot ==
  /\ pc = "select"
  /\ IF meta.pending \notin Slots
     THEN pc' = "fallback" /\ UNCHANGED <<meta, commit>>
     ELSE IF MayStartPending(meta)
     THEN /\ meta' = OneMoreAttempt(meta)
          /\ StartCommit(CommitRecord(OneMoreAttempt(meta)), "jump")
     ELSE /\ meta' = RolledBack(meta)
          /\ StartCommit(CommitRecord(RolledBack(meta)), "fallback")
  /\ UNCHANGED <<flash, forceFlag, scan, ctx, timed, run, confirmSent>>

(* bl_jump_to_app *)
JumpTo(s) ==
  /\ pc' = "app"
  /\ run' = s
  /\ meta' = DefaultMetadata
  /\ ctx' = ResetCtx
  /\ timed' = FALSE

(* No pending slot (any more): active slot, then confirmed slot, then the  *)
(* OTA loop without timeout.                                               *)
Fallback ==
  /\ pc = "fallback"
  /\ LET bootable(s) == s \in Slots /\ SlotImageValid(meta, slots, s) IN
     IF bootable(meta.active) THEN JumpTo(meta.active)
     ELSE IF bootable(meta.confirmed) THEN JumpTo(meta.confirmed)
     ELSE /\ pc' = "ota"
          /\ ctx' = ResetCtx
          /\ timed' = FALSE
          /\ UNCHANGED <<meta, run>>
  /\ UNCHANGED <<flash, forceFlag, scan, commit, confirmSent>>

(***************************************************************************)
(* bl_metadata_commit / ota_meta_commit                                    *)
(***************************************************************************)

(* What follows a commit that returned ok. *)
AfterCommit(ok) ==
  /\ commit' = NoCommit
  /\ \/ /\ commit.ret \in {"flag", "fallback", "app"}
        /\ pc' = commit.ret
        /\ UNCHANGED <<scan, meta, ctx, timed, run, confirmSent>>
     \/ /\ commit.ret = "jump"
        /\ JumpTo(meta.pending)
        /\ UNCHANGED <<scan, confirmSent>>
     \/ /\ commit.ret = "ack" /\ ok
        /\ RamLost
     \/ /\ commit.ret = "ack" /\ ~ok
        /\ pc' = "ota"
        /\ UNCHANGED <<scan, meta, ctx, timed, run, confirmSent>>

(* Mutant: the newest record is overwritten in place. *)
CommitWriteInPlace ==
  /\ pc = "commit"
  /\ Len(journal) < MaxRecords
  /\ LET k == IF journal = <<>> THEN 1 ELSE Len(journal)
         put(e) == [n \in 1..k |-> IF n = k THEN e ELSE journal[n]]
     IN  \/ journal' = put([ok |-> TRUE, m |-> commit.rec]) /\ AfterCommit(TRUE)
         \/ FlashFaults /\ journal' = put(TornEntry) /\ AfterCommit(FALSE)
  /\ UNCHANGED <<slots, forceFlag>>

(* bl_metadata_write_record at the first erased position.  A write that    *)
(* fails leaves a torn record, or nothing at all.                          *)
CommitWrite ==
  /\ pc = "commit"
  /\ Len(journal) < MaxRecords
  /\ \/ /\ journal' = Append(journal, [ok |-> TRUE, m |-> commit.rec])
        /\ AfterCommit(TRUE)
     \/ /\ FlashFaults
        /\ journal' \in {journal, Append(journal, TornEntry)}
        /\ AfterCommit(FALSE)
  /\ UNCHANGED <<slots, forceFlag>>

(* No erased position is left: bl_metadata_erase_sector.  An erase that    *)
(* fails leaves the sector as it was, or nothing readable in it.           *)
CommitErase ==
  /\ pc = "commit"
  /\ Len(journal) = MaxRecords
  /\ \/ /\ journal' = <<>>
        /\ UNCHANGED <<forceFlag, pc, scan, meta, ctx, timed, commit, run,
                       confirmSent>>
     \/ /\ FlashFaults
        /\ journal' \in {journal, [k \in 1..MaxRecords |-> TornEntry]}
        /\ AfterCommit(FALSE)
        /\ UNCHANGED forceFlag
  /\ UNCHANGED slots

(***************************************************************************)
(* bl_ota_loop: one action per received frame.  Frames are any that a      *)
(* gateway may send, in any order; a handler that only answers with a NACK *)
(* changes nothing and is not a step of its own.                           *)
(***************************************************************************)
HandlePrepare(f) ==
  /\ pc = "ota"
  /\ IF PrepareError(meta, f) # "OK"
     THEN ctx' = PrepareScratch(ctx, f) /\ UNCHANGED slots
     ELSE LET t == PrepareTarget(meta, f) IN
          \/ /\ slots' = [slots EXCEPT ![t] = ErasedSlot]
             /\ ctx' = PreparedCtx(f, t)
          \/ /\ FlashFaults
             /\ slots' = [slots EXCEPT ![t] = JunkSlot]
             /\ ctx' = PrepareScratch(ctx, f)
  /\ UNCHANGED <<journal, forceFlag, pc, scan, meta, timed, commit, run,
                 confirmSent>>

HandleData(f) ==
  /\ pc = "ota"
  /\ ~DataDuplicate(ctx, f)
  /\ DataError(ctx, f) = "OK"
  /\ LET cell == slots[ctx.target][f.n] IN
     \/ /\ CanProgram(cell, f)
        /\ slots' = [slots EXCEPT ![ctx.target][f.n] = Whole(f.img, f.n)]
        /\ ctx' = DataWritten(ctx)
     \/ /\ FlashFaults \/ ~CanProgram(cell, f)
        /\ slots' = [slots EXCEPT ![ctx.target][f.n] = ProgramFailed(cell, f)]
        /\ UNCHANGED ctx
  /\ UNCHANGED <<journal, forceFlag, pc, scan, meta, timed, commit, run,
                 confirmSent>>

HandleVerify(f) ==
  /\ pc = "ota"
  /\ VerifyError(ctx, slots, f) = "OK"
  /\ ctx' = Verified(ctx)
  /\ UNCHANGED <<flash, forceFlag, pc, scan, meta, timed, commit, run,
                 confirmSent>>

HandleCommit(f) ==
  /\ pc = "ota"
  /\ CommitError(ctx, f) = "OK"
  /\ StartCommit(CommitRecord(PendingMetadata(meta, ctx)), "ack")
  /\ UNCHANGED <<flash, forceFlag, scan, meta, ctx, timed, run, confirmSent>>

HandleAbort ==
  /\ pc = "ota"
  /\ ctx' = ResetCtx
  /\ UNCHANGED <<flash, forceFlag, pc, scan, meta, timed, commit, run,
                 confirmSent>>

(* BL_OTA_IDLE_TIMEOUT_MS without a frame: bl_ota_loop returns to main(). *)
IdleTimeout ==
  /\ pc = "ota"
  /\ timed
  /\ pc' = "select"
  /\ UNCHANGED <<flash, forceFlag, scan, meta, ctx, timed, commit, run,
                 confirmSent>>

(***************************************************************************)
(* The application                                                         *)
(***************************************************************************)

(* ota_current_slot: where the running code is linked, not where the       *)
(* bootloader found it.                                                    *)
CurrentSlot == IF Linked[slots[run][1].img] = "B" THEN "B" ELSE "A"

(* bl_is_vector_valid accepts a reset vector into the other slot: what is  *)
(* executed then is the content of that slot.  It behaves as an            *)
(* application only if it is a complete image linked there.                *)
AppAlive ==
  \E i \in Images : CrcMatches(slots[CurrentSlot], Size[i], i) /\ Linked[i] = CurrentSlot

(* GatewayTask, once the subsystems are healthy (gw_can_confirm_slot):     *)
(* Gateway_ConfirmSlotEarly loads the metadata.                            *)
AppStartConfirm ==
  /\ pc = "app"
  /\ AppAlive
  /\ ~confirmSent
  /\ pc' = "appScan"
  /\ confirmSent' = TRUE
  /\ UNCHANGED <<flash, forceFlag, scan, meta, ctx, timed, commit, run>>

AppMayConfirm(e, s) == e.ok /\ e.m.pending = s /\ e.m.state[s] = "PENDING"

(* Mutant: the anti-rollback floor follows the confirmed version down. *)
ConfirmedLoweringFloor(m, s) ==
  [m EXCEPT !.active = s, !.confirmed = s, !.pending = "NONE", !.attempts = 0,
            !.state[s] = "CONFIRMED", !.minAllowed = m.version[s], !.seq = SeqNext(m.seq)]

ConfirmedMetadata(m, s) ==
  [m EXCEPT !.active = s, !.confirmed = s, !.pending = "NONE", !.attempts = 0,
            !.state[s] = "CONFIRMED",
            !.minAllowed = IF m.version[s] > m.minAllowed THEN m.version[s] ELSE m.minAllowed,
            !.seq = SeqNext(m.seq)]

(* The rest of Gateway_ConfirmSlotEarly: confirm, or skip. *)
AppConfirm ==
  /\ pc = "appScan"
  /\ scan.k > Len(journal)
  /\ scan' = NoScan
  /\ IF AppMayConfirm(scan.best, CurrentSlot)
     THEN StartCommit(ConfirmedMetadata(scan.best.m, CurrentSlot), "app")
     ELSE pc' = "app" /\ UNCHANGED commit
  /\ UNCHANGED <<flash, forceFlag, meta, ctx, timed, run, confirmSent>>

(* GW_CMD_REBOOT_TO_BOOTLOADER: OtaApp_RequestBootloader, then a reset. *)
AppRebootToBootloader ==
  /\ pc = "app"
  /\ AppAlive
  /\ forceFlag' = TRUE
  /\ RamLost
  /\ UNCHANGED flash

(* Watchdog, fault, brown-out or power loss, at any point.  The backup     *)
(* register may or may not survive.  Erasing and rewriting the journal is  *)
(* not atomic: a reset in between loses it.                                *)
Reset ==
  /\ pc # "off"
  /\ forceFlag' \in {forceFlag, FALSE}
  /\ RamLost
  /\ UNCHANGED flash

OtaStep ==
  \/ \E f \in Offers : HandlePrepare(f)
  \/ \E f \in DataFrames : HandleData(f)
  \/ \E q \in OtaSeqs, i \in Images : HandleVerify([seq |-> q, crc |-> i])
  \/ \E q \in OtaSeqs : HandleCommit([seq |-> q])
  \/ HandleAbort
  \/ IdleTimeout

BootStep == PowerOn \/ ScanStep \/ LoadMetadata \/ ConsumeForceFlag \/ SelectSlot
            \/ Fallback \/ CommitWrite \/ CommitErase

AppStep == AppStartConfirm \/ AppConfirm \/ AppRebootToBootloader

Next == BootStep \/ OtaStep \/ AppStep \/ Reset

Spec == Init /\ [][Next]_vars
(***************************************************************************)
(* Properties                                                              *)
(***************************************************************************)

(* Whatever frames arrived and wherever the device was reset, an           *)
(* application that runs is a complete image: its slot holds every block   *)
(* of it, from one session, and a usable vector table.  (Checks of         *)
(* bl_slot_image_valid before bl_jump_to_app.)                             *)
RunningImageIntact ==
  run # "NONE" =>
    \E i \in Images : CrcMatches(slots[run], Size[i], i) /\ Linked[i] # "nowhere"

(* What every stored record and the RAM copy agree on: one slot is both    *)
(* active and confirmed, it is never the pending one, and it was never     *)
(* rolled back.  bl_prepare_target_allowed relies on it to keep the        *)
(* running image away from OTA_PREPARE.                                    *)
CoherentMetadata(m) ==
  /\ m.active = m.confirmed
  /\ m.active \in Slots
  /\ m.pending # m.active
  /\ m.state[m.active] \in {"VALID", "CONFIRMED"}
  /\ m.pending \in Slots => m.state[m.pending] = "PENDING"

MetadataCoherent ==
  /\ \A k \in ValidEntries(journal) : CoherentMetadata(journal[k].m)
  /\ CoherentMetadata(meta)
  /\ CoherentMetadata(commit.rec)
  /\ CoherentMetadata(scan.best.m)

(* Once an image has been confirmed there is always an image to fall back  *)
(* to: unless the journal itself is lost, the slot the newest record      *)
(* calls active holds exactly the image whose CRC the record carries, in   *)
(* the middle of an update of the other slot too.                          *)
ConfirmedBootable ==
  LET l == Latest(journal) IN
  l.ok /\ l.m.state[l.m.active] = "CONFIRMED"
    => SlotImageValid(l.m, slots, l.m.active)

(* The loop of bl_meta_find_latest finds the newest record although        *)
(* meta_seq wraps around, records are torn and sequence numbers repeat.    *)
ScanFindsLatest ==
  pc \in {"scan", "appScan"} /\ scan.k > Len(journal) => scan.best = Latest(journal)

(* No step erases or programs the slot that the newest stored record calls *)
(* active or confirmed, though the handlers only look at their RAM copy.   *)
ActiveSlotUntouched ==
  [][\A s \in Slots :
       slots'[s] # slots[s] /\ Latest(journal).ok
         => s \notin {Latest(journal).m.active, Latest(journal).m.confirmed}]_slots

(* A commit that finds room in the journal is atomic: after each step, a   *)
(* torn write included, the newest record is the old one or the one being  *)
(* committed.                                                              *)
AppendAtomic ==
  [][Len(journal) < MaxRecords /\ journal # <<>> =>
       Latest(journal') \in {Latest(journal), [ok |-> TRUE, m |-> commit.rec]}]_journal

(* The anti-rollback floor never goes down while the journal holds a       *)
(* record.                                                                 *)
FloorMonotone ==
  [][LET old == Latest(journal)
         new == Latest(journal')
     IN  old.ok /\ new.ok => new.m.minAllowed >= old.m.minAllowed]_journal

(* What tells apart the steps that EventuallyGivesUp counts. *)

(* bl_jump_to_app(pending slot) *)
StartsPending == pc = "commit" /\ commit.ret = "jump" /\ pc' = "app"

(* OTA_COMMIT stored its record and acknowledged it. *)
NewPending == pc = "commit" /\ commit.ret = "ack" /\ pc' = "off" /\ journal' # journal

(* Gateway_ConfirmSlotEarly stored its record. *)
Confirms == pc = "commit" /\ commit.ret = "app" /\ pc' = "app"

(* Leaves the record write of bl_metadata_write without the new record in  *)
(* the journal: it failed, or left a record that its CRC does not cover.   *)
StoreFails ==
  /\ pc = "commit" /\ pc' # "commit"
  /\ journal' # Append(journal, [ok |-> TRUE, m |-> commit.rec])

(* What the code does guarantee: an image that crashes before it confirms  *)
(* is not started for ever.  Starts that go on without end come with       *)
(* updates, confirmations, or record writes of bl_decide_boot that fail,   *)
(* without end.                                                            *)
EventuallyGivesUp ==
  []<><<StartsPending>>_vars => []<><<NewPending \/ Confirms \/ StoreFails>>_vars
==============================================================================
