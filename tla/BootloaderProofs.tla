-------------------------- MODULE BootloaderProofs ---------------------------
(***************************************************************************)
(* Proofs about Bootloader, for every value of its constants.              *)
(***************************************************************************)
EXTENDS Bootloader, FiniteSetTheorems, TLAPS

(* Where the program is determines which of the RAM variables are in use. *)
ControlInv ==
  /\ pc \in AppPlaces => run \in Slots
  /\ run # "NONE" => pc \in AppPlaces \/ (pc = "commit" /\ commit.ret = "app")
  /\ pc = "commit" /\ commit.ret = "app" => run \in Slots
  /\ pc = "commit" /\ commit.ret = "jump" =>
       meta.pending \in Slots /\ SlotImageValid(meta, slots, meta.pending)

(* An OTA session writes a slot that is not the active one; there is none  *)
(* before the OTA loop.                                                    *)
SessionInv ==
  /\ ctx.active => ctx.target \in Slots /\ ctx.target # meta.active
  /\ pc \in {"off", "scan"} => ~ctx.active

IInv == TypeOK /\ ControlInv /\ SessionInv /\ MetadataCoherent

-----------------------------------------------------------------------------
(* The operators on metadata records keep them metadata records. *)

LEMMA DefaultMetadataType == DefaultMetadata \in Metadata /\ TornEntry \in Entry
BY JournalAssumption, ImagesAssumption
   DEF DefaultMetadata, Metadata, TornEntry, Entry, Slots, SlotsOrNone, ImgStates

LEMMA DefaultCoherent == CoherentMetadata(DefaultMetadata)
BY DEF CoherentMetadata, DefaultMetadata, Slots

LEMMA SeqNextType == \A q \in 0..(SeqMod - 1) : SeqNext(q) \in 0..(SeqMod - 1)
BY JournalAssumption DEF SeqNext

LEMMA OtaSeqNextType == \A q \in OtaSeqs : OtaSeqNext(q) \in OtaSeqs
BY OtaSeqAssumption DEF OtaSeqNext, OtaSeqs

LEMMA CommitRecordType ==
  ASSUME NEW m \in Metadata
  PROVE  /\ CommitRecord(m) \in Metadata
         /\ CoherentMetadata(m) => CoherentMetadata(CommitRecord(m))
<1>1. CommitRecord(m) \in Metadata
  BY JournalAssumption DEF CommitRecord, Metadata
<1>2. ASSUME CoherentMetadata(m) PROVE CoherentMetadata(CommitRecord(m))
  BY <1>2 DEF CommitRecord, Metadata, CoherentMetadata
<1> QED BY <1>1, <1>2

(* The fields of a record, one by one. *)
LEMMA MetadataFields ==
  ASSUME NEW m \in Metadata
  PROVE  /\ m.seq \in 0..(SeqMod - 1)
         /\ m.active \in SlotsOrNone /\ m.pending \in SlotsOrNone
         /\ m.confirmed \in SlotsOrNone
         /\ m.attempts \in 0..MaxBootAttempts
         /\ m.state \in [Slots -> ImgStates]
         /\ m.size \in [Slots -> 0..(SlotBlocks + 1)]
         /\ m.crc \in [Slots -> Images \cup {NoImage}]
         /\ m.version \in [Slots -> 0..MaxVersion]
         /\ m.minAllowed \in 0..MaxVersion
         /\ m = [seq |-> m.seq, active |-> m.active, pending |-> m.pending,
                 confirmed |-> m.confirmed, attempts |-> m.attempts,
                 state |-> m.state, size |-> m.size, crc |-> m.crc,
                 version |-> m.version, minAllowed |-> m.minAllowed]
BY DEF Metadata

LEMMA RolledBackType ==
  ASSUME NEW m \in Metadata, CoherentMetadata(m), m.pending \in Slots
  PROVE  RolledBack(m) \in Metadata /\ CoherentMetadata(RolledBack(m))
<1>1. RolledBack(m) \in Metadata
  <2> DEFINE st == [m.state EXCEPT ![m.pending] = "ROLLBACK"]
  <2>1. st \in [Slots -> ImgStates]
    BY MetadataFields DEF ImgStates
  <2>2. RolledBack(m) = [m EXCEPT !.state = st, !.pending = "NONE", !.attempts = 0]
    BY DEF RolledBack
  <2>3. "NONE" \in SlotsOrNone /\ 0 \in 0..MaxBootAttempts
    BY JournalAssumption DEF SlotsOrNone
  <2> HIDE DEF st
  <2>4. RolledBack(m) =
          [seq |-> m.seq, active |-> m.active, pending |-> "NONE",
           confirmed |-> m.confirmed, attempts |-> 0, state |-> st, size |-> m.size,
           crc |-> m.crc, version |-> m.version, minAllowed |-> m.minAllowed]
    BY <2>2 DEF Metadata
  <2> QED BY <2>1, <2>3, <2>4, MetadataFields DEF Metadata
<1>2. CoherentMetadata(RolledBack(m))
  BY DEF RolledBack, Metadata, CoherentMetadata, Slots, SlotsOrNone
<1> QED BY <1>1, <1>2

LEMMA OneMoreAttemptType ==
  ASSUME NEW m \in Metadata, CoherentMetadata(m), m.attempts < MaxBootAttempts
  PROVE  OneMoreAttempt(m) \in Metadata /\ CoherentMetadata(OneMoreAttempt(m))
BY JournalAssumption DEF OneMoreAttempt, Metadata, CoherentMetadata

LEMMA PendingMetadataType ==
  ASSUME NEW m \in Metadata, CoherentMetadata(m), NEW c \in Contexts,
         c.target \in Slots, c.target # m.active
  PROVE  PendingMetadata(m, c) \in Metadata /\ CoherentMetadata(PendingMetadata(m, c))
<1> DEFINE p == PendingMetadata(m, c)
<1>1. p \in Metadata
  <2> DEFINE st == [m.state EXCEPT ![c.target] = "PENDING"]
             sz == [m.size EXCEPT ![c.target] = c.size]
             cr == [m.crc EXCEPT ![c.target] = c.crc]
             vn == [m.version EXCEPT ![c.target] = c.version]
  <2>1. st \in [Slots -> ImgStates]
    BY MetadataFields DEF ImgStates
  <2>2. sz \in [Slots -> 0..(SlotBlocks + 1)] /\ cr \in [Slots -> Images \cup {NoImage}]
    BY MetadataFields DEF Contexts
  <2>3. vn \in [Slots -> 0..MaxVersion]
    BY MetadataFields DEF Contexts
  <2>4. p = [m EXCEPT !.pending = c.target, !.attempts = 0, !.state = st, !.size = sz,
                      !.crc = cr, !.version = vn, !.seq = SeqNext(m.seq)]
    BY DEF PendingMetadata
  <2>5. /\ SeqNext(m.seq) \in 0..(SeqMod - 1)
        /\ c.target \in SlotsOrNone /\ 0 \in 0..MaxBootAttempts
    BY SeqNextType, MetadataFields, JournalAssumption DEF SlotsOrNone, Slots
  <2> HIDE DEF st, sz, cr, vn, p
  <2>6. p = [seq |-> SeqNext(m.seq), active |-> m.active, pending |-> c.target,
             confirmed |-> m.confirmed, attempts |-> 0, state |-> st, size |-> sz,
             crc |-> cr, version |-> vn, minAllowed |-> m.minAllowed]
    BY <2>4 DEF Metadata
  <2> QED BY <2>1, <2>2, <2>3, <2>5, <2>6, MetadataFields DEF Metadata
<1>2. CoherentMetadata(p)
  BY DEF PendingMetadata, Metadata, Contexts, CoherentMetadata, Slots, SlotsOrNone
<1> QED BY <1>1, <1>2

LEMMA ConfirmedMetadataType ==
  ASSUME NEW m \in Metadata, CoherentMetadata(m), NEW s \in Slots
  PROVE  ConfirmedMetadata(m, s) \in Metadata /\ CoherentMetadata(ConfirmedMetadata(m, s))
<1>1. ConfirmedMetadata(m, s) \in Metadata
  <2> DEFINE st == [m.state EXCEPT ![s] = "CONFIRMED"]
             fl == IF m.version[s] > m.minAllowed THEN m.version[s] ELSE m.minAllowed
  <2>1. st \in [Slots -> ImgStates]
    BY MetadataFields DEF ImgStates
  <2>2. fl \in 0..MaxVersion
    BY MetadataFields
  <2>3. ConfirmedMetadata(m, s) =
          [m EXCEPT !.active = s, !.confirmed = s, !.pending = "NONE", !.attempts = 0,
                    !.state = st, !.minAllowed = fl, !.seq = SeqNext(m.seq)]
    BY DEF ConfirmedMetadata
  <2>4. /\ SeqNext(m.seq) \in 0..(SeqMod - 1)
        /\ s \in SlotsOrNone /\ "NONE" \in SlotsOrNone /\ 0 \in 0..MaxBootAttempts
    BY SeqNextType, MetadataFields, JournalAssumption DEF SlotsOrNone, Slots
  <2> HIDE DEF st, fl
  <2>5. ConfirmedMetadata(m, s) =
          [seq |-> SeqNext(m.seq), active |-> s, pending |-> "NONE", confirmed |-> s,
           attempts |-> 0, state |-> st, size |-> m.size, crc |-> m.crc,
           version |-> m.version, minAllowed |-> fl]
    BY <2>3 DEF Metadata
  <2> QED BY <2>1, <2>2, <2>4, <2>5, MetadataFields DEF Metadata
<1>2. CoherentMetadata(ConfirmedMetadata(m, s))
  BY DEF ConfirmedMetadata, Metadata, CoherentMetadata, Slots, SlotsOrNone
<1> QED BY <1>1, <1>2

-----------------------------------------------------------------------------
(* The flash part of the invariant. *)
JournalOK(j) ==
  /\ j \in Seq(Entry)
  /\ Len(j) <= MaxRecords
  /\ \A k \in ValidEntries(j) : CoherentMetadata(j[k].m)

LEMMA EmptyJournal == JournalOK(<<>>)
BY JournalAssumption DEF JournalOK, ValidEntries

LEMMA AppendJournal ==
  ASSUME NEW j, JournalOK(j), Len(j) < MaxRecords, NEW e \in Entry,
         e.ok => CoherentMetadata(e.m)
  PROVE  JournalOK(Append(j, e))
<1> DEFINE a == Append(j, e)
<1>1. a \in Seq(Entry) /\ Len(a) = Len(j) + 1 /\ a[Len(j) + 1] = e
  BY DEF JournalOK
<1>2. \A k \in 1..Len(j) : a[k] = j[k]
  BY DEF JournalOK
<1>3. ASSUME NEW k \in ValidEntries(a) PROVE CoherentMetadata(a[k].m)
  <2>1. k \in 1..(Len(j) + 1) /\ a[k].ok
    BY <1>1 DEF ValidEntries
  <2>2. CASE k \in 1..Len(j)
    BY <2>1, <2>2, <1>2 DEF JournalOK, ValidEntries
  <2>3. CASE k = Len(j) + 1
    BY <2>1, <2>3, <1>1
  <2> QED BY <2>1, <2>2, <2>3 DEF JournalOK
<1>4. Len(a) <= MaxRecords
  BY <1>1, JournalAssumption DEF JournalOK
<1> HIDE DEF a
<1>5. JournalOK(a)
  BY <1>1, <1>3, <1>4 DEF JournalOK
<1> QED BY <1>5 DEF a

LEMMA TornJournal == JournalOK([k \in 1..MaxRecords |-> TornEntry])
<1> DEFINE t == [k \in 1..MaxRecords |-> TornEntry]
<1>1. t \in Seq(Entry) /\ Len(t) = MaxRecords
  BY JournalAssumption, DefaultMetadataType
<1>2. ValidEntries(t) = {}
  BY <1>1 DEF ValidEntries, TornEntry
<1> QED BY <1>1, <1>2, JournalAssumption DEF JournalOK

(* Blocks and slots *)
LEMMA CellTypes ==
  /\ Erased \in Cells /\ Junk \in Cells
  /\ ErasedSlot \in SlotContents /\ JunkSlot \in SlotContents
  /\ \A i \in Images, n \in 1..SlotBlocks : Whole(i, n) \in Cells /\ Part(i, n) \in Cells
BY DEF Erased, Junk, Cells, ErasedSlot, JunkSlot, SlotContents, Whole, Part

LEMMA ProgramFailedType ==
  ASSUME NEW cell, NEW f \in DataFrames
  PROVE  ProgramFailed(cell, f) \in Cells
<1>1. f.img \in Images /\ f.n \in 1..SlotBlocks
  BY DEF DataFrames
<1> QED BY <1>1, CellTypes DEF ProgramFailed

LEMMA SlotUpdate ==
  ASSUME NEW sl \in [Slots -> SlotContents], NEW t \in Slots, NEW n \in 1..SlotBlocks,
         NEW c \in Cells
  PROVE  [sl EXCEPT ![t][n] = c] \in [Slots -> SlotContents]
BY DEF SlotContents

(* A slot that passes bl_slot_image_valid holds a complete image. *)
LEMMA ValidSlotIntact ==
  ASSUME NEW m \in Metadata, NEW sl, NEW s \in Slots, SlotImageValid(m, sl, s)
  PROVE  \E i \in Images : CrcMatches(sl[s], Size[i], i) /\ Linked[i] # "nowhere"
<1> DEFINE i == m.crc[s]
<1>1. i \in Images /\ CrcMatches(sl[s], Size[i], i)
  BY DEF SlotImageValid, CrcMatches
<1>2. sl[s][1] = Whole(i, 1)
  BY <1>1, ImagesAssumption DEF CrcMatches
<1>3. Linked[i] # "nowhere"
  BY <1>2 DEF SlotImageValid, VectorValid, Whole
<1> QED BY <1>1, <1>3

LEMMA CtxTypes ==
  /\ ResetCtx \in Contexts /\ ~ResetCtx.active
  /\ NoScan \in [k : Nat \ {0}, best : Entry] /\ CoherentMetadata(NoScan.best.m)
  /\ NoCommit \in [rec : Metadata, ret : Returns] /\ CoherentMetadata(NoCommit.rec)
  /\ NoCommit.ret = "none"
<1>1. ResetCtx \in Contexts /\ ~ResetCtx.active
  BY OtaSeqAssumption, ImagesAssumption
     DEF ResetCtx, Contexts, OtaSeqs, SlotsOrNone, MaxChunk
<1>2. NoScan \in [k : Nat \ {0}, best : Entry] /\ CoherentMetadata(NoScan.best.m)
  BY DefaultMetadataType, DefaultCoherent DEF NoScan, TornEntry
<1>3. /\ NoCommit \in [rec : Metadata, ret : Returns] /\ CoherentMetadata(NoCommit.rec)
      /\ NoCommit.ret = "none"
  BY DefaultMetadataType, DefaultCoherent DEF NoCommit, Returns
<1> QED BY <1>1, <1>2, <1>3

-----------------------------------------------------------------------------
(* A reset leaves a state of the invariant, whatever the flash holds. *)
LEMMA RamLostInv ==
  ASSUME RamLost, JournalOK(journal'), slots' \in [Slots -> SlotContents],
         forceFlag' \in BOOLEAN
  PROVE  IInv'
<1>1. TypeOK'
  BY CtxTypes, DefaultMetadataType
     DEF RamLost, TypeOK, JournalOK, Places, SlotsOrNone
<1>2. ControlInv'
  BY DEF RamLost, ControlInv, AppPlaces
<1>3. SessionInv'
  BY CtxTypes DEF RamLost, SessionInv
<1>4. MetadataCoherent'
  BY CtxTypes, DefaultCoherent DEF RamLost, MetadataCoherent, JournalOK
<1> QED BY <1>1, <1>2, <1>3, <1>4 DEF IInv

LEMMA InitInv == Init => IInv
<1> SUFFICES ASSUME Init PROVE IInv
  OBVIOUS
<1>1. TypeOK
  BY CtxTypes, DefaultMetadataType, EmptyJournal, CellTypes
     DEF Init, TypeOK, JournalOK, Places, SlotsOrNone
<1>2. ControlInv
  BY DEF Init, ControlInv, AppPlaces
<1>3. SessionInv
  BY CtxTypes DEF Init, SessionInv
<1>4. MetadataCoherent
  BY CtxTypes, DefaultCoherent, EmptyJournal DEF Init, MetadataCoherent, JournalOK
<1> QED BY <1>1, <1>2, <1>3, <1>4 DEF IInv

(* A jump to a slot that was found valid. *)
LEMMA JumpInv ==
  ASSUME IInv, NEW s \in Slots, JumpTo(s), JournalOK(journal'), slots' = slots,
         forceFlag' \in BOOLEAN, scan' = scan, commit' \in {commit, NoCommit},
         confirmSent' = confirmSent
  PROVE  IInv'
<1>1. TypeOK'
  BY CtxTypes, DefaultMetadataType
     DEF IInv, JumpTo, TypeOK, JournalOK, Places, SlotsOrNone, Slots
<1>2. ControlInv'
  BY DEF JumpTo, ControlInv, AppPlaces, Slots
<1>3. SessionInv'
  BY CtxTypes DEF JumpTo, SessionInv
<1>4. MetadataCoherent'
  BY CtxTypes, DefaultCoherent DEF IInv, JumpTo, MetadataCoherent, JournalOK
<1> QED BY <1>1, <1>2, <1>3, <1>4 DEF IInv

LEMMA AfterCommitInv ==
  ASSUME IInv, pc = "commit", NEW ok \in BOOLEAN, AfterCommit(ok),
         JournalOK(journal'), slots' = slots, forceFlag' = forceFlag
  PROVE  IInv'
<1> USE DEF IInv
<1>1. forceFlag' \in BOOLEAN
  BY DEF TypeOK
<1>2. CASE commit.ret = "ack" /\ ok
  BY <1>1, <1>2, RamLostInv DEF AfterCommit, TypeOK
<1>3. CASE commit.ret = "jump"
  <2>1. meta.pending \in Slots
    BY <1>3 DEF ControlInv
  <2> QED BY <1>1, <1>3, <2>1, JumpInv DEF AfterCommit
<1>4. CASE commit.ret \in {"flag", "fallback", "app"} \/ (commit.ret = "ack" /\ ~ok)
  <2>1. TypeOK'
    BY <1>4, CtxTypes DEF AfterCommit, TypeOK, JournalOK, Places
  <2>2. ControlInv'
    BY <1>4, CtxTypes DEF AfterCommit, ControlInv, AppPlaces, TypeOK
  <2>3. SessionInv'
    BY <1>4 DEF AfterCommit, SessionInv
  <2>4. MetadataCoherent'
    BY <1>4, CtxTypes DEF AfterCommit, MetadataCoherent, JournalOK
  <2> QED BY <2>1, <2>2, <2>3, <2>4
<1> QED BY <1>2, <1>3, <1>4 DEF AfterCommit

-----------------------------------------------------------------------------
(* Each action preserves the invariant. *)

LEMMA JournalKept ==
  ASSUME IInv
  PROVE  JournalOK(journal) /\ (journal' = journal => JournalOK(journal'))
BY DEF IInv, TypeOK, MetadataCoherent, JournalOK

LEMMA PowerOnInv == IInv /\ PowerOn => IInv'
<1> SUFFICES ASSUME IInv, PowerOn PROVE IInv'
  OBVIOUS
<1> USE DEF IInv, PowerOn, flash
<1>1. TypeOK' BY DEF TypeOK, Places
<1>2. ControlInv' BY DEF ControlInv, AppPlaces
<1>3. SessionInv' BY DEF SessionInv
<1>4. MetadataCoherent' BY DEF MetadataCoherent
<1> QED BY <1>1, <1>2, <1>3, <1>4

LEMMA ScanStepInv == IInv /\ ScanStep => IInv'
<1> SUFFICES ASSUME IInv, ScanStep PROVE IInv'
  OBVIOUS
<1> USE DEF IInv, ScanStep, flash
<1>1. scan.k \in 1..Len(journal) /\ journal[scan.k] \in Entry
  BY DEF TypeOK
<1>2. ScanBest(scan.best, journal[scan.k]) \in {scan.best, journal[scan.k]}
  BY DEF ScanBest
<1>3. CoherentMetadata(ScanBest(scan.best, journal[scan.k]).m)
  <2>1. CASE ScanBest(scan.best, journal[scan.k]) = scan.best
    BY <2>1 DEF MetadataCoherent
  <2>2. CASE journal[scan.k].ok
    <3>1. scan.k \in ValidEntries(journal)
      BY <1>1, <2>2 DEF ValidEntries, TypeOK
    <3> QED BY <1>2, <3>1 DEF MetadataCoherent
  <2> QED BY <2>1, <2>2 DEF ScanBest
<1>4. TypeOK' BY <1>1, <1>2 DEF TypeOK
<1>5. ControlInv' BY DEF ControlInv
<1>6. SessionInv' BY DEF SessionInv
<1>7. MetadataCoherent' BY <1>3 DEF MetadataCoherent
<1> QED BY <1>4, <1>5, <1>6, <1>7

LEMMA LoadMetadataInv == IInv /\ LoadMetadata => IInv'
<1> SUFFICES ASSUME IInv, LoadMetadata PROVE IInv'
  OBVIOUS
<1> USE DEF IInv, LoadMetadata, flash
<1>1. CommitRecord(DefaultMetadata) \in Metadata
      /\ CoherentMetadata(CommitRecord(DefaultMetadata))
  BY DefaultMetadataType, DefaultCoherent, CommitRecordType
<1>2. ~ctx.active
  BY DEF SessionInv
<1>3. TypeOK'
  BY <1>1, CtxTypes, DefaultMetadataType DEF TypeOK, StartCommit, Places, Returns, Entry
<1>4. ControlInv' BY DEF ControlInv, AppPlaces, StartCommit
<1>5. SessionInv' BY <1>2 DEF SessionInv, StartCommit
<1>6. MetadataCoherent'
  BY <1>1, CtxTypes, DefaultCoherent DEF MetadataCoherent, StartCommit
<1> QED BY <1>3, <1>4, <1>5, <1>6

LEMMA ConsumeForceFlagInv == IInv /\ ConsumeForceFlag => IInv'
<1> SUFFICES ASSUME IInv, ConsumeForceFlag PROVE IInv'
  OBVIOUS
<1> USE DEF IInv, ConsumeForceFlag, flash
<1>1. TypeOK' BY CtxTypes DEF TypeOK, Places
<1>2. ControlInv' BY DEF ControlInv, AppPlaces
<1>3. SessionInv' BY CtxTypes DEF SessionInv
<1>4. MetadataCoherent' BY DEF MetadataCoherent
<1> QED BY <1>1, <1>2, <1>3, <1>4

LEMMA SelectSlotInv == IInv /\ SelectSlot => IInv'
<1> SUFFICES ASSUME IInv, SelectSlot PROVE IInv'
  OBVIOUS
<1> USE DEF IInv, SelectSlot, flash
<1> DEFINE up == OneMoreAttempt(meta)
           rb == RolledBack(meta)
<1>0. meta \in Metadata /\ CoherentMetadata(meta) /\ run = "NONE"
  BY DEF TypeOK, MetadataCoherent, ControlInv, AppPlaces
<1>1. CASE meta.pending \notin Slots
  <2>1. TypeOK' BY <1>1 DEF TypeOK, Places
  <2>2. ControlInv' BY <1>1 DEF ControlInv, AppPlaces
  <2>3. SessionInv' BY <1>1 DEF SessionInv
  <2>4. MetadataCoherent' BY <1>1 DEF MetadataCoherent
  <2> QED BY <2>1, <2>2, <2>3, <2>4
<1>2. CASE meta.pending \in Slots /\ MayStartPending(meta)
  <2>1. up \in Metadata /\ CoherentMetadata(up)
    BY <1>0, <1>2, OneMoreAttemptType DEF MayStartPending
  <2>2. CommitRecord(up) \in Metadata /\ CoherentMetadata(CommitRecord(up))
    BY <2>1, CommitRecordType
  <2>3. /\ up.pending = meta.pending /\ up.active = meta.active
        /\ up.size = meta.size /\ up.crc = meta.crc
    BY <1>0 DEF OneMoreAttempt, Metadata
  <2>4. SlotImageValid(up, slots, up.pending)
    BY <1>2, <2>3 DEF MayStartPending, SlotImageValid
  <2> HIDE DEF up
  <2>5. /\ meta' = up /\ pc' = "commit" /\ slots' = slots /\ run' = run
        /\ commit' = [rec |-> CommitRecord(up), ret |-> "jump"]
    BY <1>2 DEF StartCommit, up
  <2>6. TypeOK' BY <2>1, <2>2, <2>5 DEF TypeOK, Places, Returns
  <2>7. ControlInv' BY <1>0, <1>2, <2>3, <2>4, <2>5 DEF ControlInv, AppPlaces
  <2>8. SessionInv' BY <2>3, <2>5 DEF SessionInv
  <2>9. MetadataCoherent' BY <2>1, <2>2, <2>5 DEF MetadataCoherent
  <2> QED BY <2>6, <2>7, <2>8, <2>9
<1>3. CASE meta.pending \in Slots /\ ~MayStartPending(meta)
  <2>1. rb \in Metadata /\ CoherentMetadata(rb)
    BY <1>0, <1>3, RolledBackType
  <2>2. CommitRecord(rb) \in Metadata /\ CoherentMetadata(CommitRecord(rb))
    BY <2>1, CommitRecordType
  <2>3. rb.active = meta.active
    BY <1>0 DEF RolledBack, Metadata
  <2> HIDE DEF rb
  <2>5. /\ meta' = rb /\ pc' = "commit" /\ slots' = slots /\ run' = run
        /\ commit' = [rec |-> CommitRecord(rb), ret |-> "fallback"]
    BY <1>3 DEF StartCommit, rb
  <2>6. TypeOK' BY <2>1, <2>2, <2>5 DEF TypeOK, Places, Returns
  <2>7. ControlInv' BY <1>0, <2>5 DEF ControlInv, AppPlaces
  <2>8. SessionInv' BY <2>3, <2>5 DEF SessionInv
  <2>9. MetadataCoherent' BY <2>1, <2>2, <2>5 DEF MetadataCoherent
  <2> QED BY <2>6, <2>7, <2>8, <2>9
<1> QED BY <1>1, <1>2, <1>3

LEMMA FallbackInv == IInv /\ Fallback => IInv'
<1> SUFFICES ASSUME IInv, Fallback PROVE IInv'
  OBVIOUS
<1> USE DEF Fallback, flash
<1>1. ASSUME NEW s \in Slots, JumpTo(s) PROVE IInv'
  <2>1. forceFlag' \in BOOLEAN /\ JournalOK(journal')
    BY JournalKept DEF IInv, TypeOK
  <2> QED BY <1>1, <2>1, JumpInv
<1>2. CASE pc' = "ota" /\ ctx' = ResetCtx /\ timed' = FALSE /\ UNCHANGED <<meta, run>>
  <2> USE DEF IInv
  <2>1. TypeOK' BY <1>2, CtxTypes DEF TypeOK, Places
  <2>2. ControlInv' BY <1>2 DEF ControlInv, AppPlaces
  <2>3. SessionInv' BY <1>2, CtxTypes DEF SessionInv
  <2>4. MetadataCoherent' BY <1>2 DEF MetadataCoherent
  <2> QED BY <2>1, <2>2, <2>3, <2>4
<1> QED BY <1>1, <1>2

LEMMA CommitWriteInv == IInv /\ CommitWrite => IInv'
<1> SUFFICES ASSUME IInv, CommitWrite PROVE IInv'
  OBVIOUS
<1> DEFINE e == [ok |-> TRUE, m |-> commit.rec]
<1>1. e \in Entry /\ CoherentMetadata(e.m) /\ TornEntry \in Entry /\ ~TornEntry.ok
  BY DefaultMetadataType DEF IInv, TypeOK, MetadataCoherent, Entry, TornEntry
<1>2. JournalOK(Append(journal, e)) /\ JournalOK(Append(journal, TornEntry))
  <2> HIDE DEF e
  <2> QED BY <1>1, JournalKept, AppendJournal DEF CommitWrite
<1>3. JournalOK(journal')
  BY <1>2, JournalKept DEF CommitWrite
<1> QED BY <1>3, AfterCommitInv DEF CommitWrite

LEMMA CommitEraseInv == IInv /\ CommitErase => IInv'
<1> SUFFICES ASSUME IInv, CommitErase PROVE IInv'
  OBVIOUS
<1> USE DEF CommitErase
<1>1. JournalOK(journal')
  BY JournalKept, EmptyJournal, TornJournal
<1>2. CASE UNCHANGED <<forceFlag, pc, scan, meta, ctx, timed, commit, run, confirmSent>>
  <2> USE DEF IInv
  <2>1. TypeOK' BY <1>1, <1>2 DEF TypeOK, JournalOK
  <2>2. ControlInv' BY <1>2 DEF ControlInv
  <2>3. SessionInv' BY <1>2 DEF SessionInv
  <2>4. MetadataCoherent' BY <1>1, <1>2 DEF MetadataCoherent, JournalOK
  <2> QED BY <2>1, <2>2, <2>3, <2>4
<1>3. CASE AfterCommit(FALSE) /\ UNCHANGED forceFlag
  BY <1>1, <1>3, AfterCommitInv
<1> QED BY <1>2, <1>3

(* What the OTA handlers leave alone. *)
LEMMA OtaFrame ==
  ASSUME IInv, pc = "ota", pc' = "ota", slots' \in [Slots -> SlotContents],
         ctx' \in Contexts,
         ctx'.active => ctx'.target \in Slots /\ ctx'.target # meta.active,
         UNCHANGED <<journal, forceFlag, scan, meta, timed, commit, run, confirmSent>>
  PROVE  IInv'
<1> USE DEF IInv
<1>1. TypeOK' BY DEF TypeOK
<1>2. ControlInv' BY DEF ControlInv, AppPlaces
<1>3. SessionInv' BY DEF SessionInv
<1>4. MetadataCoherent' BY DEF MetadataCoherent
<1> QED BY <1>1, <1>2, <1>3, <1>4

(* bl_prepare_target_allowed refuses the active slot of a coherent record. *)
LEMMA TargetNotActive ==
  ASSUME NEW m \in Metadata, CoherentMetadata(m), NEW t, PrepareTargetAllowed(m, t)
  PROVE  t \in Slots /\ t # m.active
BY DEF CoherentMetadata, PrepareTargetAllowed, Slots

LEMMA HandlePrepareInv ==
  ASSUME IInv, NEW f \in Offers, HandlePrepare(f)
  PROVE  IInv'
<1> USE DEF HandlePrepare
<1> DEFINE t == PrepareTarget(meta, f)
<1>1. meta \in Metadata /\ CoherentMetadata(meta) /\ ctx \in Contexts
      /\ slots \in [Slots -> SlotContents] /\ f \in PrepareFrames
  BY OffersAssumption DEF IInv, TypeOK, MetadataCoherent
<1>2. /\ PrepareScratch(ctx, f) \in Contexts
      /\ PrepareScratch(ctx, f).active = ctx.active
      /\ PrepareScratch(ctx, f).target = ctx.target
  BY <1>1 DEF PrepareScratch, Contexts, PrepareFrames
<1>3. ctx.active => ctx.target \in Slots /\ ctx.target # meta.active
  BY DEF IInv, SessionInv
<1>4. CASE PrepareError(meta, f) # "OK"
  BY <1>1, <1>2, <1>3, <1>4, OtaFrame
<1>5. CASE PrepareError(meta, f) = "OK"
  <2>1. f.size \in 0..(SlotBlocks + 1) /\ PrepareTargetAllowed(meta, t)
    BY <1>1, <1>5 DEF PrepareError, PrepareFrames
  <2>2. t \in Slots /\ t # meta.active
    BY <1>1, <2>1, TargetNotActive
  <2> HIDE DEF t
  <2>3. /\ PreparedCtx(f, t) \in Contexts
        /\ PreparedCtx(f, t).target = t
    BY <1>1, <2>2, OtaSeqNextType, ImagesAssumption
       DEF PreparedCtx, Contexts, PrepareFrames, SlotsOrNone, Slots
  <2>4. /\ [slots EXCEPT ![t] = ErasedSlot] \in [Slots -> SlotContents]
        /\ [slots EXCEPT ![t] = JunkSlot] \in [Slots -> SlotContents]
    BY <1>1, CellTypes
  <2>5. CASE slots' = [slots EXCEPT ![t] = ErasedSlot] /\ ctx' = PreparedCtx(f, t)
    BY <2>2, <2>3, <2>4, <2>5, OtaFrame
  <2>6. CASE slots' = [slots EXCEPT ![t] = JunkSlot] /\ ctx' = PrepareScratch(ctx, f)
    BY <1>2, <1>3, <2>4, <2>6, OtaFrame
  <2> QED BY <1>5, <2>5, <2>6 DEF t
<1> QED BY <1>4, <1>5

LEMMA HandleDataInv ==
  ASSUME IInv, NEW f \in DataFrames, HandleData(f)
  PROVE  IInv'
<1> USE DEF HandleData
<1>1. ctx \in Contexts /\ slots \in [Slots -> SlotContents]
  BY DEF IInv, TypeOK
<1>2. f.img \in Images /\ f.n \in 1..SlotBlocks
  BY DEF DataFrames
<1>3. ctx.active /\ f.n - 1 = ctx.offset
  BY DEF DataError
<1>4. ctx.target \in Slots /\ ctx.target # meta.active
  BY <1>3 DEF IInv, SessionInv
<1>5. DataWritten(ctx) \in Contexts /\ DataWritten(ctx).target = ctx.target
  <2>1. ctx.offset \in Nat /\ ctx.expected \in OtaSeqs
    BY <1>1, ImagesAssumption DEF Contexts
  <2>2. ctx.offset + 1 \in 0..SlotBlocks
    BY <1>2, <1>3, <2>1, ImagesAssumption
  <2>3. OtaSeqNext(ctx.expected) \in OtaSeqs
    BY <2>1, OtaSeqNextType
  <2> HIDE DEF HandleData
  <2> QED BY <1>1, <2>2, <2>3 DEF DataWritten, Contexts
<1>6. CASE /\ slots' = [slots EXCEPT ![ctx.target][f.n] = Whole(f.img, f.n)]
           /\ ctx' = DataWritten(ctx)
  <2>1. slots' \in [Slots -> SlotContents]
    BY <1>1, <1>2, <1>4, <1>6, CellTypes, SlotUpdate
  <2> QED BY <1>4, <1>5, <1>6, <2>1, OtaFrame
<1>7. CASE /\ slots' = [slots EXCEPT ![ctx.target][f.n] =
                          ProgramFailed(slots[ctx.target][f.n], f)]
           /\ ctx' = ctx
  <2>1. slots' \in [Slots -> SlotContents]
    BY <1>1, <1>2, <1>4, <1>7, ProgramFailedType, SlotUpdate
  <2> QED BY <1>1, <1>4, <1>7, <2>1, OtaFrame
<1> QED BY <1>6, <1>7

LEMMA HandleVerifyInv ==
  ASSUME IInv, NEW f, HandleVerify(f)
  PROVE  IInv'
<1> USE DEF HandleVerify
<1>1. ctx \in Contexts /\ slots \in [Slots -> SlotContents]
  BY DEF IInv, TypeOK
<1>2. Verified(ctx) \in Contexts /\ Verified(ctx).target = ctx.target
      /\ Verified(ctx).active = ctx.active
  BY <1>1, OtaSeqNextType DEF Verified, Contexts
<1>3. ctx.active => ctx.target \in Slots /\ ctx.target # meta.active
  BY DEF IInv, SessionInv
<1> QED BY <1>1, <1>2, <1>3, OtaFrame DEF flash

LEMMA HandleCommitInv ==
  ASSUME IInv, NEW f, HandleCommit(f)
  PROVE  IInv'
<1> DEFINE r == CommitRecord(PendingMetadata(meta, ctx))
<1>1. ctx.active /\ ctx.target \in Slots /\ ctx.target # meta.active
  BY DEF IInv, SessionInv, HandleCommit, CommitError
<1>2. r \in Metadata /\ CoherentMetadata(r)
  <2>1. PendingMetadata(meta, ctx) \in Metadata /\ CoherentMetadata(PendingMetadata(meta, ctx))
    BY <1>1, PendingMetadataType DEF IInv, TypeOK, MetadataCoherent
  <2> QED BY <2>1, CommitRecordType
<1> HIDE DEF r
<1>3. /\ pc = "ota" /\ pc' = "commit" /\ commit' = [rec |-> r, ret |-> "ack"]
      /\ UNCHANGED <<flash, forceFlag, scan, meta, ctx, timed, run, confirmSent>>
  BY DEF HandleCommit, StartCommit, r
<1> USE DEF IInv, flash
<1>4. TypeOK' BY <1>2, <1>3 DEF TypeOK, Places, Returns
<1>5. ControlInv' BY <1>3 DEF ControlInv, AppPlaces
<1>6. SessionInv' BY <1>3 DEF SessionInv
<1>7. MetadataCoherent' BY <1>2, <1>3 DEF MetadataCoherent
<1> QED BY <1>4, <1>5, <1>6, <1>7

LEMMA HandleAbortInv == IInv /\ HandleAbort => IInv'
<1> SUFFICES ASSUME IInv, HandleAbort PROVE IInv'
  OBVIOUS
<1>1. slots \in [Slots -> SlotContents]
  BY DEF IInv, TypeOK
<1> QED BY <1>1, CtxTypes, OtaFrame DEF HandleAbort, flash

LEMMA IdleTimeoutInv == IInv /\ IdleTimeout => IInv'
<1> SUFFICES ASSUME IInv, IdleTimeout PROVE IInv'
  OBVIOUS
<1> USE DEF IInv, IdleTimeout, flash
<1>1. TypeOK' BY DEF TypeOK, Places
<1>2. ControlInv' BY DEF ControlInv, AppPlaces
<1>3. SessionInv' BY DEF SessionInv
<1>4. MetadataCoherent' BY DEF MetadataCoherent
<1> QED BY <1>1, <1>2, <1>3, <1>4

LEMMA AppStartConfirmInv == IInv /\ AppStartConfirm => IInv'
<1> SUFFICES ASSUME IInv, AppStartConfirm PROVE IInv'
  OBVIOUS
<1> USE DEF IInv, AppStartConfirm, flash
<1>1. TypeOK' BY DEF TypeOK, Places
<1>2. ControlInv' BY DEF ControlInv, AppPlaces
<1>3. SessionInv' BY DEF SessionInv
<1>4. MetadataCoherent' BY DEF MetadataCoherent
<1> QED BY <1>1, <1>2, <1>3, <1>4

LEMMA AppConfirmInv == IInv /\ AppConfirm => IInv'
<1> SUFFICES ASSUME IInv, AppConfirm PROVE IInv'
  OBVIOUS
<1> USE DEF IInv, AppConfirm, flash
<1>1. /\ run \in Slots /\ CurrentSlot \in Slots
      /\ scan.best.m \in Metadata /\ CoherentMetadata(scan.best.m)
  BY DEF ControlInv, AppPlaces, TypeOK, MetadataCoherent, Entry, CurrentSlot, Slots
<1>2. /\ ConfirmedMetadata(scan.best.m, CurrentSlot) \in Metadata
      /\ CoherentMetadata(ConfirmedMetadata(scan.best.m, CurrentSlot))
  BY <1>1, ConfirmedMetadataType
<1>3. TypeOK' BY <1>2, CtxTypes DEF TypeOK, StartCommit, Places, Returns
<1>4. ControlInv' BY <1>1 DEF ControlInv, AppPlaces, StartCommit
<1>5. SessionInv' BY DEF SessionInv, StartCommit
<1>6. MetadataCoherent' BY <1>2, CtxTypes DEF MetadataCoherent, StartCommit
<1> QED BY <1>3, <1>4, <1>5, <1>6

LEMMA ResetInv == IInv /\ (AppRebootToBootloader \/ Reset) => IInv'
<1> SUFFICES ASSUME IInv, AppRebootToBootloader \/ Reset PROVE IInv'
  OBVIOUS
<1> USE DEF AppRebootToBootloader, Reset, flash
<1>1. JournalOK(journal')
  BY JournalKept
<1>2. slots' \in [Slots -> SlotContents] /\ forceFlag' \in BOOLEAN
  BY DEF IInv, TypeOK
<1> QED BY <1>1, <1>2, RamLostInv

LEMMA StutterInv == IInv /\ UNCHANGED vars => IInv'
<1> SUFFICES ASSUME IInv, UNCHANGED vars PROVE IInv'
  OBVIOUS
<1> USE DEF IInv, vars
<1>1. TypeOK' BY DEF TypeOK
<1>2. ControlInv' BY DEF ControlInv
<1>3. SessionInv' BY DEF SessionInv
<1>4. MetadataCoherent' BY DEF MetadataCoherent
<1> QED BY <1>1, <1>2, <1>3, <1>4

-----------------------------------------------------------------------------
LEMMA StepInv == ASSUME IInv, [Next]_vars PROVE IInv'
<1>1. CASE BootStep
  BY <1>1, PowerOnInv, ScanStepInv, LoadMetadataInv, ConsumeForceFlagInv, SelectSlotInv,
     FallbackInv, CommitWriteInv, CommitEraseInv DEF BootStep
<1>2. CASE OtaStep
  BY <1>2, HandlePrepareInv, HandleDataInv, HandleVerifyInv, HandleCommitInv,
     HandleAbortInv, IdleTimeoutInv DEF OtaStep
<1>3. CASE AppStep
  BY <1>3, AppStartConfirmInv, AppConfirmInv, ResetInv DEF AppStep
<1>4. CASE Reset
  BY <1>4, ResetInv
<1>5. CASE UNCHANGED vars
  BY <1>5, StutterInv
<1> QED BY <1>1, <1>2, <1>3, <1>4, <1>5 DEF Next

(* The strengthened invariant of the device. *)
THEOREM Invariant == Spec => []IInv
BY InitInv, StepInv, PTL DEF Spec

(* Every variable keeps its type: no record number, frame number, attempt  *)
(* counter or version leaves its range, and the journal never outgrows the *)
(* sector.                                                                 *)
THEOREM TypeCorrect == Spec => []TypeOK
<1>1. IInv => TypeOK
  BY DEF IInv
<1> QED BY <1>1, Invariant, PTL

(* Every record bl_metadata_commit or ota_meta_commit stores, and every    *)
(* record the bootloader decides on, names one active and confirmed slot   *)
(* that is neither pending nor rolled back, for any journal size, any      *)
(* faults and any frames.                                                  *)
THEOREM RecordsCoherent == Spec => []MetadataCoherent
<1>1. IInv => MetadataCoherent
  BY DEF IInv
<1> QED BY <1>1, Invariant, PTL

-----------------------------------------------------------------------------
(* A running application needs its own strengthening: its slot passed      *)
(* bl_slot_image_valid when it was started and is not written while it     *)
(* runs.                                                                   *)
LEMMA SlotsChangeInOta ==
  ASSUME IInv, [Next]_vars, slots' # slots
  PROVE  pc = "ota"
BY DEF Next, vars, flash, BootStep, OtaStep, AppStep, PowerOn, ScanStep, LoadMetadata,
       ConsumeForceFlag, SelectSlot, Fallback, CommitWrite, CommitErase, HandlePrepare,
       HandleData, HandleVerify, HandleCommit, HandleAbort, IdleTimeout,
       AppStartConfirm, AppConfirm, AppRebootToBootloader, Reset

(* Every start of an application goes through bl_slot_image_valid. *)
LEMMA RunChanges ==
  ASSUME IInv, [Next]_vars, run' # run, run' # "NONE"
  PROVE  run' \in Slots /\ SlotImageValid(meta, slots, run') /\ slots' = slots
<1>1. CASE Fallback
  BY <1>1 DEF Fallback, JumpTo, flash
<1>2. CASE pc = "commit" /\ \E ok \in BOOLEAN : AfterCommit(ok) /\ slots' = slots
  <2>1. PICK ok \in BOOLEAN : AfterCommit(ok) /\ slots' = slots
    BY <1>2
  <2>2. commit.ret = "jump" /\ run' = meta.pending
    BY <2>1 DEF AfterCommit, JumpTo, RamLost
  <2> QED BY <1>2, <2>1, <2>2 DEF IInv, ControlInv
<1>3. CASE CommitWrite \/ CommitErase
  BY <1>2, <1>3 DEF CommitWrite, CommitErase
<1>4. CASE PowerOn \/ ScanStep \/ LoadMetadata \/ ConsumeForceFlag \/ SelectSlot
  BY <1>4 DEF PowerOn, ScanStep, LoadMetadata, ConsumeForceFlag, SelectSlot
<1>5. CASE OtaStep
  BY <1>5 DEF OtaStep, HandlePrepare, HandleData, HandleVerify, HandleCommit, HandleAbort,
              IdleTimeout
<1>6. CASE AppStep \/ Reset
  BY <1>6 DEF AppStep, AppStartConfirm, AppConfirm, AppRebootToBootloader, Reset, RamLost
<1> QED BY <1>1, <1>3, <1>4, <1>5, <1>6 DEF Next, BootStep, vars

(* An application that runs is a complete image with a usable vector       *)
(* table: bl_slot_image_valid is passed before every jump, and no later    *)
(* step writes the slot while it runs.                                     *)
THEOREM RunningIntact == Spec => []RunningImageIntact
<1>1. Init => RunningImageIntact
  BY DEF Init, RunningImageIntact
<1>2. IInv /\ RunningImageIntact /\ [Next]_vars => RunningImageIntact'
  <2> SUFFICES ASSUME IInv, RunningImageIntact, [Next]_vars, run' # "NONE"
               PROVE  RunningImageIntact'
    BY DEF RunningImageIntact
  <2>1. CASE run' = run
    <3>1. pc # "ota"
      BY <2>1 DEF IInv, ControlInv, AppPlaces
    <3>2. slots' = slots
      BY <3>1, SlotsChangeInOta
    <3> QED BY <2>1, <3>2 DEF RunningImageIntact
  <2>2. CASE run' # run
    <3>1. run' \in Slots /\ SlotImageValid(meta, slots, run') /\ slots' = slots
      BY <2>2, RunChanges
    <3>2. \E i \in Images : CrcMatches(slots[run'], Size[i], i) /\ Linked[i] # "nowhere"
      BY <3>1, ValidSlotIntact DEF IInv, TypeOK
    <3> QED BY <3>1, <3>2 DEF RunningImageIntact
  <2> QED BY <2>1, <2>2
<1> QED BY <1>1, <1>2, Invariant, PTL DEF Spec

-----------------------------------------------------------------------------
(* The journal.  Two records of which the second was stored n places later *)
(* are at most n sequence numbers apart, or n + 1 when the numbers wrapped *)
(* around in between, because 0 may be skipped.                            *)
SeqNear(a, b, n) ==
  \/ a <= b /\ b - a <= n
  \/ b < a /\ b + SeqMod - a <= n + 1

SeqOrdered(j) ==
  \A i, k \in ValidEntries(j) : i < k => SeqNear(j[i].m.seq, j[k].m.seq, k - i)

(* A record with sequence number q may be stored n places after the end. *)
SeqFollows(j, q, n) ==
  \A i \in ValidEntries(j) : SeqNear(j[i].m.seq, q, Len(j) + n - i)

OrderedJournal(j) == j \in Seq(Entry) /\ Len(j) <= MaxRecords /\ SeqOrdered(j)

SeqNumbers == 0..(SeqMod - 1)

(* The comparison of bl_meta_seq_is_newer on near numbers. *)
LEMMA NearNewer ==
  ASSUME NEW a \in SeqNumbers, NEW b \in SeqNumbers, NEW n \in Nat, n < MaxRecords,
         SeqNear(a, b, n)
  PROVE  /\ ~SeqIsNewer(a, b)
         /\ SeqIsNewer(b, a) <=> a # b
<1> USE JournalAssumption DEF SeqNumbers
<1>1. CASE a = b
  <2>1. (a - b) % SeqMod = 0 /\ (b - a) % SeqMod = 0
    BY <1>1
  <2> QED BY <1>1, <2>1 DEF SeqIsNewer
<1>2. CASE a < b
  <2>1. (b - a) % SeqMod = b - a /\ (a - b) % SeqMod = a - b + SeqMod
    BY <1>2
  <2>2. b - a <= n
    BY <1>2 DEF SeqNear
  <2> QED BY <1>2, <2>1, <2>2 DEF SeqIsNewer
<1>3. CASE b < a
  <2>1. (a - b) % SeqMod = a - b /\ (b - a) % SeqMod = b - a + SeqMod
    BY <1>3
  <2>2. b + SeqMod - a <= n + 1
    BY <1>3 DEF SeqNear
  <2> QED BY <1>3, <2>1, <2>2 DEF SeqIsNewer
<1> QED BY <1>1, <1>2, <1>3

(* Near numbers never come back to where they started. *)
LEMMA NearNoReturn ==
  ASSUME NEW a \in SeqNumbers, NEW b \in SeqNumbers, NEW n \in Nat, NEW l \in Nat,
         n + l < MaxRecords, SeqNear(a, b, n), SeqNear(b, a, l)
  PROVE  a = b
BY JournalAssumption DEF SeqNumbers, SeqNear

LEMMA NearLater ==
  ASSUME NEW a \in SeqNumbers, NEW b \in SeqNumbers, NEW n \in Nat, NEW l \in Nat, n <= l,
         SeqNear(a, b, n)
  PROVE  SeqNear(a, b, l)
BY JournalAssumption DEF SeqNumbers, SeqNear

(* A commit keeps the number, takes the next one, or the one after that    *)
(* when the next one is 0.                                                 *)
LEMMA NearNext ==
  ASSUME NEW a \in SeqNumbers, NEW b \in SeqNumbers, NEW n \in Nat, n < MaxRecords,
         SeqNear(a, b, n)
  PROVE  /\ SeqNear(a, b, n + 1)
         /\ SeqNear(a, SeqNext(b), n + 1)
         /\ SeqNext(b) = 0 => SeqNear(a, 1, n + 1)
<1> USE JournalAssumption DEF SeqNumbers
<1>1. SeqNext(b) = IF b = SeqMod - 1 THEN 0 ELSE b + 1
  BY DEF SeqNext
<1>2. SeqNear(a, b, n + 1) BY DEF SeqNear
<1>3. SeqNear(a, SeqNext(b), n + 1) BY <1>1 DEF SeqNear
<1>4. SeqNext(b) = 0 => SeqNear(a, 1, n + 1) BY <1>1 DEF SeqNear
<1> QED BY <1>2, <1>3, <1>4

LEMMA NatLeast ==
  ASSUME NEW T \in SUBSET Nat, T # {}
  PROVE  \E x \in T : \A y \in T : x <= y
<1> DEFINE U == {1..x : x \in T}
           R == StrictSubsetOrdering(Nat)
<1>1. U \subseteq FiniteSubsetsOf(Nat) /\ U # {}
  <2>1. ASSUME NEW x \in T PROVE 1..x \in FiniteSubsetsOf(Nat)
    <3>1. IsFiniteSet(1..x) /\ 1..x \in SUBSET Nat
      BY FS_Interval
    <3> QED BY <3>1 DEF FiniteSubsetsOf
  <2> QED BY <2>1
<1>2. IsWellFoundedOn(R, FiniteSubsetsOf(Nat))
  BY FS_StrictSubsetOrderingWellFounded
<1>3. PICK u \in U : \A v \in U : ~(<<v, u>> \in R)
  <2> HIDE DEF U, R
  <2> QED BY <1>1, <1>2, WFMin
<1>4. PICK x \in T : u = 1..x
  OBVIOUS
<1>5. ASSUME NEW y \in T, y < x PROVE FALSE
  <2>1. 1..y \subseteq 1..x /\ x \in 1..x /\ x \notin 1..y
    BY <1>5
  <2>2. <<1..y, 1..x>> \in R
    BY <2>1 DEF StrictSubsetOrdering
  <2> QED BY <1>3, <1>4, <2>2
<1> QED BY <1>5

(* Entries and their numbers *)
LEMMA EntryTypes ==
  ASSUME NEW j \in Seq(Entry)
  PROVE  /\ ValidEntries(j) \subseteq 1..Len(j)
         /\ Len(j) \in Nat
         /\ \A k \in 1..Len(j) : /\ j[k] \in Entry
                                 /\ j[k].m \in Metadata
                                 /\ j[k].m.seq \in SeqNumbers
<1>1. ASSUME NEW k \in 1..Len(j)
      PROVE  j[k] \in Entry /\ j[k].m \in Metadata /\ j[k].m.seq \in SeqNumbers
  <2>1. j[k] \in Entry
    OBVIOUS
  <2>2. j[k].m \in Metadata
    BY <2>1 DEF Entry
  <2> QED BY <2>1, <2>2, MetadataFields DEF SeqNumbers
<1>2. Len(j) \in Nat /\ DOMAIN j = 1..Len(j)
  OBVIOUS
<1> QED BY <1>1, <1>2 DEF ValidEntries

(* Of two valid entries the later one is newer, or has the same number. *)
LEMMA EntriesNear ==
  ASSUME NEW j, OrderedJournal(j), NEW i \in ValidEntries(j), NEW k \in ValidEntries(j), i < k
  PROVE  /\ ~SeqIsNewer(j[i].m.seq, j[k].m.seq)
         /\ SeqIsNewer(j[k].m.seq, j[i].m.seq) <=> j[i].m.seq # j[k].m.seq
<1>1. /\ i \in 1..Len(j) /\ k \in 1..Len(j) /\ Len(j) <= MaxRecords /\ Len(j) \in Nat
      /\ j[i].m.seq \in SeqNumbers /\ j[k].m.seq \in SeqNumbers
  BY EntryTypes DEF OrderedJournal
<1>2. k - i \in Nat /\ k - i < MaxRecords
  BY <1>1, JournalAssumption
<1>3. SeqNear(j[i].m.seq, j[k].m.seq, k - i)
  BY DEF OrderedJournal, SeqOrdered
<1> QED BY <1>1, <1>2, <1>3, NearNewer

LEMMA NotNewerThanSelf == \A q \in SeqNumbers : ~SeqIsNewer(q, q)
BY JournalAssumption DEF SeqIsNewer, SeqNumbers

(* In an ordered journal the newest entry is the first of those that carry *)
(* the last number.                                                        *)
LEMMA LatestIndex ==
  ASSUME NEW j, OrderedJournal(j), NEW k \in ValidEntries(j),
         \A n \in ValidEntries(j) : n > k => j[n].m.seq = j[k].m.seq,
         \A n \in ValidEntries(j) : n < k => j[n].m.seq # j[k].m.seq
  PROVE  IsLatest(j, k)
<1>1. /\ \A n \in ValidEntries(j) : n \in Int /\ j[n].m.seq \in SeqNumbers
      /\ k \in Int
  BY EntryTypes DEF OrderedJournal
<1>2. ASSUME NEW n \in ValidEntries(j) PROVE ~SeqIsNewer(j[n].m.seq, j[k].m.seq)
  <2>1. CASE n < k
    BY <2>1, EntriesNear
  <2>2. CASE n = k
    BY <1>1, <2>2, NotNewerThanSelf
  <2>3. CASE n > k
    BY <1>1, <2>3, NotNewerThanSelf
  <2> QED BY <1>1, <2>1, <2>2, <2>3
<1>3. ASSUME NEW n \in ValidEntries(j), n < k PROVE SeqIsNewer(j[k].m.seq, j[n].m.seq)
  BY <1>3, EntriesNear
<1> QED BY <1>2, <1>3 DEF IsLatest

LEMMA LatestUnique ==
  ASSUME NEW j \in Seq(Entry), NEW k, IsLatest(j, k)
  PROVE  Latest(j) = j[k] /\ Latest(j).ok
<1> DEFINE K == {n \in DOMAIN j : IsLatest(j, n)}
<1>1. k \in ValidEntries(j) /\ k \in K
  BY DEF IsLatest, ValidEntries
<1>2. ASSUME NEW n \in K PROVE n = k
  <2>1. n \in ValidEntries(j) /\ IsLatest(j, n)
    BY <1>2 DEF IsLatest
  <2>2. n \in Int /\ k \in Int
    BY <1>1, <2>1, EntryTypes
  <2>3. ~(n < k)
    BY <1>1, <2>1 DEF IsLatest
  <2>4. ~(k < n)
    BY <1>1, <2>1 DEF IsLatest
  <2> QED BY <2>2, <2>3, <2>4
<1>3. (CHOOSE n \in K : TRUE) = k
  BY <1>1, <1>2
<1>4. Latest(j) = j[k]
  BY <1>1, <1>3 DEF Latest
<1> QED BY <1>1, <1>4 DEF ValidEntries

LEMMA LatestExists ==
  ASSUME NEW j, OrderedJournal(j), ValidEntries(j) # {}
  PROVE  \E k \in ValidEntries(j) :
           /\ IsLatest(j, k)
           /\ \A n \in ValidEntries(j) : n > k => j[n].m.seq = j[k].m.seq
<1>1. /\ \A n \in ValidEntries(j) : n \in 1..Len(j) /\ j[n].m.seq \in SeqNumbers
      /\ Len(j) \in Nat /\ Len(j) <= MaxRecords
  BY EntryTypes DEF OrderedJournal
<1>2. PICK v \in ValidEntries(j) : \A n \in ValidEntries(j) : n <= v
  <2> DEFINE T == {Len(j) - n : n \in ValidEntries(j)}
  <2>1. T \in SUBSET Nat /\ T # {}
    BY <1>1
  <2>2. PICK x \in T : \A y \in T : x <= y
    <3> HIDE DEF T
    <3> QED BY <2>1, NatLeast
  <2>3. PICK v \in ValidEntries(j) : x = Len(j) - v
    BY <2>2
  <2>4. ASSUME NEW n \in ValidEntries(j) PROVE n <= v
    <3>1. Len(j) - n \in T
      OBVIOUS
    <3>2. Len(j) - v <= Len(j) - n
      BY <2>2, <2>3, <3>1
    <3> QED BY <1>1, <3>2
  <2> QED BY <2>4
<1>3. PICK k \in ValidEntries(j) :
        /\ j[k].m.seq = j[v].m.seq
        /\ \A n \in ValidEntries(j) : j[n].m.seq = j[v].m.seq => k <= n
  <2> DEFINE T == {n \in ValidEntries(j) : j[n].m.seq = j[v].m.seq}
  <2>1. T \in SUBSET Nat /\ v \in T
    BY <1>1
  <2>2. PICK x \in T : \A y \in T : x <= y
    <3> HIDE DEF T
    <3> QED BY <2>1, NatLeast
  <2> QED BY <2>2
<1>4. ASSUME NEW n \in ValidEntries(j), n > k PROVE j[n].m.seq = j[k].m.seq
  <2>1. CASE n = v
    BY <1>3, <2>1
  <2>2. CASE n # v
    <3>1. /\ k < n /\ n < v /\ k \in Nat /\ n \in Nat /\ v \in Nat /\ v <= MaxRecords
          /\ k >= 1 /\ MaxRecords \in Nat
      BY <1>1, <1>2, <1>4, <2>2, JournalAssumption
    <3>2. /\ SeqNear(j[k].m.seq, j[n].m.seq, n - k)
          /\ SeqNear(j[n].m.seq, j[k].m.seq, v - n)
      BY <1>3, <3>1 DEF OrderedJournal, SeqOrdered
    <3>3. n - k \in Nat /\ v - n \in Nat /\ (n - k) + (v - n) < MaxRecords
      BY <3>1
    <3>4. j[k].m.seq \in SeqNumbers /\ j[n].m.seq \in SeqNumbers
      BY <1>1
    <3> QED BY <3>2, <3>3, <3>4, NearNoReturn
  <2> QED BY <2>1, <2>2
<1>5. ASSUME NEW n \in ValidEntries(j), n < k PROVE j[n].m.seq # j[k].m.seq
  BY <1>1, <1>3, <1>5
<1>6. IsLatest(j, k)
  BY <1>4, <1>5, LatestIndex
<1> QED BY <1>4, <1>6

(* Latest(j) is a record of the journal unless the journal has none. *)
LEMMA LatestNone ==
  ASSUME NEW j, ValidEntries(j) = {}
  PROVE  Latest(j) = TornEntry /\ ~Latest(j).ok
<1>1. {k \in DOMAIN j : IsLatest(j, k)} = {}
  BY DEF IsLatest
<1>2. Latest(j) = TornEntry
  BY <1>1 DEF Latest
<1> QED BY <1>2 DEF TornEntry

LEMMA LatestRecord ==
  ASSUME NEW j, OrderedJournal(j), Latest(j).ok
  PROVE  \E k \in ValidEntries(j) :
           /\ IsLatest(j, k)
           /\ Latest(j) = j[k]
           /\ \A n \in ValidEntries(j) : n > k => j[n].m.seq = j[k].m.seq
<1>1. ValidEntries(j) # {}
  BY LatestNone
<1>2. PICK k \in ValidEntries(j) :
        /\ IsLatest(j, k)
        /\ \A n \in ValidEntries(j) : n > k => j[n].m.seq = j[k].m.seq
  BY <1>1, LatestExists
<1>3. Latest(j) = j[k]
  BY <1>2, LatestUnique DEF OrderedJournal
<1> QED BY <1>2, <1>3

LEMMA LatestOk ==
  ASSUME NEW j, OrderedJournal(j)
  PROVE  /\ Latest(j).ok <=> ValidEntries(j) # {}
         /\ Latest(j) \in Entry
<1>1. ASSUME ValidEntries(j) # {} PROVE Latest(j).ok /\ Latest(j) \in Entry
  <2>1. PICK k \in ValidEntries(j) : IsLatest(j, k)
    BY <1>1, LatestExists
  <2>2. Latest(j) = j[k] /\ Latest(j).ok
    BY <2>1, LatestUnique DEF OrderedJournal
  <2> QED BY <2>2, EntryTypes DEF OrderedJournal
<1>2. ASSUME ValidEntries(j) = {} PROVE ~Latest(j).ok /\ Latest(j) \in Entry
  BY <1>2, LatestNone, DefaultMetadataType
<1> QED BY <1>1, <1>2

LEMMA AppendEntries ==
  ASSUME NEW j \in Seq(Entry), NEW e \in Entry
  PROVE  /\ Append(j, e) \in Seq(Entry)
         /\ Len(Append(j, e)) = Len(j) + 1
         /\ \A k \in 1..Len(j) : Append(j, e)[k] = j[k]
         /\ Append(j, e)[Len(j) + 1] = e
         /\ \A k : k \in ValidEntries(Append(j, e)) <=>
                     k \in ValidEntries(j) \/ (k = Len(j) + 1 /\ e.ok)
<1> DEFINE a == Append(j, e)
<1>1. /\ a \in Seq(Entry) /\ Len(a) = Len(j) + 1 /\ a[Len(j) + 1] = e
      /\ \A k \in 1..Len(j) : a[k] = j[k]
  OBVIOUS
<1>2. DOMAIN a = 1..(Len(j) + 1) /\ DOMAIN j = 1..Len(j) /\ Len(j) \in Nat
  OBVIOUS
<1> HIDE DEF a
<1>3. \A k : k \in ValidEntries(a) <=> k \in ValidEntries(j) \/ (k = Len(j) + 1 /\ e.ok)
  BY <1>1, <1>2 DEF ValidEntries
<1> QED BY <1>1, <1>3 DEF a

LEMMA AppendOrdered ==
  ASSUME NEW j, OrderedJournal(j), Len(j) < MaxRecords, NEW e \in Entry,
         e.ok => SeqFollows(j, e.m.seq, 1)
  PROVE  OrderedJournal(Append(j, e))
<1> DEFINE a == Append(j, e)
<1>1. /\ j \in Seq(Entry) /\ Len(j) \in Nat /\ ValidEntries(j) \subseteq 1..Len(j)
  BY EntryTypes DEF OrderedJournal
<1>2. /\ a \in Seq(Entry) /\ Len(a) = Len(j) + 1 /\ a[Len(j) + 1] = e
      /\ \A k \in 1..Len(j) : a[k] = j[k]
      /\ \A k : k \in ValidEntries(a) <=> k \in ValidEntries(j) \/ (k = Len(j) + 1 /\ e.ok)
  BY <1>1, AppendEntries
<1> HIDE DEF a
<1>3. ASSUME NEW i \in ValidEntries(a), NEW k \in ValidEntries(a), i < k
      PROVE  SeqNear(a[i].m.seq, a[k].m.seq, k - i)
  <2>1. i \in ValidEntries(j) /\ i \in 1..Len(j)
    BY <1>1, <1>2, <1>3
  <2>2. CASE k \in ValidEntries(j)
    <3>1. k \in 1..Len(j) /\ SeqNear(j[i].m.seq, j[k].m.seq, k - i)
      BY <1>1, <1>3, <2>1, <2>2 DEF OrderedJournal, SeqOrdered
    <3> QED BY <1>2, <2>1, <3>1
  <2>3. CASE k = Len(j) + 1 /\ e.ok
    <3>1. SeqNear(j[i].m.seq, e.m.seq, Len(j) + 1 - i)
      BY <2>1, <2>3 DEF SeqFollows
    <3> QED BY <1>2, <2>1, <2>3, <3>1
  <2> QED BY <1>2, <2>2, <2>3
<1>4. Len(a) <= MaxRecords
  BY <1>1, <1>2, JournalAssumption
<1>5. OrderedJournal(a)
  BY <1>2, <1>3, <1>4 DEF OrderedJournal, SeqOrdered
<1> QED BY <1>5 DEF a

(* Appending a record makes it the newest one exactly when the loop of     *)
(* bl_meta_find_latest would prefer it to the newest so far.               *)
LEMMA LatestAppend ==
  ASSUME NEW j, OrderedJournal(j), NEW e \in Entry, OrderedJournal(Append(j, e))
  PROVE  Latest(Append(j, e)) = ScanBest(Latest(j), e)
<1> DEFINE a == Append(j, e)
<1>1. /\ j \in Seq(Entry) /\ Len(j) \in Nat /\ ValidEntries(j) \subseteq 1..Len(j)
      /\ \A k \in ValidEntries(j) : j[k].m.seq \in SeqNumbers
  BY EntryTypes DEF OrderedJournal
<1>2. /\ a \in Seq(Entry) /\ Len(a) = Len(j) + 1 /\ a[Len(j) + 1] = e
      /\ \A k \in 1..Len(j) : a[k] = j[k]
      /\ \A k : k \in ValidEntries(a) <=> k \in ValidEntries(j) \/ (k = Len(j) + 1 /\ e.ok)
  BY <1>1, AppendEntries
<1>3. OrderedJournal(a)
  OBVIOUS
<1> HIDE DEF a
<1>4. ASSUME NEW k \in ValidEntries(a),
             \A n \in ValidEntries(a) : n > k => a[n].m.seq = a[k].m.seq,
             \A n \in ValidEntries(a) : n < k => a[n].m.seq # a[k].m.seq
      PROVE  Latest(a) = a[k]
  <2>1. IsLatest(a, k)
    BY <1>3, <1>4, LatestIndex
  <2> QED BY <1>2, <2>1, LatestUnique
<1>5. CASE ~Latest(j).ok
  <2>1. ValidEntries(j) = {} /\ Latest(j) = TornEntry
    BY <1>5, LatestOk, LatestNone
  <2>2. CASE e.ok
    <3>1. \A n : n \in ValidEntries(a) <=> n = Len(j) + 1
      BY <1>2, <2>1, <2>2
    <3>2. Latest(a) = a[Len(j) + 1]
      BY <1>1, <1>4, <3>1
    <3> QED BY <1>2, <1>5, <2>2, <3>2 DEF ScanBest, a
  <2>3. CASE ~e.ok
    <3>1. ValidEntries(a) = {}
      BY <1>2, <2>1, <2>3
    <3> QED BY <2>1, <2>3, <3>1, LatestNone DEF ScanBest, a
  <2> QED BY <2>2, <2>3
<1>6. CASE Latest(j).ok
  <2>1. PICK k \in ValidEntries(j) :
          /\ IsLatest(j, k)
          /\ Latest(j) = j[k]
          /\ \A n \in ValidEntries(j) : n > k => j[n].m.seq = j[k].m.seq
    BY <1>6, LatestRecord
  <2>2. \A n \in ValidEntries(j) : n < k => j[n].m.seq # j[k].m.seq
    BY <1>1, <2>1, NotNewerThanSelf DEF IsLatest
  <2>3. k \in ValidEntries(a) /\ k \in 1..Len(j) /\ a[k] = j[k]
    BY <1>1, <1>2
  <2>4. \A n \in ValidEntries(j) : n \in ValidEntries(a) /\ a[n] = j[n] /\ n \in 1..Len(j)
    BY <1>1, <1>2
  <2>5. CASE ~e.ok \/ e.m.seq = j[k].m.seq
    <3>1. Latest(a) = a[k]
      <4>1. ASSUME NEW n \in ValidEntries(a), n > k PROVE a[n].m.seq = a[k].m.seq
        BY <1>2, <2>1, <2>3, <2>4, <2>5, <4>1
      <4>2. ASSUME NEW n \in ValidEntries(a), n < k PROVE a[n].m.seq # a[k].m.seq
        BY <1>1, <1>2, <2>2, <2>3, <2>4, <4>2
      <4> QED BY <1>4, <2>3, <4>1, <4>2
    <3>2. ScanBest(Latest(j), e) = Latest(j)
      BY <1>1, <1>6, <2>1, <2>5, NotNewerThanSelf DEF ScanBest
    <3> QED BY <2>1, <2>3, <3>1, <3>2 DEF a
  <2>6. CASE e.ok /\ e.m.seq # j[k].m.seq
    <3> DEFINE z == Len(j) + 1
    <3>1. z \in ValidEntries(a) /\ a[z] = e /\ k < z /\ z <= MaxRecords
      BY <1>2, <1>3, <2>3, <2>6 DEF OrderedJournal
    <3>2. ASSUME NEW n \in ValidEntries(a), n < z PROVE a[n].m.seq # a[z].m.seq
      <4>1. n \in ValidEntries(j) /\ n \in 1..Len(j) /\ a[n] = j[n]
        BY <1>1, <1>2, <3>2
      <4>2. CASE n >= k
        BY <2>1, <2>3, <2>6, <3>1, <4>1, <4>2
      <4>3. CASE n < k
        <5>1. /\ SeqNear(a[n].m.seq, a[k].m.seq, k - n)
              /\ SeqNear(a[k].m.seq, a[z].m.seq, z - k)
          BY <1>3, <2>3, <2>4, <3>1, <4>1, <4>3 DEF OrderedJournal, SeqOrdered
        <5>2. /\ k - n \in Nat /\ z - k \in Nat /\ (k - n) + (z - k) < MaxRecords
          BY <1>1, <2>3, <3>1, <4>1, <4>3, JournalAssumption
        <5>3. a[n].m.seq \in SeqNumbers /\ a[k].m.seq \in SeqNumbers
          BY <1>1, <2>3, <4>1
        <5>4. ASSUME a[n].m.seq = a[z].m.seq PROVE FALSE
          <6>1. a[n].m.seq = a[k].m.seq
            BY <5>1, <5>2, <5>3, <5>4, NearNoReturn
          <6> QED BY <2>2, <2>3, <4>1, <4>3, <6>1
        <5> QED BY <5>4
      <4> QED BY <2>3, <4>1, <4>2, <4>3
    <3>3. \A n \in ValidEntries(a) : ~(n > z)
      BY <1>1, <1>2
    <3>4. Latest(a) = e
      <4> HIDE DEF z
      <4> QED BY <1>4, <3>1, <3>2, <3>3
    <3>5. SeqIsNewer(e.m.seq, j[k].m.seq)
      <4> HIDE DEF z
      <4> QED BY <1>3, <2>3, <2>6, <3>1, EntriesNear
    <3> QED BY <2>1, <2>6, <3>4, <3>5 DEF ScanBest, a
  <2> QED BY <2>5, <2>6
<1> QED BY <1>5, <1>6

(* A record stored with sequence number 0 has nothing pending: only the    *)
(* application lets the number wrap to 0, and only when it confirms.  So   *)
(* no record that main() stores again under the same number has number 0.  *)
ZeroIdle(m) == m.seq = 0 => m.pending = "NONE"

JournalOrdered ==
  /\ OrderedJournal(journal)
  /\ \A k \in ValidEntries(journal) : ZeroIdle(journal[k].m)

(* The scan holds the newest record of the part it has read. *)
ScanCorrect ==
  IF pc \in {"scan", "appScan"}
  THEN /\ scan.k <= Len(journal) + 1
       /\ scan.best = Latest(SubSeq(journal, 1, scan.k - 1))
  ELSE scan = NoScan

(* The active slot of a record in the flash contents sl: a confirmed slot  *)
(* holds a valid image that is linked there, and the slot of the default   *)
(* record was never described.                                             *)
ActiveBootable(m, sl) ==
  /\ m.state[m.active] = "CONFIRMED" =>
       SlotImageValid(m, sl, m.active) /\ Linked[m.crc[m.active]] = m.active
  /\ m.state[m.active] = "VALID" => m.size[m.active] = 0

(* What the RAM copy has in common with the newest record.  A record that  *)
(* main() stored under the same number is not found again, so the pending  *)
(* slot and the attempts may differ.                                       *)
SameFallback(m, l) ==
  /\ m.seq = l.seq
  /\ m.active = l.active
  /\ m.minAllowed = l.minAllowed
  /\ m.size = l.size
  /\ m.crc = l.crc

RamInUse ==
  pc \in {"flag", "select", "fallback", "ota"} \/ (pc = "commit" /\ commit.ret # "app")

RamCorrect ==
  RamInUse =>
    /\ ZeroIdle(meta)
    /\ ActiveBootable(meta, slots)
    /\ Latest(journal).ok => SameFallback(meta, Latest(journal).m)

CommitCorrect ==
  pc = "commit" =>
    /\ commit.ret # "none"
    /\ commit.ret \in {"flag", "fallback", "jump"} => commit.rec = meta
    /\ commit.ret = "app" => commit.rec.pending = "NONE"
    /\ ZeroIdle(commit.rec)
    /\ ActiveBootable(commit.rec, slots)
    /\ SeqFollows(journal, commit.rec.seq, 1)
    /\ Latest(journal).ok => commit.rec.minAllowed >= Latest(journal).m.minAllowed

AppRuns == pc \in AppPlaces \/ (pc = "commit" /\ commit.ret = "app")

(* The image the application may confirm is the one the record describes. *)
AppCorrect ==
  AppRuns /\ Latest(journal).ok /\ Latest(journal).m.pending = CurrentSlot =>
    /\ SlotImageValid(Latest(journal).m, slots, CurrentSlot)
    /\ Linked[Latest(journal).m.crc[CurrentSlot]] = CurrentSlot

NewestBootable == Latest(journal).ok => ActiveBootable(Latest(journal).m, slots)

JournalInv == JournalOrdered /\ ScanCorrect /\ RamCorrect /\ CommitCorrect /\ AppCorrect
        /\ NewestBootable

-----------------------------------------------------------------------------
LEMMA OrderedEmpty == OrderedJournal(<<>>) /\ ValidEntries(<<>>) = {}
BY JournalAssumption DEF OrderedJournal, SeqOrdered, ValidEntries

LEMMA OrderedTorn ==
  LET t == [k \in 1..MaxRecords |-> TornEntry]
  IN  OrderedJournal(t) /\ ValidEntries(t) = {}
<1> DEFINE t == [k \in 1..MaxRecords |-> TornEntry]
<1>1. t \in Seq(Entry) /\ Len(t) = MaxRecords /\ MaxRecords \in Nat
  BY JournalAssumption, DefaultMetadataType
<1>2. ValidEntries(t) = {}
  BY <1>1 DEF ValidEntries, TornEntry
<1> QED BY <1>1, <1>2, JournalAssumption DEF OrderedJournal, SeqOrdered

LEMMA OrderedPrefix ==
  ASSUME NEW j, OrderedJournal(j), NEW n \in 0..Len(j)
  PROVE  OrderedJournal(SubSeq(j, 1, n))
<1> DEFINE p == SubSeq(j, 1, n)
<1>1. j \in Seq(Entry) /\ Len(j) \in Nat /\ Len(j) <= MaxRecords
  BY EntryTypes DEF OrderedJournal
<1>2. p \in Seq(Entry) /\ Len(p) = n /\ \A k \in 1..n : p[k] = j[k]
  BY <1>1
<1> HIDE DEF p
<1>3. \A k \in ValidEntries(p) : k \in ValidEntries(j) /\ p[k] = j[k]
  BY <1>1, <1>2 DEF ValidEntries
<1>4. Len(p) <= MaxRecords
  BY <1>1, <1>2, JournalAssumption
<1>5. OrderedJournal(p)
  BY <1>2, <1>3, <1>4 DEF OrderedJournal, SeqOrdered
<1> QED BY <1>5 DEF p

LEMMA PrefixAppend ==
  ASSUME NEW j \in Seq(Entry), NEW n \in 1..Len(j)
  PROVE  SubSeq(j, 1, n) = Append(SubSeq(j, 1, n - 1), j[n])
OBVIOUS

LEMMA PrefixWhole ==
  ASSUME NEW j \in Seq(Entry)
  PROVE  SubSeq(j, 1, Len(j)) = j /\ SubSeq(j, 1, 0) = <<>>
OBVIOUS

(* A number that may follow the newest record follows all records. *)
LEMMA LatestFollows ==
  ASSUME NEW j, OrderedJournal(j), NEW q \in SeqNumbers,
         Latest(j).ok => q = Latest(j).m.seq
  PROVE  /\ SeqFollows(j, q, 1)
         /\ SeqFollows(j, SeqNext(q), 1)
         /\ SeqNext(q) = 0 => SeqFollows(j, 1, 1)
<1>1. /\ Len(j) \in Nat /\ Len(j) <= MaxRecords /\ MaxRecords \in Nat
      /\ \A i \in ValidEntries(j) : i \in 1..Len(j) /\ j[i].m.seq \in SeqNumbers
  BY EntryTypes, JournalAssumption DEF OrderedJournal
<1>2. ASSUME NEW i \in ValidEntries(j)
      PROVE  SeqNear(j[i].m.seq, q, Len(j) - i)
  <2>1. Latest(j).ok
    BY <1>2, LatestOk
  <2>2. PICK k \in ValidEntries(j) :
          /\ Latest(j) = j[k]
          /\ \A n \in ValidEntries(j) : n > k => j[n].m.seq = j[k].m.seq
    BY <2>1, LatestRecord
  <2>3. q = j[k].m.seq
    BY <2>1, <2>2
  <2>4. CASE i < k
    <3>1. SeqNear(j[i].m.seq, q, k - i)
      BY <2>3, <2>4 DEF OrderedJournal, SeqOrdered
    <3>2. k - i \in Nat /\ Len(j) - i \in Nat /\ k - i <= Len(j) - i
      BY <1>1, <2>4
    <3> QED BY <1>1, <3>1, <3>2, NearLater
  <2>5. CASE ~(i < k)
    <3>1. j[i].m.seq = q
      BY <1>1, <2>2, <2>3, <2>5
    <3> QED BY <1>1, <3>1 DEF SeqNear, SeqNumbers
  <2> QED BY <2>4, <2>5
<1>3. ASSUME NEW i \in ValidEntries(j)
      PROVE  /\ SeqNear(j[i].m.seq, q, Len(j) + 1 - i)
             /\ SeqNear(j[i].m.seq, SeqNext(q), Len(j) + 1 - i)
             /\ SeqNext(q) = 0 => SeqNear(j[i].m.seq, 1, Len(j) + 1 - i)
  <2> DEFINE n == Len(j) - i
  <2>1. n \in Nat /\ n < MaxRecords /\ n + 1 = Len(j) + 1 - i
    BY <1>1
  <2>2. SeqNear(j[i].m.seq, q, n)
    BY <1>2
  <2> HIDE DEF n
  <2> QED BY <1>1, <2>1, <2>2, NearNext
<1> QED BY <1>3 DEF SeqFollows

(* Only the contents of the active slot count. *)
LEMMA ActiveBootableSame ==
  ASSUME NEW m, NEW l, NEW sl, NEW sm, ActiveBootable(m, sl),
         l.active = m.active, l.state[l.active] = m.state[m.active],
         l.size[l.active] = m.size[l.active], l.crc[l.active] = m.crc[l.active],
         sm[m.active] = sl[m.active]
  PROVE  ActiveBootable(l, sm)
BY DEF ActiveBootable, SlotImageValid

LEMMA DefaultBootable == ActiveBootable(DefaultMetadata, slots) /\ ZeroIdle(DefaultMetadata)
                         /\ CommitRecord(DefaultMetadata) = DefaultMetadata
BY DEF ActiveBootable, DefaultMetadata, ZeroIdle, CommitRecord, Slots

(* Where the image of a valid slot runs. *)
LEMMA ValidSlotLinked ==
  ASSUME NEW m, NEW s \in Slots, SlotImageValid(m, slots, s)
  PROVE  /\ slots[s][1].img = m.crc[s]
         /\ Linked[m.crc[s]] \in {"A", "B"}
<1>1. m.crc[s] \in Images /\ m.size[s] = Size[m.crc[s]] /\ Size[m.crc[s]] \in 1..SlotBlocks
  BY ImagesAssumption DEF SlotImageValid, CrcMatches
<1>2. slots[s][1] = Whole(m.crc[s], 1)
  BY <1>1, ImagesAssumption DEF SlotImageValid, CrcMatches
<1>3. slots[s][1].img = m.crc[s]
  BY <1>2 DEF Whole
<1>4. Linked[m.crc[s]] # "nowhere"
  BY <1>3 DEF SlotImageValid, VectorValid
<1> QED BY <1>1, <1>3, <1>4, ImagesAssumption

-----------------------------------------------------------------------------
LEMMA RamLostKeeps ==
  ASSUME RamLost, JournalOrdered', NewestBootable'
  PROVE  JournalInv'
BY DEF RamLost, JournalInv, ScanCorrect, RamCorrect, RamInUse, CommitCorrect, AppCorrect, AppRuns,
       AppPlaces

LEMMA InitKeeps == Init => JournalInv
<1> SUFFICES ASSUME Init PROVE JournalInv
  OBVIOUS
<1>1. JournalOrdered
  BY OrderedEmpty DEF Init, JournalOrdered
<1>2. NewestBootable
  BY OrderedEmpty, LatestNone DEF Init, NewestBootable
<1> QED BY <1>1, <1>2 DEF Init, JournalInv, ScanCorrect, RamCorrect, RamInUse, CommitCorrect,
           AppCorrect, AppRuns, AppPlaces

(* The RAM copy at a jump, and what the application will find. *)
LEMMA JumpKeeps ==
  ASSUME IInv, JournalInv, NEW s \in Slots, JumpTo(s), slots' = slots, scan' = scan,
         scan = NoScan, JournalOrdered', NewestBootable',
         SlotImageValid(meta, slots, s),
         Latest(journal').ok =>
           SameFallback(meta, Latest(journal').m) /\ CoherentMetadata(Latest(journal').m),
         \/ s = meta.pending /\ s # meta.active
         \/ s = meta.active /\ Linked[meta.crc[s]] = s
  PROVE  JournalInv'
<1>1. AppCorrect'
  <2> SUFFICES ASSUME Latest(journal').ok, Latest(journal').m.pending = CurrentSlot'
               PROVE  /\ SlotImageValid(Latest(journal').m, slots', CurrentSlot')
                      /\ Linked[Latest(journal').m.crc[CurrentSlot']] = CurrentSlot'
    BY DEF AppCorrect
  <2> DEFINE l == Latest(journal').m
  <2>1. slots[s][1].img = meta.crc[s] /\ Linked[meta.crc[s]] \in {"A", "B"}
    BY ValidSlotLinked
  <2>2. CurrentSlot' = Linked[meta.crc[s]]
    BY <2>1 DEF CurrentSlot, JumpTo
  <2>3. l.pending # l.active /\ l.active = meta.active /\ l.size = meta.size /\ l.crc = meta.crc
    BY DEF SameFallback, CoherentMetadata
  <2> HIDE DEF l
  <2>4. CASE Linked[meta.crc[s]] = s /\ s = meta.active
    BY <2>2, <2>3, <2>4 DEF l
  <2>5. CASE s = meta.pending /\ s # meta.active
    <3>1. meta.active \in Slots
      BY DEF IInv, MetadataCoherent, CoherentMetadata
    <3>2. CurrentSlot' = s
      BY <2>1, <2>2, <2>3, <2>5, <3>1 DEF Slots, l
    <3>3. SlotImageValid(l, slots', s)
      BY <2>3 DEF SlotImageValid
    <3> QED BY <2>2, <2>3, <3>2, <3>3 DEF l
  <2> QED BY <2>4, <2>5
<1> QED BY <1>1 DEF JournalInv, JumpTo, ScanCorrect, RamCorrect, RamInUse, CommitCorrect, AppPlaces

(* What a commit may do to the newest record: leave it, lose it, or        *)
(* replace it with the record that was written.                            *)
NewestKept == Latest(journal') = Latest(journal) /\ slots' = slots
NewestLost == ~Latest(journal').ok
NewestWritten == Latest(journal') = [ok |-> TRUE, m |-> commit.rec]

LEMMA AfterCommitKeeps ==
  ASSUME IInv, IInv', JournalInv, pc = "commit", NEW ok \in BOOLEAN, AfterCommit(ok),
         slots' = slots,
         JournalOrdered', NewestKept \/ NewestLost \/ (ok /\ NewestWritten)
  PROVE  JournalInv'
<1>1. /\ commit.ret \in {"flag", "fallback", "jump"} => commit.rec = meta
      /\ commit.ret = "app" => commit.rec.pending = "NONE"
      /\ ActiveBootable(commit.rec, slots)
      /\ CoherentMetadata(commit.rec)
      /\ scan = NoScan
      /\ CommitCorrect
  BY DEF IInv, MetadataCoherent, JournalInv, CommitCorrect, ScanCorrect
<1>2. NewestBootable'
  BY <1>1 DEF NewestKept, NewestLost, NewestWritten, JournalInv, NewestBootable
<1>3. Latest(journal').ok =>
        \/ Latest(journal') = Latest(journal)
        \/ ok /\ Latest(journal').m = commit.rec
  BY DEF NewestKept, NewestLost, NewestWritten
<1>4. CASE commit.ret = "ack" /\ ok
  BY <1>2, <1>4, RamLostKeeps DEF AfterCommit
<1>5. commit.ret # "app" =>
        /\ ZeroIdle(meta) /\ ActiveBootable(meta, slots)
        /\ Latest(journal).ok => SameFallback(meta, Latest(journal).m)
  BY DEF JournalInv, RamCorrect, RamInUse
<1>6. commit.ret \in {"flag", "fallback", "jump"} \/ (commit.ret = "ack" /\ ~ok) =>
        (Latest(journal').ok => SameFallback(meta, Latest(journal').m))
  BY <1>1, <1>3, <1>5 DEF SameFallback
<1>7. CASE commit.ret = "jump"
  <2>1. /\ meta.pending \in Slots /\ SlotImageValid(meta, slots, meta.pending)
        /\ meta.pending # meta.active
    BY <1>7 DEF IInv, ControlInv, MetadataCoherent, CoherentMetadata
  <2>2. Latest(journal').ok => CoherentMetadata(Latest(journal').m)
    <3>1. CASE Latest(journal').ok
      <4>1. PICK k \in ValidEntries(journal') : Latest(journal') = journal'[k]
        BY <3>1, LatestRecord DEF JournalOrdered
      <4> QED BY <4>1 DEF IInv, MetadataCoherent
    <3> QED BY <3>1
  <2>3. JumpTo(meta.pending) /\ scan' = scan
    BY <1>7 DEF AfterCommit
  <2>4. Latest(journal').ok =>
          SameFallback(meta, Latest(journal').m) /\ CoherentMetadata(Latest(journal').m)
    BY <1>6, <1>7, <2>2
  <2>5. PICK s \in Slots : s = meta.pending
    BY <2>1
  <2>6. JumpTo(s) /\ SlotImageValid(meta, slots, s) /\ s # meta.active
    BY <2>1, <2>3, <2>5
  <2>7. scan = NoScan /\ NewestBootable'
    BY <1>1, <1>2
  <2> QED BY <2>3, <2>4, <2>5, <2>6, <2>7, JumpKeeps
<1>8. CASE commit.ret \in {"flag", "fallback"} \/ (commit.ret = "ack" /\ ~ok)
  <2>1. /\ pc' \in {"flag", "fallback", "ota"} /\ scan' = scan /\ meta' = meta
    BY <1>8 DEF AfterCommit
  <2>2. RamCorrect'
    BY <1>5, <1>6, <1>8, <2>1 DEF RamCorrect
  <2> QED BY <1>1, <1>2, <2>1, <2>2
          DEF JournalInv, ScanCorrect, CommitCorrect, AppCorrect, AppRuns, AppPlaces
<1>9. CASE commit.ret = "app"
  <2>1. pc' = "app" /\ scan' = scan /\ run' = run
    BY <1>9 DEF AfterCommit
  <2>2. AppCorrect'
    <3>1. CurrentSlot' = CurrentSlot /\ CurrentSlot \in Slots
      BY <2>1 DEF CurrentSlot, Slots
    <3>2. Latest(journal').ok /\ Latest(journal').m.pending = CurrentSlot =>
            Latest(journal') = Latest(journal)
      BY <1>1, <1>3, <1>9, <3>1 DEF Slots
    <3>3. AppRuns
      BY <1>9 DEF AppRuns
    <3> QED BY <3>1, <3>2, <3>3 DEF JournalInv, AppCorrect
  <2> QED BY <1>1, <1>2, <2>1, <2>2
          DEF JournalInv, ScanCorrect, RamCorrect, RamInUse, CommitCorrect
<1> QED BY <1>4, <1>7, <1>8, <1>9 DEF AfterCommit

LEMMA CommitWriteKeeps ==
  ASSUME IInv, IInv', JournalInv, CommitWrite
  PROVE  JournalInv' /\ (NewestKept \/ NewestWritten)
<1> DEFINE e == [ok |-> TRUE, m |-> commit.rec]
<1>1. /\ OrderedJournal(journal) /\ \A k \in ValidEntries(journal) : ZeroIdle(journal[k].m)
      /\ SeqFollows(journal, commit.rec.seq, 1) /\ ZeroIdle(commit.rec)
      /\ journal \in Seq(Entry) /\ Len(journal) < MaxRecords
      /\ pc = "commit" /\ slots' = slots
  BY DEF JournalInv, JournalOrdered, CommitCorrect, CommitWrite, OrderedJournal
<1>2. e \in Entry /\ e.ok /\ e.m = commit.rec /\ TornEntry \in Entry /\ ~TornEntry.ok
  BY DefaultMetadataType DEF IInv, TypeOK, Entry, TornEntry
<1>3. CASE journal' = Append(journal, e) /\ AfterCommit(TRUE)
  <2> HIDE DEF e
  <2>1. OrderedJournal(journal')
    BY <1>1, <1>2, <1>3, AppendOrdered
  <2>2. Latest(journal') = ScanBest(Latest(journal), e)
    BY <1>1, <1>2, <1>3, <2>1, LatestAppend
  <2>3. ASSUME NEW k \in ValidEntries(journal') PROVE ZeroIdle(journal'[k].m)
    <3>1. \/ k \in ValidEntries(journal) /\ k \in 1..Len(journal)
          \/ k = Len(journal) + 1
      BY <1>1, <1>2, <1>3, <2>3, AppendEntries, EntryTypes
    <3> QED BY <1>1, <1>2, <1>3, <3>1, AppendEntries
  <2>4. JournalOrdered'
    BY <2>1, <2>3 DEF JournalOrdered
  <2>5. NewestKept \/ NewestWritten
    BY <1>1, <2>2 DEF ScanBest, NewestKept, NewestWritten, e
  <2> QED BY <1>1, <1>3, <2>4, <2>5, AfterCommitKeeps
<1>4. CASE journal' \in {journal, Append(journal, TornEntry)} /\ AfterCommit(FALSE)
  <2>1. OrderedJournal(journal')
    BY <1>1, <1>2, <1>4, AppendOrdered
  <2>2. CASE journal' = journal
    <3>1. JournalOrdered'
      BY <1>1, <2>2 DEF JournalOrdered
    <3>2. NewestKept
      BY <1>1, <2>2 DEF NewestKept
    <3> QED BY <1>1, <1>4, <3>1, <3>2, AfterCommitKeeps
  <2>3. CASE journal' = Append(journal, TornEntry)
    <3>1. Latest(journal') = ScanBest(Latest(journal), TornEntry)
      BY <1>1, <1>2, <2>1, <2>3, LatestAppend
    <3>2. NewestKept
      BY <1>1, <1>2, <3>1 DEF ScanBest, NewestKept
    <3>3. ASSUME NEW k \in ValidEntries(journal') PROVE ZeroIdle(journal'[k].m)
      <4>1. k \in ValidEntries(journal) /\ k \in 1..Len(journal)
        BY <1>1, <1>2, <2>3, <3>3, AppendEntries, EntryTypes
      <4> QED BY <1>1, <1>2, <2>3, <4>1, AppendEntries
    <3>4. JournalOrdered'
      BY <2>1, <3>3 DEF JournalOrdered
    <3> QED BY <1>1, <1>4, <3>2, <3>4, AfterCommitKeeps
  <2> QED BY <1>4, <2>2, <2>3
<1> QED BY <1>3, <1>4 DEF CommitWrite

LEMMA CommitEraseKeeps ==
  ASSUME IInv, IInv', JournalInv, CommitErase
  PROVE  JournalInv' /\ (NewestKept \/ NewestLost)
<1>1. pc = "commit" /\ slots' = slots /\ JournalOrdered
  BY DEF JournalInv, CommitErase
<1>2. CASE journal' = journal /\ AfterCommit(FALSE)
  <2>1. JournalOrdered' /\ NewestKept
    BY <1>1, <1>2 DEF JournalOrdered, NewestKept
  <2> QED BY <1>1, <1>2, <2>1, AfterCommitKeeps
<1>3. CASE journal' = [k \in 1..MaxRecords |-> TornEntry] /\ AfterCommit(FALSE)
  <2>1. OrderedJournal(journal') /\ ValidEntries(journal') = {}
    BY <1>3, OrderedTorn
  <2>2. JournalOrdered' /\ NewestLost
    BY <2>1, LatestNone DEF JournalOrdered, NewestLost
  <2> QED BY <1>1, <1>3, <2>2, AfterCommitKeeps
<1>4. CASE /\ journal' = <<>>
           /\ UNCHANGED <<forceFlag, pc, scan, meta, ctx, timed, commit, run, confirmSent>>
  <2>1. OrderedJournal(journal') /\ ValidEntries(journal') = {} /\ ~Latest(journal').ok
    BY <1>4, OrderedEmpty, LatestNone
  <2>2. JournalOrdered' /\ NewestLost
    BY <2>1 DEF JournalOrdered, NewestLost
  <2>3. CommitCorrect'
    BY <1>1, <1>4, <2>1 DEF JournalInv, CommitCorrect, SeqFollows
  <2>4. ScanCorrect' /\ RamCorrect'
    BY <1>1, <1>4, <2>1 DEF JournalInv, ScanCorrect, RamCorrect, RamInUse
  <2>5. AppCorrect' /\ NewestBootable'
    BY <2>1 DEF AppCorrect, NewestBootable
  <2> QED BY <2>2, <2>3, <2>4, <2>5 DEF JournalInv
<1> QED BY <1>2, <1>3, <1>4 DEF CommitErase

LEMMA PowerOnKeeps == JournalInv /\ PowerOn => JournalInv'
<1> SUFFICES ASSUME JournalInv, PowerOn PROVE JournalInv'
  OBVIOUS
<1>1. journal \in Seq(Entry) /\ Len(journal) \in Nat
  BY DEF JournalInv, JournalOrdered, OrderedJournal
<1>2. scan = NoScan /\ Latest(SubSeq(journal, 1, 0)) = TornEntry
  BY <1>1, PrefixWhole, OrderedEmpty, LatestNone DEF JournalInv, ScanCorrect, PowerOn
<1>3. ScanCorrect'
  BY <1>1, <1>2 DEF PowerOn, flash, ScanCorrect, NoScan
<1> QED BY <1>3 DEF PowerOn, flash, JournalInv, JournalOrdered, RamCorrect, RamInUse, CommitCorrect,
           AppCorrect, AppRuns, AppPlaces, NewestBootable

(* One more entry read is one more record considered. *)
LEMMA LatestPrefix ==
  ASSUME NEW j, OrderedJournal(j), NEW n \in 1..Len(j)
  PROVE  Latest(SubSeq(j, 1, n)) = ScanBest(Latest(SubSeq(j, 1, n - 1)), j[n])
<1>1. j \in Seq(Entry) /\ Len(j) \in Nat /\ n \in 0..Len(j) /\ n - 1 \in 0..Len(j)
      /\ j[n] \in Entry
  BY EntryTypes DEF OrderedJournal
<1>2. PICK p : p = SubSeq(j, 1, n - 1)
  OBVIOUS
<1>3. SubSeq(j, 1, n) = Append(p, j[n])
  BY <1>1, <1>2, PrefixAppend
<1>4. OrderedJournal(p) /\ OrderedJournal(Append(p, j[n]))
  <2>1. OrderedJournal(SubSeq(j, 1, n - 1)) /\ OrderedJournal(SubSeq(j, 1, n))
    BY <1>1, OrderedPrefix
  <2> QED BY <1>2, <1>3, <2>1
<1> QED BY <1>1, <1>2, <1>3, <1>4, LatestAppend

LEMMA ScanStepKeeps == IInv /\ JournalInv /\ ScanStep => JournalInv'
<1> SUFFICES ASSUME IInv, JournalInv, ScanStep PROVE JournalInv'
  OBVIOUS
<1>1. /\ journal \in Seq(Entry) /\ Len(journal) \in Nat /\ OrderedJournal(journal)
      /\ scan.k \in 1..Len(journal) /\ scan.best = Latest(SubSeq(journal, 1, scan.k - 1))
  BY DEF JournalInv, JournalOrdered, ScanCorrect, OrderedJournal, ScanStep, IInv, TypeOK
<1>2. PICK n \in 1..Len(journal) : n = scan.k
  BY <1>1
<1>3. Latest(SubSeq(journal, 1, n)) = ScanBest(scan.best, journal[n])
  BY <1>1, <1>2, LatestPrefix
<1>4. /\ scan'.k = n + 1 /\ scan'.best = ScanBest(scan.best, journal[n])
      /\ journal' = journal /\ pc' = pc /\ pc \in {"scan", "appScan"}
  BY <1>2 DEF ScanStep, flash
<1>5. ScanCorrect'
  <2>1. scan'.k - 1 = n /\ scan'.k <= Len(journal) + 1
    BY <1>1, <1>4
  <2> QED BY <1>3, <1>4, <2>1 DEF ScanCorrect
<1> QED BY <1>5 DEF ScanStep, flash, JournalInv, JournalOrdered, RamCorrect, RamInUse,
           CommitCorrect, AppCorrect, AppRuns, AppPlaces, NewestBootable, CurrentSlot

(* When the scan has passed the last entry it holds the newest record. *)
LEMMA ScanDone ==
  ASSUME IInv, JournalInv, pc \in {"scan", "appScan"}, scan.k > Len(journal)
  PROVE  scan.best = Latest(journal)
<1>1. /\ journal \in Seq(Entry) /\ Len(journal) \in Nat
      /\ scan.k - 1 = Len(journal)
      /\ scan.best = Latest(SubSeq(journal, 1, scan.k - 1))
  BY DEF JournalInv, JournalOrdered, ScanCorrect, OrderedJournal, IInv, TypeOK
<1> QED BY <1>1, PrefixWhole

(* The newest record has nothing pending when its number is 0. *)
LEMMA LatestZeroIdle ==
  ASSUME JournalInv, Latest(journal).ok
  PROVE  ZeroIdle(Latest(journal).m)
<1>1. PICK k \in ValidEntries(journal) : Latest(journal) = journal[k]
  BY LatestRecord DEF JournalInv, JournalOrdered
<1> QED BY <1>1 DEF JournalInv, JournalOrdered

LEMMA LoadMetadataKeeps == IInv /\ JournalInv /\ LoadMetadata => JournalInv'
<1> SUFFICES ASSUME IInv, JournalInv, LoadMetadata PROVE JournalInv'
  OBVIOUS
<1>1. scan.best = Latest(journal) /\ pc = "scan" /\ scan' = NoScan
      /\ journal' = journal /\ slots' = slots
  BY ScanDone DEF LoadMetadata, flash
<1>2. CASE Latest(journal).ok
  <2>1. meta' = Latest(journal).m /\ pc' = "flag"
    BY <1>1, <1>2 DEF LoadMetadata
  <2>2. RamCorrect'
    BY <1>1, <1>2, <2>1, LatestZeroIdle
       DEF JournalInv, NewestBootable, RamCorrect, SameFallback
  <2> QED BY <1>1, <2>1, <2>2 DEF JournalInv, JournalOrdered, ScanCorrect, CommitCorrect,
             AppCorrect, AppRuns, AppPlaces, NewestBootable
<1>3. CASE ~Latest(journal).ok
  <2>1. /\ meta' = DefaultMetadata /\ pc' = "commit" /\ commit'.ret = "flag"
        /\ commit'.rec = CommitRecord(DefaultMetadata)
    BY <1>1, <1>3 DEF LoadMetadata, StartCommit
  <2>2. ValidEntries(journal) = {}
    BY <1>3, LatestOk DEF JournalInv, JournalOrdered
  <2>3. commit'.rec = DefaultMetadata /\ ActiveBootable(DefaultMetadata, slots)
        /\ ZeroIdle(DefaultMetadata)
    BY <2>1, DefaultBootable
  <2>4. RamCorrect' /\ CommitCorrect'
    BY <1>1, <1>3, <2>1, <2>2, <2>3 DEF RamCorrect, CommitCorrect, SeqFollows
  <2> QED BY <1>1, <2>1, <2>4 DEF JournalInv, JournalOrdered, ScanCorrect,
             AppCorrect, AppRuns, AppPlaces, NewestBootable
<1> QED BY <1>2, <1>3

(* Steps of main() and of the OTA loop that leave RAM copy and flash alone. *)
LEMMA RamOnlyKeeps ==
  ASSUME JournalInv, pc \in {"flag", "select", "fallback", "ota"},
         pc' \in {"select", "fallback", "ota"},
         UNCHANGED <<journal, slots, meta, scan, run>>
  PROVE  JournalInv'
<1>1. ScanCorrect' BY DEF JournalInv, ScanCorrect
<1>2. RamCorrect' BY DEF JournalInv, RamCorrect, RamInUse
<1>3. CommitCorrect' /\ AppCorrect' BY DEF CommitCorrect, AppCorrect, AppRuns, AppPlaces
<1> QED BY <1>1, <1>2, <1>3 DEF JournalInv, JournalOrdered, NewestBootable

LEMMA ConsumeForceFlagKeeps == JournalInv /\ ConsumeForceFlag => JournalInv'
BY RamOnlyKeeps DEF ConsumeForceFlag, flash

LEMMA IdleTimeoutKeeps == JournalInv /\ IdleTimeout => JournalInv'
BY RamOnlyKeeps DEF IdleTimeout, flash

LEMMA SessionOnlyKeeps ==
  ASSUME JournalInv, (\E f : HandleVerify(f)) \/ HandleAbort
  PROVE  JournalInv'
BY RamOnlyKeeps DEF HandleVerify, HandleAbort, flash

(* What the newest record allows the next one to be. *)
LEMMA NextRecordFollows ==
  ASSUME JournalInv, NEW q \in SeqNumbers, Latest(journal).ok => q = Latest(journal).m.seq
  PROVE  /\ SeqFollows(journal, q, 1)
         /\ SeqFollows(journal, SeqNext(q), 1)
         /\ SeqNext(q) = 0 => SeqFollows(journal, 1, 1)
BY LatestFollows DEF JournalInv, JournalOrdered

(* A record that main() stores again keeps its number, because something   *)
(* is pending, and everything the fallback needs.                          *)
LEMMA StoreAgainKeeps ==
  ASSUME IInv, JournalInv, pc = "select", meta.pending \in Slots, NEW m,
         m.seq = meta.seq, m.active = meta.active, m.size = meta.size, m.crc = meta.crc,
         m.state[meta.active] = meta.state[meta.active], m.minAllowed = meta.minAllowed,
         m.pending \in {meta.pending, "NONE"},
         NEW ret \in {"jump", "fallback"}, StartCommit(CommitRecord(m), ret), meta' = m,
         UNCHANGED <<journal, slots, scan, run>>
  PROVE  JournalInv'
<1>1. /\ ZeroIdle(meta) /\ ActiveBootable(meta, slots)
      /\ Latest(journal).ok => SameFallback(meta, Latest(journal).m)
  BY DEF JournalInv, RamCorrect, RamInUse
<1>2. meta.seq \in SeqNumbers /\ meta.seq # 0
  BY <1>1, MetadataFields DEF IInv, TypeOK, SeqNumbers, ZeroIdle, Slots
<1>3. CommitRecord(m) = m /\ ZeroIdle(m)
  BY <1>2 DEF CommitRecord, ZeroIdle
<1>4. ActiveBootable(m, slots)
  BY <1>1, ActiveBootableSame
<1>5. Latest(journal).ok => SameFallback(m, Latest(journal).m)
  BY <1>1 DEF SameFallback
<1>6. SeqFollows(journal, m.seq, 1)
  BY <1>1, <1>2, NextRecordFollows DEF SameFallback
<1>7. Latest(journal).ok => m.minAllowed >= Latest(journal).m.minAllowed
  <2>1. meta.minAllowed \in Int
    BY MetadataFields, ImagesAssumption DEF IInv, TypeOK
  <2> QED BY <1>5, <2>1 DEF SameFallback
<1>8. pc' = "commit" /\ commit' = [rec |-> m, ret |-> ret]
  BY <1>3 DEF StartCommit
<1>9. RamCorrect' /\ CommitCorrect'
  BY <1>3, <1>4, <1>5, <1>6, <1>7, <1>8 DEF RamCorrect, CommitCorrect
<1> QED BY <1>8, <1>9 DEF JournalInv, JournalOrdered, ScanCorrect, AppCorrect, AppRuns, AppPlaces,
           NewestBootable

LEMMA SelectSlotKeeps == IInv /\ JournalInv /\ SelectSlot => JournalInv'
<1> SUFFICES ASSUME IInv, JournalInv, SelectSlot PROVE JournalInv'
  OBVIOUS
<1>1. meta \in Metadata /\ CoherentMetadata(meta)
  BY DEF IInv, TypeOK, MetadataCoherent
<1>2. CASE meta.pending \notin Slots
  BY <1>2, RamOnlyKeeps DEF SelectSlot, flash
<1>3. CASE meta.pending \in Slots /\ MayStartPending(meta)
  <2>1. PICK m : m = OneMoreAttempt(meta)
    OBVIOUS
  <2>2. /\ m.seq = meta.seq /\ m.active = meta.active /\ m.size = meta.size
        /\ m.crc = meta.crc /\ m.state = meta.state
        /\ m.minAllowed = meta.minAllowed /\ m.pending = meta.pending
    BY <1>1, <2>1 DEF OneMoreAttempt, Metadata
  <2>3. StartCommit(CommitRecord(m), "jump") /\ meta' = m
        /\ UNCHANGED <<journal, slots, scan, run>>
    BY <1>3, <2>1 DEF SelectSlot, flash
  <2>4. pc = "select"
    BY DEF SelectSlot
  <2> QED BY <1>3, <2>2, <2>3, <2>4, StoreAgainKeeps
<1>4. CASE meta.pending \in Slots /\ ~MayStartPending(meta)
  <2>1. PICK m : m = RolledBack(meta)
    OBVIOUS
  <2>2. /\ m.seq = meta.seq /\ m.active = meta.active /\ m.size = meta.size
        /\ m.crc = meta.crc /\ m.minAllowed = meta.minAllowed /\ m.pending = "NONE"
        /\ m.state = [meta.state EXCEPT ![meta.pending] = "ROLLBACK"]
    BY <1>1, <2>1 DEF RolledBack, Metadata
  <2>3. StartCommit(CommitRecord(m), "fallback") /\ meta' = m
        /\ UNCHANGED <<journal, slots, scan, run>>
    BY <1>4, <2>1 DEF SelectSlot, flash
  <2>4. pc = "select"
    BY DEF SelectSlot
  <2>5. m.state[meta.active] = meta.state[meta.active]
    BY <1>1, <1>4, <2>2, MetadataFields DEF CoherentMetadata
  <2> QED BY <1>4, <2>2, <2>3, <2>4, <2>5, StoreAgainKeeps
<1> QED BY <1>2, <1>3, <1>4

(* A slot that main() falls back to was confirmed, so it runs where it is. *)
LEMMA FallbackKeeps == IInv /\ JournalInv /\ Fallback => JournalInv'
<1> SUFFICES ASSUME IInv, JournalInv, Fallback PROVE JournalInv'
  OBVIOUS
<1>1. /\ pc = "fallback" /\ scan = NoScan /\ scan' = scan
      /\ journal' = journal /\ slots' = slots
  BY DEF Fallback, flash, JournalInv, ScanCorrect
<1>2. CoherentMetadata(meta) /\ meta.confirmed = meta.active /\ meta.active \in Slots
  BY DEF IInv, MetadataCoherent, CoherentMetadata
<1>3. /\ ActiveBootable(meta, slots)
      /\ Latest(journal).ok => SameFallback(meta, Latest(journal).m)
  BY <1>1 DEF JournalInv, RamCorrect, RamInUse
<1>4. CASE JumpTo(meta.active) /\ SlotImageValid(meta, slots, meta.active)
  <2>1. PICK s \in Slots : s = meta.active
    BY <1>2
  <2>2. JumpTo(s) /\ SlotImageValid(meta, slots, s)
    BY <1>4, <2>1
  <2>3. Linked[meta.crc[s]] = s
    BY <1>2, <1>3, <2>1, <2>2 DEF CoherentMetadata, ActiveBootable, SlotImageValid
  <2>4. JournalOrdered' /\ NewestBootable'
    BY <1>1 DEF JournalInv, JournalOrdered, NewestBootable
  <2>5. Latest(journal').ok => CoherentMetadata(Latest(journal').m)
    <3>1. CASE Latest(journal).ok
      <4>1. PICK k \in ValidEntries(journal) : Latest(journal) = journal[k]
        BY <3>1, LatestRecord DEF JournalInv, JournalOrdered
      <4> QED BY <1>1, <4>1 DEF IInv, MetadataCoherent
    <3> QED BY <1>1, <3>1
  <2>6. Latest(journal').ok =>
          SameFallback(meta, Latest(journal').m) /\ CoherentMetadata(Latest(journal').m)
    BY <1>1, <1>3, <2>5
  <2> QED BY <1>1, <2>1, <2>2, <2>3, <2>4, <2>6, JumpKeeps
<1>5. CASE pc' = "ota" /\ UNCHANGED <<meta, run>>
  BY <1>1, <1>5, RamOnlyKeeps
<1> QED BY <1>2, <1>4, <1>5 DEF Fallback

-----------------------------------------------------------------------------
(* The OTA handlers write the slot that is not the active one. *)
LEMMA TargetWrittenKeeps ==
  ASSUME JournalInv, pc = "ota", pc' = "ota", NEW t, t # meta.active,
         \A s \in Slots : s # t => slots'[s] = slots[s], meta.active \in Slots,
         UNCHANGED <<journal, meta, scan>>
  PROVE  JournalInv'
<1>1. /\ ZeroIdle(meta) /\ ActiveBootable(meta, slots)
      /\ Latest(journal).ok => SameFallback(meta, Latest(journal).m)
      /\ Latest(journal).ok => ActiveBootable(Latest(journal).m, slots)
  BY DEF JournalInv, RamCorrect, RamInUse, NewestBootable
<1>2. slots'[meta.active] = slots[meta.active]
  OBVIOUS
<1>3. ActiveBootable(meta, slots')
  BY <1>1, <1>2, ActiveBootableSame
<1>4. Latest(journal).ok => ActiveBootable(Latest(journal).m, slots')
  BY <1>1, <1>2, ActiveBootableSame DEF SameFallback
<1>5. RamCorrect' /\ NewestBootable'
  BY <1>1, <1>3, <1>4 DEF RamCorrect, NewestBootable
<1> QED BY <1>5 DEF JournalInv, JournalOrdered, ScanCorrect, CommitCorrect, AppCorrect, AppRuns,
           AppPlaces

(* The slot the handlers write is none that the newest record falls back to. *)
HandlerTarget(t) ==
  t \in Slots /\ t # meta.active /\ \A s \in Slots : s # t => slots'[s] = slots[s]

LEMMA HandlePrepareTarget ==
  ASSUME IInv, NEW f \in Offers, HandlePrepare(f)
  PROVE  \E t \in Slots : HandlerTarget(t)
<1>1. /\ slots \in [Slots -> SlotContents] /\ meta \in Metadata
      /\ CoherentMetadata(meta) /\ f \in PrepareFrames
  BY OffersAssumption DEF IInv, TypeOK, MetadataCoherent
<1>2. CASE PrepareError(meta, f) # "OK"
  <2>1. slots' = slots
    BY <1>2 DEF HandlePrepare
  <2>2. PICK t \in Slots : t # meta.active
    BY DEF Slots
  <2> QED BY <2>1, <2>2 DEF HandlerTarget
<1>3. CASE PrepareError(meta, f) = "OK"
  <2>1. PICK t : t = PrepareTarget(meta, f)
    OBVIOUS
  <2>2. t \in Slots /\ t # meta.active
    <3>1. PrepareTargetAllowed(meta, t)
      BY <1>1, <1>3, <2>1 DEF PrepareError, PrepareFrames
    <3> QED BY <1>1, <3>1, TargetNotActive
  <2>3. \/ slots' = [slots EXCEPT ![t] = ErasedSlot]
        \/ slots' = [slots EXCEPT ![t] = JunkSlot]
    BY <1>3, <2>1 DEF HandlePrepare
  <2> QED BY <1>1, <2>2, <2>3 DEF HandlerTarget
<1> QED BY <1>2, <1>3

LEMMA HandleDataTarget ==
  ASSUME IInv, NEW f \in DataFrames, HandleData(f)
  PROVE  \E t \in Slots : HandlerTarget(t)
<1>1. ctx.active
  BY DEF HandleData, DataError
<1>2. ctx.target \in Slots /\ ctx.target # meta.active /\ slots \in [Slots -> SlotContents]
  BY <1>1 DEF IInv, SessionInv, TypeOK
<1>3. \E c : slots' = [slots EXCEPT ![ctx.target][f.n] = c]
  BY DEF HandleData
<1> QED BY <1>2, <1>3 DEF HandlerTarget

LEMMA WriteSlotKeeps ==
  ASSUME IInv, JournalInv,
         (\E f \in Offers : HandlePrepare(f)) \/ (\E f \in DataFrames : HandleData(f))
  PROVE  JournalInv'
<1>1. PICK t \in Slots : HandlerTarget(t)
  BY HandlePrepareTarget, HandleDataTarget
<1>2. pc = "ota" /\ pc' = "ota" /\ UNCHANGED <<journal, meta, scan>>
  BY DEF HandlePrepare, HandleData
<1>3. meta.active \in Slots
  BY DEF IInv, MetadataCoherent, CoherentMetadata
<1> QED BY <1>1, <1>2, <1>3, TargetWrittenKeeps DEF HandlerTarget

LEMMA HandleCommitKeeps ==
  ASSUME IInv, JournalInv, NEW f, HandleCommit(f)
  PROVE  JournalInv'
<1>1. ctx.target \in Slots /\ ctx.target # meta.active
  BY DEF IInv, SessionInv, HandleCommit, CommitError
<1>2. meta \in Metadata /\ CoherentMetadata(meta) /\ ctx \in Contexts /\ pc = "ota"
  BY DEF IInv, TypeOK, MetadataCoherent, HandleCommit
<1>3. PICK m : m = PendingMetadata(meta, ctx)
  OBVIOUS
<1>4. /\ m.seq = SeqNext(meta.seq) /\ m.active = meta.active /\ m.minAllowed = meta.minAllowed
      /\ m.state[meta.active] = meta.state[meta.active]
      /\ m.size[meta.active] = meta.size[meta.active]
      /\ m.crc[meta.active] = meta.crc[meta.active]
      /\ m \in Metadata
  <2>1. m \in Metadata
    BY <1>1, <1>2, <1>3, PendingMetadataType
  <2>2. meta.active \in Slots
    BY <1>2 DEF CoherentMetadata
  <2> QED BY <1>1, <1>2, <1>3, <2>1, <2>2, MetadataFields DEF PendingMetadata, Metadata
<1>5. PICK r : r = CommitRecord(m)
  OBVIOUS
<1>6. /\ r.active = m.active /\ r.state = m.state /\ r.size = m.size /\ r.crc = m.crc
      /\ r.minAllowed = m.minAllowed /\ r.seq = IF m.seq = 0 THEN 1 ELSE m.seq
  BY <1>4, <1>5 DEF CommitRecord, Metadata
<1>7. /\ ZeroIdle(meta) /\ ActiveBootable(meta, slots)
      /\ Latest(journal).ok => SameFallback(meta, Latest(journal).m)
  BY <1>2 DEF JournalInv, RamCorrect, RamInUse
<1>8. ActiveBootable(r, slots)
  BY <1>4, <1>6, <1>7, ActiveBootableSame
<1>9. SeqFollows(journal, r.seq, 1)
  <2>1. meta.seq \in SeqNumbers
    BY <1>2, MetadataFields DEF SeqNumbers
  <2> QED BY <1>4, <1>6, <1>7, <2>1, NextRecordFollows DEF SameFallback
<1>10. Latest(journal).ok => r.minAllowed >= Latest(journal).m.minAllowed
  <2>1. meta.minAllowed \in Int
    BY <1>2, MetadataFields, ImagesAssumption
  <2> QED BY <1>4, <1>6, <1>7, <2>1 DEF SameFallback
<1>11. /\ pc' = "commit" /\ commit' = [rec |-> r, ret |-> "ack"]
       /\ UNCHANGED <<journal, slots, meta, scan, run>>
  BY <1>3, <1>5 DEF HandleCommit, StartCommit, flash
<1>12. RamCorrect' /\ CommitCorrect'
  BY <1>6, <1>7, <1>8, <1>9, <1>10, <1>11 DEF RamCorrect, CommitCorrect, ZeroIdle
<1> QED BY <1>2, <1>11, <1>12 DEF JournalInv, JournalOrdered, ScanCorrect, AppCorrect, AppRuns,
           AppPlaces, NewestBootable

LEMMA AppStartConfirmKeeps == JournalInv /\ AppStartConfirm => JournalInv'
<1> SUFFICES ASSUME JournalInv, AppStartConfirm PROVE JournalInv'
  OBVIOUS
<1>1. journal \in Seq(Entry) /\ Len(journal) \in Nat
  BY DEF JournalInv, JournalOrdered, OrderedJournal
<1>2. scan = NoScan /\ Latest(SubSeq(journal, 1, 0)) = TornEntry
  BY <1>1, PrefixWhole, OrderedEmpty, LatestNone DEF JournalInv, ScanCorrect, AppStartConfirm
<1>3. ScanCorrect'
  BY <1>1, <1>2 DEF AppStartConfirm, flash, ScanCorrect, NoScan
<1> QED BY <1>3 DEF AppStartConfirm, flash, JournalInv, JournalOrdered, RamCorrect, RamInUse,
           CommitCorrect, AppCorrect, AppRuns, AppPlaces, NewestBootable, CurrentSlot

(* Gateway_ConfirmSlotEarly confirms the image that runs: the newest       *)
(* record calls its slot pending and describes its contents.               *)
LEMMA AppConfirmKeeps == IInv /\ JournalInv /\ AppConfirm => JournalInv'
<1> SUFFICES ASSUME IInv, JournalInv, AppConfirm PROVE JournalInv'
  OBVIOUS
<1> DEFINE l == Latest(journal)
<1>1. /\ scan.best = l /\ pc = "appScan" /\ scan' = NoScan /\ AppRuns
      /\ UNCHANGED <<journal, slots, run, meta>> /\ CurrentSlot \in Slots
  BY ScanDone DEF AppConfirm, flash, AppRuns, AppPlaces, CurrentSlot, Slots
<1>2. CurrentSlot' = CurrentSlot
  BY <1>1 DEF CurrentSlot
<1>3. CASE ~AppMayConfirm(l, CurrentSlot)
  <2>1. pc' = "app"
    BY <1>1, <1>3 DEF AppConfirm
  <2> QED BY <1>1, <1>2, <2>1 DEF JournalInv, JournalOrdered, ScanCorrect, RamCorrect, RamInUse,
             CommitCorrect, AppCorrect, AppRuns, AppPlaces, NewestBootable
<1>4. CASE AppMayConfirm(l, CurrentSlot)
  <2>1. l.ok /\ l.m.pending = CurrentSlot /\ l.m \in Metadata
    BY <1>1, <1>4 DEF AppMayConfirm, IInv, TypeOK, Entry
  <2>2. SlotImageValid(l.m, slots, CurrentSlot) /\ Linked[l.m.crc[CurrentSlot]] = CurrentSlot
    BY <1>1, <2>1 DEF JournalInv, AppCorrect
  <2>3. PICK s \in Slots : s = CurrentSlot
    BY <1>1
  <2>4. PICK r : r = ConfirmedMetadata(l.m, s)
    OBVIOUS
  <2>5. PICK lm \in Metadata : lm = l.m
    BY <2>1
  <2> HIDE DEF l
  <2>6. /\ r.seq = SeqNext(lm.seq) /\ r.active = s /\ r.pending = "NONE"
        /\ r.size = lm.size /\ r.crc = lm.crc /\ r.state[s] = "CONFIRMED"
        /\ r.minAllowed = IF lm.version[s] > lm.minAllowed THEN lm.version[s] ELSE lm.minAllowed
    BY <2>4, <2>5, MetadataFields DEF ConfirmedMetadata, Metadata
  <2>7. ZeroIdle(r) /\ ActiveBootable(r, slots)
    BY <2>2, <2>3, <2>5, <2>6 DEF ZeroIdle, ActiveBootable, SlotImageValid
  <2>8. SeqFollows(journal, r.seq, 1)
    <3>1. lm.seq \in SeqNumbers
      BY <2>5, MetadataFields DEF SeqNumbers
    <3> QED BY <2>1, <2>5, <2>6, <3>1, NextRecordFollows DEF l
  <2>9. r.minAllowed >= lm.minAllowed
    <3>1. lm.version[s] \in Int /\ lm.minAllowed \in Int
      BY MetadataFields, ImagesAssumption
    <3> QED BY <2>6, <3>1
  <2>10. pc' = "commit" /\ commit' = [rec |-> r, ret |-> "app"]
    BY <1>1, <1>4, <2>3, <2>4 DEF AppConfirm, StartCommit
  <2>11. CommitCorrect'
    BY <1>1, <2>5, <2>6, <2>7, <2>8, <2>9, <2>10 DEF CommitCorrect, l
  <2>12. AppCorrect'
    BY <1>1, <1>2 DEF JournalInv, AppCorrect
  <2> QED BY <1>1, <2>10, <2>11, <2>12 DEF JournalInv, JournalOrdered, ScanCorrect, RamCorrect,
             RamInUse, NewestBootable
<1> QED BY <1>3, <1>4

LEMMA ResetKeeps == JournalInv /\ (AppRebootToBootloader \/ Reset) => JournalInv'
<1> SUFFICES ASSUME JournalInv, AppRebootToBootloader \/ Reset PROVE JournalInv'
  OBVIOUS
<1>1. RamLost /\ journal' = journal /\ slots' = slots
  BY DEF AppRebootToBootloader, Reset, flash
<1>2. JournalOrdered' /\ NewestBootable'
  BY <1>1 DEF JournalInv, JournalOrdered, NewestBootable
<1> QED BY <1>1, <1>2, RamLostKeeps

LEMMA StutterKeeps == JournalInv /\ UNCHANGED vars => JournalInv'
BY DEF vars, JournalInv, JournalOrdered, ScanCorrect, RamCorrect, RamInUse, CommitCorrect,
       AppCorrect, AppRuns, AppPlaces, NewestBootable, CurrentSlot

LEMMA StepKeeps == IInv /\ IInv' /\ JournalInv /\ [Next]_vars => JournalInv'
<1> SUFFICES ASSUME IInv, IInv', JournalInv, [Next]_vars PROVE JournalInv'
  OBVIOUS
<1>1. CASE BootStep
  BY <1>1, PowerOnKeeps, ScanStepKeeps, LoadMetadataKeeps, ConsumeForceFlagKeeps,
     SelectSlotKeeps, FallbackKeeps, CommitWriteKeeps, CommitEraseKeeps DEF BootStep
<1>2. CASE OtaStep
  BY <1>2, WriteSlotKeeps, SessionOnlyKeeps, HandleCommitKeeps, IdleTimeoutKeeps DEF OtaStep
<1>3. CASE AppStep \/ Reset
  BY <1>3, AppStartConfirmKeeps, AppConfirmKeeps, ResetKeeps DEF AppStep
<1>4. CASE UNCHANGED vars
  BY <1>4, StutterKeeps
<1> QED BY <1>1, <1>2, <1>3, <1>4 DEF Next

(* The invariant of the journal. *)
THEOREM JournalInvariant == Spec => [](IInv /\ JournalInv)
<1>1. Init => JournalInv
  BY InitKeeps
<1>2. IInv /\ IInv' /\ JournalInv /\ [Next]_vars => JournalInv'
  BY StepKeeps
<1> QED BY <1>1, <1>2, Invariant, PTL DEF Spec

(* bl_meta_find_latest and ota_meta_load find the newest record of any     *)
(* journal the program can leave behind, with torn records, repeated and   *)
(* wrapped sequence numbers.                                               *)
THEOREM ScanFindsNewest == Spec => []ScanFindsLatest
<1>1. IInv /\ JournalInv => ScanFindsLatest
  BY ScanDone DEF ScanFindsLatest
<1> QED BY <1>1, JournalInvariant, PTL

(* Once an image has been confirmed, the slot the newest record calls      *)
(* active passes bl_slot_image_valid, whatever frames arrive and wherever  *)
(* the device is reset.                                                    *)
THEOREM AlwaysBootable == Spec => []ConfirmedBootable
<1>1. JournalInv => ConfirmedBootable
  BY DEF JournalInv, NewestBootable, ActiveBootable, ConfirmedBootable
<1> QED BY <1>1, JournalInvariant, PTL

(* Only a commit writes the journal, and only these handlers a slot. *)
LEMMA JournalChanges ==
  ASSUME [Next]_vars, journal' # journal
  PROVE  CommitWrite \/ CommitErase
BY DEF Next, vars, flash, BootStep, OtaStep, AppStep, PowerOn, ScanStep, LoadMetadata,
       ConsumeForceFlag, SelectSlot, Fallback, HandlePrepare, HandleData, HandleVerify,
       HandleCommit, HandleAbort, IdleTimeout, AppStartConfirm, AppConfirm,
       AppRebootToBootloader, Reset

LEMMA SlotsChanges ==
  ASSUME [Next]_vars, slots' # slots
  PROVE  (\E f \in Offers : HandlePrepare(f)) \/ (\E f \in DataFrames : HandleData(f))
BY DEF Next, vars, flash, BootStep, OtaStep, AppStep, PowerOn, ScanStep, LoadMetadata,
       ConsumeForceFlag, SelectSlot, Fallback, CommitWrite, CommitErase, HandleVerify,
       HandleCommit, HandleAbort, IdleTimeout, AppStartConfirm, AppConfirm,
       AppRebootToBootloader, Reset

LEMMA CommitNewest ==
  ASSUME IInv, IInv', JournalInv, [Next]_vars, journal' # journal
  PROVE  /\ CommitWrite \/ CommitErase
         /\ CommitWrite => NewestKept \/ NewestWritten
         /\ CommitErase => NewestKept \/ NewestLost
BY JournalChanges, CommitWriteKeeps, CommitEraseKeeps

(* PREPARE and DATA erase and program only the slot that no fallback needs, *)
(* although the handlers look at a RAM copy that may be out of date.        *)
THEOREM ActiveSlotNeverWritten == Spec => ActiveSlotUntouched
<1> DEFINE A == \A s \in Slots :
                  slots'[s] # slots[s] /\ Latest(journal).ok
                    => s \notin {Latest(journal).m.active, Latest(journal).m.confirmed}
<1>1. IInv /\ JournalInv /\ [Next]_vars => [A]_slots
  <2> SUFFICES ASSUME IInv, JournalInv, [Next]_vars, slots' # slots, NEW s \in Slots,
                      slots'[s] # slots[s], Latest(journal).ok
               PROVE  s \notin {Latest(journal).m.active, Latest(journal).m.confirmed}
    OBVIOUS
  <2>1. PICK t \in Slots : HandlerTarget(t)
    BY SlotsChanges, HandlePrepareTarget, HandleDataTarget
  <2>2. pc = "ota"
    BY SlotsChanges DEF HandlePrepare, HandleData
  <2>3. Latest(journal).m.active = meta.active
    BY <2>2 DEF JournalInv, RamCorrect, RamInUse, SameFallback
  <2>4. CoherentMetadata(Latest(journal).m)
    <3>1. PICK k \in ValidEntries(journal) : Latest(journal) = journal[k]
      BY LatestRecord DEF JournalInv, JournalOrdered
    <3> QED BY <3>1 DEF IInv, MetadataCoherent
  <2> QED BY <2>1, <2>3, <2>4 DEF HandlerTarget, CoherentMetadata
<1> QED BY <1>1, JournalInvariant, PTL DEF Spec, ActiveSlotUntouched

(* A commit that finds room leaves the newest record or installs its own,   *)
(* a torn write included.                                                   *)
THEOREM CommitAtomic == Spec => AppendAtomic
<1> DEFINE A == Len(journal) < MaxRecords /\ journal # <<>> =>
                  Latest(journal') \in {Latest(journal), [ok |-> TRUE, m |-> commit.rec]}
<1>1. IInv /\ IInv' /\ JournalInv /\ [Next]_vars => [A]_journal
  <2> SUFFICES ASSUME IInv, IInv', JournalInv, [Next]_vars, journal' # journal,
                      Len(journal) < MaxRecords
               PROVE  Latest(journal') \in {Latest(journal), [ok |-> TRUE, m |-> commit.rec]}
    OBVIOUS
  <2>1. ~CommitErase
    <3>1. Len(journal) \in Nat
      BY DEF JournalInv, JournalOrdered, OrderedJournal
    <3>2. Len(journal) # MaxRecords
      BY <3>1, JournalAssumption
    <3> QED BY <3>2 DEF CommitErase
  <2> QED BY <2>1, CommitNewest DEF NewestKept, NewestWritten
<1> QED BY <1>1, JournalInvariant, Invariant, PTL DEF Spec, AppendAtomic

(* The anti-rollback floor of the newest record never goes down.            *)
THEOREM FloorNeverLowered == Spec => FloorMonotone
<1> DEFINE A == LET old == Latest(journal)
                    new == Latest(journal')
                IN  old.ok /\ new.ok => new.m.minAllowed >= old.m.minAllowed
<1>1. IInv /\ IInv' /\ JournalInv /\ [Next]_vars => [A]_journal
  <2> SUFFICES ASSUME IInv, IInv', JournalInv, [Next]_vars, journal' # journal,
                      Latest(journal).ok, Latest(journal').ok
               PROVE  Latest(journal').m.minAllowed >= Latest(journal).m.minAllowed
    OBVIOUS
  <2>1. Latest(journal).m.minAllowed \in Int
    <3>1. Latest(journal).m \in Metadata
      BY LatestOk DEF JournalInv, JournalOrdered, Entry
    <3> QED BY <3>1, MetadataFields, ImagesAssumption
  <2>2. CASE CommitWrite
    <3>1. CASE NewestKept
      BY <2>1, <3>1 DEF NewestKept
    <3>2. CASE NewestWritten
      BY <2>2, <3>2 DEF NewestWritten, CommitWrite, JournalInv, CommitCorrect
    <3> QED BY <2>2, <3>1, <3>2, CommitNewest
  <2>3. CASE CommitErase
    BY <2>1, <2>3, CommitNewest DEF NewestKept, NewestLost
  <2> QED BY <2>2, <2>3, CommitNewest
<1> QED BY <1>1, JournalInvariant, Invariant, PTL DEF Spec, FloorMonotone
==============================================================================
