---------------------------- MODULE OfflineCache -----------------------------
(***************************************************************************)
(* The offline cache of the STM32 application (SmartHome/1_App/            *)
(* app_storage.c): a log of abnormal reports in the second half of an SPI  *)
(* flash, written by the storage task (priority 2) and read, acknowledged  *)
(* and rescanned by the gateway task (priority 10).                        *)
(*                                                                         *)
(* Nothing guards the cache's pointers, nor the SPI bus.  The gateway task *)
(* never waits inside an operation, so it runs whole between two           *)
(* instructions of the storage task, whose operation is cut into steps:    *)
(* st.pc names the flash access, or the update of the counter, that it is  *)
(* in the middle of.                                                       *)
(*                                                                         *)
(* Every cached record holds one report frame and has the same length.  A  *)
(* cache_seq is as good as the report it belongs to, for a report is       *)
(* cached at most once.                                                    *)
(***************************************************************************)
EXTENDS Naturals, Sequences, FiniteSets

CONSTANTS
  Units,        \* length of the cache region: STORAGE_CACHE_SIZE
  SectorUnits,  \* length of a sector: STORAGE_SECTOR_SIZE
  RecUnits,     \* length of a record; the first unit is its header
  QueueLen,     \* STORAGE_TASK_QUEUE_LEN
  MaxSeq,       \* bound: numbered reports of one start
  MaxBoots      \* bound: restarts of the device

ASSUME CacheAssumption ==
  /\ Units \in Nat /\ SectorUnits \in Nat \ {0} /\ RecUnits \in Nat \ {0, 1}
  /\ RecUnits <= Units /\ Units % SectorUnits = 0
  /\ QueueLen \in Nat \ {0} /\ MaxSeq \in Nat /\ MaxBoots \in Nat

VARIABLES
  flash,      \* the cache region
  rd, wr,     \* cache_read_addr, cache_write_addr
  backlog,    \* cache_backlog
  queue,      \* g_storage_queue
  st,         \* the storage task
  owed,       \* history: reports counted into the cache and not acknowledged since
  disturbed   \* history: the two tasks, a reset or the end of the region came in the way

ctxVars == <<rd, wr, backlog>>
cacheVars == <<flash, rd, wr, backlog, queue, st, owed, disturbed>>

(* A report is known by the start of the device and its number in it. *)
Reports == (0..MaxBoots) \X (1..MaxSeq)
None == <<>>
Event == <<>>     \* any message of the queue that is not for the cache

Addrs == 0..(Units - 1)
Blank == [rec |-> None, part |-> 0]
Junk  == [rec |-> None, part |-> 1]
Contents == {Blank, Junk} \cup [rec : Reports, part : 1..RecUnits]

PCs == {"scan", "scancount", "event", "idle", "wrapped", "check", "erase", "program", "verify",
        "count"}
StorageTask == [pc : PCs, msg : Reports \cup {None}, addr : 0..Units, tmp : Nat, spoiled : BOOLEAN]
At(pc) == [st EXCEPT !.pc = pc, !.spoiled = FALSE]
Idle == [pc |-> "idle", msg |-> None, addr |-> 0, tmp |-> 0, spoiled |-> FALSE]
Starting == [Idle EXCEPT !.pc = "scan"]

CInit ==
  /\ flash = [a \in Addrs |-> Blank]
  /\ rd = 0 /\ wr = 0 /\ backlog = 0
  /\ queue = <<>>
  /\ st = Starting
  /\ owed = {}
  /\ disturbed = FALSE

(***************************************************************************)
(* The flash                                                               *)
(***************************************************************************)
Span(a) == a .. (a + RecUnits - 1)
Fits(a) == a + RecUnits <= Units

(* The report of the record whose header is at a; None without a header. *)
HeaderAt(a) == IF flash[a].part = 1 THEN flash[a].rec ELSE None
Readable(a) == \A u \in Span(a) : flash[u].rec = HeaderAt(a) /\ flash[u].part = u - a + 1
ValidAt(a) == Fits(a) /\ HeaderAt(a) # None /\ Readable(a)

(* What storage_scan_cache_region counts: the valid records from the start *)
(* of the region up to the first gap.                                      *)
ScanCount ==
  LET Counts(n) == \A k \in 0..(n - 1) : ValidAt(k * RecUnits)
  IN CHOOSE n \in 0..(Units \div RecUnits) :
       Counts(n) /\ (n = Units \div RecUnits \/ ~Counts(n + 1))

(* The record at a is programmed; parts lists the units that really are. *)
Programmed(a, r, parts) ==
  [u \in Addrs |-> IF u \notin Span(a) \/ u - a + 1 \notin parts THEN flash[u]
                   ELSE IF flash[u] = Blank THEN [rec |-> r, part |-> u - a + 1] ELSE Junk]

(* storage_cache_erase_range: all sectors the range touches, whole. *)
ErasedAround(a) ==
  LET sectors == {u \div SectorUnits : u \in Span(a)}
  IN [u \in Addrs |-> IF u \div SectorUnits \in sectors THEN Blank ELSE flash[u]]

(* A program that breaks off has written nothing, a part of the header,    *)
(* the header alone, or everything.                                        *)
Torn(a, r) ==
  {Programmed(a, r, 1..n) : n \in {0, 1, RecUnits}} \cup {[flash EXCEPT ![a] = Junk]}

(***************************************************************************)
(* The storage task                                                        *)
(***************************************************************************)

(* The scan at the start, one record per step. *)
ScanRead ==
  /\ st.pc = "scan"
  /\ IF ~st.spoiled /\ ValidAt(st.addr)
     THEN st' = [At("scancount") EXCEPT !.tmp = backlog] /\ UNCHANGED wr
     ELSE wr' = st.addr /\ st' = [Idle EXCEPT !.pc = "event"]
  /\ UNCHANGED <<flash, rd, backlog, queue, owed, disturbed>>

ScanCounted ==
  /\ st.pc = "scancount"
  /\ backlog' = st.tmp + 1
  /\ st' = [At("scan") EXCEPT !.addr = st.addr + RecUnits]
  /\ UNCHANGED <<flash, rd, wr, queue, owed, disturbed>>

(* storage_write_record: the event log shares the chip, not the region. *)
EventWritten ==
  /\ st.pc = "event"
  /\ st' = Idle
  /\ UNCHANGED <<flash, ctxVars, queue, owed, disturbed>>

(* The next message.  A record that does not fit any more starts again at  *)
(* the beginning of the region and gives up what is unread.                *)
Receive ==
  /\ st.pc = "idle"
  /\ queue # <<>>
  /\ queue' = Tail(queue)
  /\ LET m == Head(queue) IN
     \/ m = Event
        /\ st' = At("event")
        /\ UNCHANGED <<ctxVars, disturbed>>
     \/ m # Event /\ wr + RecUnits <= Units
        /\ st' = [At("check") EXCEPT !.msg = m, !.addr = wr]
        /\ UNCHANGED <<ctxVars, disturbed>>
     \/ m # Event /\ wr + RecUnits > Units
        /\ wr' = 0 /\ rd' = 0
        /\ st' = [At("wrapped") EXCEPT !.msg = m, !.addr = 0]
        /\ disturbed' = TRUE
        /\ UNCHANGED backlog
  /\ UNCHANGED <<flash, owed>>

Wrapped ==
  /\ st.pc = "wrapped"
  /\ backlog' = 0
  /\ st' = At("check")
  /\ UNCHANGED <<flash, rd, wr, queue, owed, disturbed>>

(* Mutant: every write erases its sectors first. *)
CheckAlwaysErase ==
  /\ st.pc = "check"
  /\ st' = At("erase")
  /\ UNCHANGED <<flash, ctxVars, queue, owed, disturbed>>

(* storage_cache_is_erased *)
Check ==
  /\ st.pc = "check"
  /\ st' = At(IF ~st.spoiled /\ \A u \in Span(st.addr) : flash[u] = Blank THEN "program" ELSE "erase")
  /\ UNCHANGED <<flash, ctxVars, queue, owed, disturbed>>

(* A disturbed erase command may have no effect. *)
Erase ==
  /\ st.pc = "erase"
  /\ flash' \in {ErasedAround(st.addr)} \cup (IF st.spoiled THEN {flash} ELSE {})
  /\ st' = At("program")
  /\ UNCHANGED <<ctxVars, queue, owed, disturbed>>

Program ==
  /\ st.pc = "program"
  /\ flash' \in IF st.spoiled THEN Torn(st.addr, st.msg)
                ELSE {Programmed(st.addr, st.msg, 1..RecUnits)}
  /\ st' = At("verify")
  /\ UNCHANGED <<ctxVars, queue, owed, disturbed>>

(* The record is read back; only then does the tail move.                  *)
(* cache_backlog++ loads the counter now and stores it in the next step.   *)
Verify ==
  /\ st.pc = "verify"
  /\ IF ~st.spoiled /\ ValidAt(st.addr) /\ HeaderAt(st.addr) = st.msg
     THEN wr' = st.addr + RecUnits /\ st' = [At("count") EXCEPT !.tmp = backlog]
     ELSE st' = Idle /\ UNCHANGED wr
  /\ UNCHANGED <<flash, rd, backlog, queue, owed, disturbed>>

Count ==
  /\ st.pc = "count"
  /\ backlog' = st.tmp + 1
  /\ owed' = owed \cup {st.msg}
  /\ st' = Idle
  /\ UNCHANGED <<flash, rd, wr, queue, disturbed>>

StorageStep ==
  \/ ScanRead \/ ScanCounted \/ EventWritten \/ Receive \/ Wrapped
  \/ Check \/ Erase \/ Program \/ Verify \/ Count

(***************************************************************************)
(* Operations of the gateway task                                          *)
(***************************************************************************)

(* Storage_WriteCache, called for each of a sequence of reports: a message *)
(* the queue has no room for is dropped.                                   *)
Queued(reports) ==
  LET all == queue \o reports
  IN IF Len(all) <= QueueLen THEN all ELSE SubSeq(all, 1, QueueLen)

(* How an access to the flash ends: HAL_SPI refuses while the storage task *)
(* has a transfer open (and the chip-select edge spoils that transfer), or *)
(* the chip is busy with a program or an erase and answers nothing         *)
(* ("blind": W25QXX_Read does not wait for it), or it is well.             *)
Ways ==
  {"ok"} \cup (IF st.pc \in {"scan", "check", "erase", "program", "verify", "event"}
               THEN {"refused"} ELSE {})
         \cup (IF st.pc \in {"erase", "program", "event"} THEN {"blind"} ELSE {})
Spoil(how) == IF how = "refused" THEN [st EXCEPT !.spoiled = TRUE] ELSE st

(* The counter is being updated by the storage task. *)
Counting == st.pc \in {"scancount", "wrapped", "count"}

(* The head and the counter after the head record is passed over. *)
Popped(p) ==
  [rd |-> IF p.rd + RecUnits >= Units THEN 0 ELSE p.rd + RecUnits, backlog |-> p.backlog - 1]

(* Mutant: whatever record is the head is passed over. *)
MarksAnyHead(p, r) == p.backlog # 0 /\ Fits(p.rd) /\ HeaderAt(p.rd) # None

(* Storage_MarkCacheAck by its return value. *)
MarksAck(p, r) == p.backlog # 0 /\ Fits(p.rd) /\ HeaderAt(p.rd) = r

(* The reports a replay would find, if nothing interfered. *)
InWindow ==
  {HeaderAt(a) : a \in {x \in {rd + k * RecUnits : k \in 0..(Units \div RecUnits)} :
                          /\ ValidAt(x)
                          /\ x < rd + backlog * RecUnits}}

(* Storage_WriteEvent, by any task. *)
WriteEvent ==
  /\ queue' = Queued(<<Event>>)
  /\ UNCHANGED <<flash, ctxVars, st, owed, disturbed>>

(* Mutant: the scan leaves the head where it was. *)
CResetKeepsHead ==
  /\ flash' \in CASE st.pc = "program" -> Torn(st.addr, st.msg)
                  [] st.pc = "erase" -> {flash, ErasedAround(st.addr)}
                  [] OTHER -> {flash}
  /\ rd' = rd /\ wr' = 0 /\ backlog' = 0
  /\ queue' = <<>>
  /\ st' = Starting
  /\ disturbed' = (disturbed \/ st.pc \in {"erase", "program"})
  /\ UNCHANGED owed

(* A reset keeps what was programmed; one in the middle of a flash         *)
(* operation leaves that operation half done.                              *)
CReset ==
  /\ flash' \in CASE st.pc = "program" -> Torn(st.addr, st.msg)
                  [] st.pc = "erase" -> {flash, ErasedAround(st.addr)}
                  [] OTHER -> {flash}
  /\ rd' = 0 /\ wr' = 0 /\ backlog' = 0
  /\ queue' = <<>>
  /\ st' = Starting
  /\ disturbed' = (disturbed \/ st.pc \in {"erase", "program"})
  /\ UNCHANGED owed
==============================================================================
