----------------------------- MODULE ReportPath ------------------------------
(***************************************************************************)
(* Telemetry of the STM32 application (SmartHome/1_App/app_gateway.c): the *)
(* gateway task numbers and sends sensor reports, remembers them in a      *)
(* small table until the Linux gateway acknowledges them, hands abnormal   *)
(* ones that were not acknowledged to the offline cache and replays the    *)
(* cache, head first.  Numbers start again with every start of the device; *)
(* an acknowledgement carries the number alone.                            *)
(*                                                                         *)
(* The Linux gateway acknowledges every report it receives.  Frames and    *)
(* acknowledgements may be lost; acknowledgements may be late.             *)
(***************************************************************************)
EXTENDS OfflineCache

CONSTANTS
  Slots,        \* places of the table: 1..GW_PENDING_QUEUE_SIZE
  ReplayBatch,  \* GW_REPLAY_BATCH_MAX
  MaxEvents     \* bound: events other tasks log

ASSUME ReportAssumption ==
  /\ Slots = 1..Cardinality(Slots) /\ IsFiniteSet(Slots)
  /\ ReplayBatch \in Nat \ {0} /\ MaxEvents \in Nat

VARIABLES
  boot,      \* bound: how often the device was started again
  seq,       \* g_report_seq
  pending,   \* g_pending_reports
  acks,      \* acknowledgements on their way, each a report number
  events,    \* bound: events logged
  received   \* history: numbers of the reports the Linux gateway has received

gwVars == <<boot, seq, pending, acks, events, received>>
rvars == <<cacheVars, gwVars>>

Free == [report |-> None, replay |-> FALSE, abnormal |-> FALSE]
Entries == {Free} \cup [report : Reports, replay : BOOLEAN, abnormal : BOOLEAN]
Active == {i \in Slots : pending[i] # Free}
Lowest(S) == CHOOSE i \in S : \A j \in S : i <= j

RInit ==
  /\ CInit
  /\ boot = 0 /\ seq = 0
  /\ pending = [i \in Slots |-> Free]
  /\ acks = {}
  /\ events = 0
  /\ received = {}

(* gw_pending_enqueue in the first free slot. *)
Enqueued(table, e) == [table EXCEPT ![Lowest({i \in Slots : table[i] = Free})] = e]

(* A frame on the line: lost, or received, with an acknowledgement that is *)
(* lost or on its way.                                                     *)
Line(r) ==
  \/ UNCHANGED <<received, acks>>
  \/ received' = received \cup {r[2]} /\ acks' \in {acks, acks \cup {r[2]}}

(***************************************************************************)
(* Reports                                                                 *)
(***************************************************************************)

(* gw_try_cache_abnormal_snapshot: of the entries in late, the abnormal    *)
(* live ones, and only while nothing waits in the cache.                   *)
Snapshots(late) ==
  LET cached == SelectSeq([i \in Slots |-> i],
                          LAMBDA i : i \in late /\ ~pending[i].replay /\ pending[i].abnormal)
  IN IF backlog # 0 THEN <<>> ELSE [k \in DOMAIN cached |-> pending[cached[k]].report]

(* gw_pending_scan_timeout: the entries in late have waited longer than    *)
(* GW_REPORT_ACK_TIMEOUT_MS.                                               *)
Expired(late) == [i \in Slots |-> IF i \in late THEN Free ELSE pending[i]]

(* gw_send_sensor_data.  A report that cannot be sent, or has no slot, is  *)
(* treated as one that timed out.                                          *)
Report(abnormal) ==
  /\ seq < MaxSeq
  /\ seq' = seq + 1
  /\ \E late \in SUBSET Active :
       LET r == <<boot, seq + 1>>
           table == Expired(late)
           full == \A i \in Slots : table[i] # Free
           itself == IF abnormal /\ backlog = 0 THEN <<r>> ELSE <<>>
       IN \/ /\ pending' = table
             /\ queue' = Queued(Snapshots(late) \o itself)
             /\ IF full THEN Line(r) ELSE UNCHANGED <<received, acks>>
          \/ /\ ~full
             /\ pending' = Enqueued(table, [report |-> r, replay |-> FALSE, abnormal |-> abnormal])
             /\ queue' = Queued(Snapshots(late))
             /\ Line(r)
  /\ UNCHANGED <<flash, ctxVars, st, owed, disturbed, boot, events>>

(* The same for a report that is normal and answered at once: its number   *)
(* is of no further interest.                                              *)
QuietReport(late) ==
  /\ pending' = Expired(late)
  /\ queue' = Queued(Snapshots(late))
  /\ UNCHANGED <<flash, ctxVars, st, owed, disturbed, boot, seq, acks, events, received>>

(***************************************************************************)
(* Acknowledgements                                                        *)
(***************************************************************************)

(* gw_process_report_ack: the first entry with that number; a replayed one *)
(* takes its record out of the cache, if that is still the head.           *)
HandleAck(q, how) ==
  LET found == {i \in Active : pending[i].report[2] = q}
      e == pending[Lowest(found)]
      here == [rd |-> rd, backlog |-> backlog]
      marks == found # {} /\ e.replay /\ how = "ok" /\ MarksAck(here, e.report)
  IN
  /\ q \in acks
  /\ how \in Ways
  /\ how # "ok" => found # {} /\ e.replay /\ backlog # 0
  /\ acks' = acks \ {q}
  /\ pending' = IF found = {} THEN pending ELSE [pending EXCEPT ![Lowest(found)] = Free]
  /\ IF marks
     THEN /\ rd' = Popped(here).rd /\ backlog' = Popped(here).backlog
          /\ owed' = owed \ {HeaderAt(rd)}
     ELSE UNCHANGED <<rd, backlog, owed>>
  /\ st' = Spoil(how)
  /\ disturbed' = (disturbed \/ how # "ok" \/ (marks /\ Counting))
  /\ UNCHANGED <<flash, wr, queue, boot, seq, events, received>>

LoseAck(q) ==
  /\ q \in acks
  /\ acks' = acks \ {q}
  /\ UNCHANGED <<cacheVars, boot, seq, pending, events, received>>

(***************************************************************************)
(* Replay                                                                  *)
(***************************************************************************)

(* A record with a header whose frame does not parse is passed over.       *)
Skips(p) == p.backlog # 0 /\ Fits(p.rd) /\ HeaderAt(p.rd) # None /\ ~Readable(p.rd)
AfterSkips[n \in Nat] ==
  IF n = 0 THEN [rd |-> rd, backlog |-> backlog]
  ELSE LET p == AfterSkips[n - 1] IN IF Skips(p) THEN Popped(p) ELSE p

(* Mutant: a record in flight is sent again. *)
InFlightUnseen(r) == FALSE

(* gw_pending_find_replay_cache_seq *)
InFlight(r) == \E i \in Active : pending[i].replay /\ pending[i].report = r

(* Storage_PeekCache found something that is no record: the region is      *)
(* scanned again, and everything still in it counts as unsent.             *)
Rescan(n) ==
  /\ rd' = 0 /\ backlog' = n /\ wr' = n * RecUnits
  /\ UNCHANGED <<pending, received, acks>>

ReplaySend(r, p) ==
  /\ rd' = p.rd /\ backlog' = p.backlog
  /\ pending' \in {pending, Enqueued(pending, [report |-> r, replay |-> TRUE, abnormal |-> TRUE])}
  /\ IF pending' = pending THEN UNCHANGED <<received, acks>> ELSE Line(r)
  /\ UNCHANGED wr

(* gw_try_replay_cache, when the table has room.  Once one record is sent, *)
(* the next look finds it in flight and the batch ends.                    *)
Replay(how) ==
  LET p == AfterSkips[ReplayBatch - 1]
      head == HeaderAt(p.rd)
  IN
  /\ backlog # 0
  /\ Active # Slots
  /\ how \in Ways
  /\ \/ /\ how = "refused"
        /\ UNCHANGED <<ctxVars, pending, received, acks>>
     \/ /\ how = "blind"
        /\ Rescan(0)
     \/ /\ how = "ok"
        /\ \/ /\ p.backlog = 0 \/ ~Fits(p.rd)
              /\ rd' = p.rd /\ backlog' = p.backlog
              /\ UNCHANGED <<wr, pending, received, acks>>
           \/ /\ p.backlog # 0 /\ Fits(p.rd) /\ head = None
              /\ Rescan(ScanCount)
           \/ /\ Skips(p)
              /\ rd' = Popped(p).rd /\ backlog' = Popped(p).backlog
              /\ UNCHANGED <<wr, pending, received, acks>>
           \/ /\ p.backlog # 0 /\ ValidAt(p.rd)
              /\ IF InFlight(head)
                 THEN /\ rd' = p.rd /\ backlog' = p.backlog
                      /\ UNCHANGED <<wr, pending, received, acks>>
                 ELSE ReplaySend(head, p)
  /\ st' = Spoil(how)
  /\ disturbed' = (disturbed \/ how # "ok" \/ (ctxVars' # ctxVars /\ Counting))
  /\ UNCHANGED <<flash, queue, owed, boot, seq, events>>

(***************************************************************************)
(* The device                                                              *)
(***************************************************************************)
Storage == StorageStep /\ UNCHANGED gwVars

OtherTaskLogs ==
  /\ events < MaxEvents
  /\ events' = events + 1
  /\ WriteEvent
  /\ UNCHANGED <<boot, seq, pending, acks, received>>

(* A reset by the watchdog or a loss of power.  Nobody listens on the line *)
(* while the bootloader runs: what is under way to the device is lost.     *)
Restart ==
  /\ boot < MaxBoots
  /\ boot' = boot + 1
  /\ CReset
  /\ seq' = 0
  /\ pending' = [i \in Slots |-> Free]
  /\ acks' = {}
  /\ UNCHANGED <<events, received>>

RNext ==
  \/ Storage
  \/ \E abnormal \in BOOLEAN : Report(abnormal)
  \/ \E late \in SUBSET Active : QuietReport(late)
  \/ \E q \in 1..MaxSeq : LoseAck(q) \/ \E how \in Ways : HandleAck(q, how)
  \/ \E how \in Ways : Replay(how)
  \/ OtherTaskLogs \/ Restart

RSpec == RInit /\ [][RNext]_rvars

(***************************************************************************)
(* Properties                                                              *)
(***************************************************************************)

(* Every variable stays in its range; the counter never exceeds by more    *)
(* than one what the region can hold.                                      *)
RTypeOK ==
  /\ flash \in [Addrs -> Contents]
  /\ rd \in 0..Units /\ wr \in 0..Units
  /\ backlog \in 0..(Units \div RecUnits + 1)
  /\ Len(queue) <= QueueLen /\ \A k \in DOMAIN queue : queue[k] \in Reports \cup {Event}
  /\ st \in StorageTask
  /\ pending \in [Slots -> Entries]
  /\ seq \in 0..MaxSeq /\ boot \in 0..MaxBoots /\ events \in 0..MaxEvents
  /\ acks \subseteq received /\ received \subseteq 1..MaxSeq /\ owed \subseteq Reports

(* A cached record is in flight at most once (9.9 of                       *)
(* smarthome_round2_review_2026-05-20.md), whatever rescans, restarts and  *)
(* late acknowledgements do to the head of the cache.                      *)
OneInFlight ==
  \A i, j \in Active : i # j /\ pending[i].replay /\ pending[j].replay
                         => pending[i].report # pending[j].report

(* A record the cache holds and the gateway has not acknowledged will be   *)
(* replayed: it lies between head and tail.  This is what 9.8 of the       *)
(* review is about.  It holds as long as the two tasks do not collide on   *)
(* the chip or the counter, no reset hits an erase or a program and the    *)
(* region has not come to its end.                                         *)
KeptUntilAcked ==
  ~disturbed /\ st.pc \notin {"scan", "scancount"} => owed \subseteq InWindow

(* Under the same conditions head, tail and counter agree (the counter is  *)
(* kept by both tasks, each restart counts again): between head and tail   *)
(* there are backlog records and all of them can be read.  When the last   *)
(* record ends with the region and is acknowledged, the head goes back to  *)
(* the start, the tail only with the next record.                          *)
CounterExact ==
  ~disturbed /\ st.pc \notin {"scan", "scancount", "count"} =>
    /\ \/ wr = rd + backlog * RecUnits
       \/ rd = 0 /\ backlog = 0 /\ wr = Units
    /\ \A k \in 0..(backlog - 1) : ValidAt(rd + k * RecUnits)

(* README.md: an offline cache with acknowledgement-driven replay;         *)
(* smarthome_round2_review_2026-05-20.md:134 calls it reliable.            *)
NothingForgotten == st.pc \notin {"scan", "scancount"} => owed \subseteq InWindow

(* An acknowledgement takes a record out of the cache only when the Linux  *)
(* gateway has received a report with its number: late and repeated        *)
(* acknowledgements, time-outs and rescans take out no other record.  (The *)
(* number is all it names: after a restart it may be that of a new report  *)
(* and take out the unsent record of an older one.)                        *)
AckedWasReceived ==
  [][\A r \in owed \ owed' : r[2] \in received]_rvars

==============================================================================
