------------------------- MODULE GatewayLinksProofs --------------------------
(***************************************************************************)
(* Safety of the gateway's transport table for any number of devices,      *)
(* sessions and frames and any capacity of the queues.  Five threads and   *)
(* the OTA tasks work on the table; what relates it to the sessions is     *)
(* kept because only the TCP thread opens, binds and closes them, and      *)
(* because between the two halves of a time-out nothing is bound to the    *)
(* session that is about to be closed.                                     *)
(***************************************************************************)
EXTENDS GatewayLinks, TLAPS

Walk(pcs) == [pc : pcs, item : Seq(Frames)]

(* Places, limits and the table. *)
Control ==
  /\ running \in BOOLEAN /\ stopping \in {"no", "raw", "data", "ota", "join", "done"}
  /\ shut \subseteq {"raw", "data"} /\ turns \in 0..MaxTurns

Tables ==
  /\ sess \in [Fds -> Devices \cup {NoDevice, Closed}]
  /\ bound \in [Devices -> Fds \cup {NoFd}]
  /\ active \in [Devices -> Links \cup {None}]
  /\ task \in [Devices -> OtaLinks \cup {None, "muted", "unlocked"}]

(* Frames on their way: what waits in a queue or with a thread was read,   *)
(* a queue is within its capacity, and a thread that handles a frame has   *)
(* one.                                                                    *)
Queued ==
  /\ raw \in Seq(Seq(Frames)) /\ data \in Seq(Frames)
  /\ Len(raw) <= RawCap /\ Len(data) <= DataCap
  /\ \A k \in DOMAIN raw : Len(raw[k]) \in 1..ChunkMax

Carried ==
  /\ serial \in Walk({"idle", "push", "ended"})
  /\ serial.pc = "push" => Len(serial.item) \in 1..ChunkMax
  /\ parser \in Walk({"idle", "frame", "push", "ended"})
  /\ parser.pc \in {"frame", "push"} => parser.item # <<>>
  /\ tcp \in Thread({"idle", "push", "ended"}) \cup [pc : {"clear"}, item : Fds]
  /\ tcp.pc = "push" => tcp.item \in Frames
  /\ mqtt \in Thread({"idle", "push", "ended"})
  /\ mqtt.pc = "push" => mqtt.item \in Frames
  /\ up \in Thread({"idle", "accept", "bind", "upload", "ended"})
  /\ up.pc \in {"accept", "bind", "upload"} => up.item \in Frames

Counted == taken \in Seq(Frames) /\ refused \subseteq Frames /\ read \in 0..MaxFrames

(* The second half of a time-out finds nothing bound to its session. *)
Parted == tcp.pc = "clear" => \A d \in Devices : bound[d] # tcp.item

Typed == Control /\ Tables /\ Queued /\ Carried /\ Counted
TableSafe == Parted /\ BoundIsOpen /\ ActiveExplained
LInv == Typed /\ TableSafe

(***************************************************************************)
(* Values                                                                  *)
(***************************************************************************)
LEMMA Constants ==
  /\ RawCap \in Nat /\ DataCap \in Nat /\ ChunkMax \in Nat /\ MaxFrames \in Nat /\ MaxTurns \in Nat
  /\ NoFd \notin Fds /\ NoDevice \notin Devices /\ Closed \notin Devices /\ Closed # NoDevice
  BY LinksAssumption

(* A frame that is read is one of those the bound allows. *)
LEMMA FreshFrame ==
  ASSUME Counted, NEW d \in Devices, NEW l \in Links, Reads(1)
  PROVE  Fresh(d, l) \in Frames /\ read' \in 0..MaxFrames
<1>1. read + 1 \in 1..MaxFrames
  BY Constants, SMT DEF Counted, Reads
<1> QED
  BY <1>1, Constants, SMT DEF Counted, Reads, Fresh, Frames

(* A priority is a number. *)
LEMMA Priorities == \A l \in Links : transportPriority[l] \in Nat
  BY LinksAssumption, SMT DEF Links, transportPriority

LEMMA LoopHeads ==
  /\ LoopHead \in {Idle, Ended}
  /\ Idle.pc = "idle" /\ Idle.item = <<>> /\ Ended.pc = "ended" /\ Ended.item = <<>>
  BY DEF LoopHead, Idle, Ended

(* The place of a thread that is done with its frame. *)
LEMMA LoopPlaces ==
  /\ \A pcs : {"idle", "ended"} \subseteq pcs => LoopHead \in Thread(pcs) /\ LoopHead \in Walk(pcs)
                                                /\ Idle \in Thread(pcs) /\ Ended \in Thread(pcs)
                                                /\ Idle \in Walk(pcs) /\ Ended \in Walk(pcs)
  BY DEF LoopHead, Idle, Ended, Thread, Walk

LEMMA InitTyped == LInit => Typed
<1> SUFFICES ASSUME LInit PROVE Typed
  OBVIOUS
<1>1. Control /\ Counted
  BY Constants, SMT DEF LInit, Control, Counted
<1>2. Queued
  BY Constants, SMT DEF LInit, Queued
<1>3. Tables
  BY DEF LInit, Tables
<1>4. Carried
  BY LoopPlaces, LoopHeads DEF LInit, Carried
<1> QED
  BY <1>1, <1>2, <1>3, <1>4 DEF Typed

LEMMA InitSafe == LInit => TableSafe
  BY LoopHeads DEF LInit, TableSafe, Parted, BoundIsOpen, ActiveExplained, None

(***************************************************************************)
(* Types                                                                   *)
(***************************************************************************)
LEMMA TurnTyped == ASSUME Control, Turn PROVE turns' \in 0..MaxTurns
  BY Constants, SMT DEF Control, Turn

LEMMA ControlKept == ASSUME Typed, [LNext]_lvars PROVE Control'
<1> USE DEF Typed, Control
<1>1. CASE World
  BY <1>1, TurnTyped DEF World, SerialRead, TcpAccept, TcpTimeout, TcpHup, TcpRead, MqttOnline,
     MqttOffline, MqttRead, OtaMute, Stop, control, counts, queues
<1>2. CASE SerialStep \/ ParserStep \/ TcpStep \/ MqttStep \/ UpStep
  BY <1>2 DEF SerialStep, ParserStep, TcpStep, MqttStep, UpStep, SerialPush, SerialEnds, ParserPop,
     ParserFrame, ParserPush, ParserEnds, TcpPush, TcpClear, TcpEnds, MqttPush, MqttEnds, UpPop,
     UpAccept, UpBind, UpUpload, UpEnds, control, counts, queues, DataPushed, DataRefused
<1>3. CASE OtaStep \/ StopStep \/ UNCHANGED lvars
  BY <1>3 DEF OtaStep, StopStep, OtaUnlock, OtaUnmute, OtaLock, StopQueues, StopQueue, StopWaitOta,
     StopJoin, control, counts, queues, lvars
<1> QED
  BY <1>1, <1>2, <1>3 DEF LNext

LEMMA TablesKept == ASSUME Typed, [LNext]_lvars PROVE Tables'
<1> USE DEF Typed, Tables
<1>1. CASE World
  BY <1>1 DEF World, SerialRead, TcpAccept, TcpTimeout, TcpHup, TcpRead, MqttOnline,
     MqttOffline, MqttRead, OtaMute, Stop, table, Bind, Clear, Unbound, Links
<1>2. CASE SerialStep \/ ParserStep \/ TcpStep \/ MqttStep
  BY <1>2 DEF SerialStep, ParserStep, TcpStep, MqttStep, SerialPush, SerialEnds, ParserPop,
     ParserFrame, ParserPush, ParserEnds, TcpPush, TcpClear, TcpEnds, MqttPush, MqttEnds, table, Clear,
     TcpLoopHead
<1>3. CASE UpStep
  BY <1>3 DEF UpStep, UpPop, UpAccept, UpBind, UpUpload, UpEnds, table, Bind, Carried, Frames
<1>4. CASE OtaStep \/ StopStep \/ UNCHANGED lvars
  BY <1>4 DEF OtaStep, StopStep, OtaUnlock, OtaUnmute, OtaLock, StopQueues, StopQueue, StopWaitOta,
     StopJoin, table, lvars
<1> QED
  BY <1>1, <1>2, <1>3, <1>4 DEF LNext

(* What a push does to the data queue. *)
LEMMA PushTyped ==
  ASSUME Queued, NEW x \in Frames, DataPushed(x) \/ DataRefused
  PROVE  Queued'
<1>1. CASE DataPushed(x)
  BY <1>1, Constants, SMT DEF DataPushed, Queued
<1>2. CASE DataRefused
  BY <1>2 DEF DataRefused, queues, Queued
<1> QED
  BY <1>1, <1>2

LEMMA QueuedKept == ASSUME Typed, [LNext]_lvars PROVE Queued'
<1> USE DEF Typed
<1>1. CASE UNCHANGED <<raw, data>>
  BY <1>1 DEF Queued
<1>2. CASE SerialPush
  <2>1. CASE raw' = Append(raw, serial.item) /\ Len(raw) < RawCap /\ data' = data
    <3>1. serial.item \in Seq(Frames) /\ Len(serial.item) \in 1..ChunkMax
      BY <1>2 DEF SerialPush, Carried, Walk
    <3>2. raw' \in Seq(Seq(Frames)) /\ Len(raw') = Len(raw) + 1
      BY <2>1, <3>1 DEF Queued
    <3>3. ASSUME NEW k \in DOMAIN raw' PROVE Len(raw'[k]) \in 1..ChunkMax
      <4>1. raw'[k] = IF k \in DOMAIN raw THEN raw[k] ELSE serial.item
        BY <2>1, <3>1, SMT DEF Queued
      <4> QED
        BY <4>1, <3>1 DEF Queued
    <3> QED
      BY <2>1, <3>2, <3>3, Constants, SMT DEF Queued
  <2> QED
    BY <1>1, <1>2, <2>1 DEF SerialPush
<1>3. CASE ParserPop
  <2>1. raw \in Seq(Seq(Frames)) /\ raw # <<>> /\ raw' = Tail(raw) /\ data' = data
    BY <1>3 DEF ParserPop, Queued
  <2>2. Len(Tail(raw)) = Len(raw) - 1 /\ Tail(raw) \in Seq(Seq(Frames)) /\ Len(raw) \in Nat
    BY <2>1
  <2>3. ASSUME NEW k \in DOMAIN Tail(raw) PROVE Len(Tail(raw)[k]) \in 1..ChunkMax
    <3>1. k + 1 \in DOMAIN raw /\ Tail(raw)[k] = raw[k + 1]
      BY <2>1, SMT
    <3> QED
      BY <3>1 DEF Queued
  <2> QED
    BY <2>1, <2>2, <2>3, Constants, SMT DEF Queued
<1>4. CASE ParserPush
  <2>1. Head(parser.item) \in Frames
    <3>1. parser.item \in Seq(Frames) /\ parser.item # <<>>
      BY <1>4 DEF ParserPush, Carried, Walk
    <3> QED
      BY <3>1
  <2> QED
    BY <1>4, <2>1, PushTyped DEF ParserPush
<1>5. CASE TcpPush \/ MqttPush
  BY <1>5, PushTyped DEF TcpPush, MqttPush, Carried
<1>6. CASE UpPop
  BY <1>6, Constants, SMT DEF UpPop, Queued
<1>7. CASE World
  BY <1>1, <1>7 DEF World, SerialRead, TcpAccept, TcpTimeout, TcpHup, TcpRead, MqttOnline,
     MqttOffline, MqttRead, OtaMute, Stop, queues
<1>8. CASE SerialEnds \/ ParserFrame \/ ParserEnds \/ TcpClear \/ TcpEnds \/ MqttEnds
           \/ UpAccept \/ UpBind \/ UpUpload \/ UpEnds
  BY <1>1, <1>8 DEF SerialEnds, ParserFrame, ParserEnds, TcpClear, TcpEnds, MqttEnds, UpAccept,
     UpBind, UpUpload, UpEnds, queues
<1>9. CASE OtaStep \/ StopStep \/ UNCHANGED lvars
  BY <1>1, <1>9 DEF OtaStep, StopStep, OtaUnlock, OtaUnmute, OtaLock, StopQueues, StopQueue,
     StopWaitOta, StopJoin, queues, lvars
<1> QED
  BY <1>2, <1>3, <1>4, <1>5, <1>6, <1>7, <1>8, <1>9
     DEF LNext, SerialStep, ParserStep, TcpStep, MqttStep, UpStep

LEMMA CountedKept == ASSUME Typed, [LNext]_lvars PROVE Counted'
<1> USE DEF Typed
<1>1. CASE UNCHANGED <<taken, refused, read>>
  BY <1>1 DEF Counted
<1>2. ASSUME NEW k \in Nat, Reads(k), UNCHANGED history PROVE Counted'
  BY <1>2, Constants, SMT DEF Counted, Reads, history
<1>3. CASE World
  <2>1. ASSUME NEW k \in 1..ChunkMax, NEW devs \in [1..k -> Devices], SerialRead(devs) PROVE Counted'
    <3>1. Len(devs) \in Nat
      BY Constants, SMT
    <3> QED
      BY <1>2, <2>1, <3>1 DEF SerialRead
  <2>2. ASSUME NEW f \in Fds, NEW d \in Devices, TcpRead(f, d) \/ MqttRead(d) PROVE Counted'
    BY <1>2, <2>2, SMT DEF TcpRead, MqttRead
  <2>3. ASSUME NEW f \in Fds, TcpAccept(f) \/ TcpTimeout(f) \/ TcpHup(f) PROVE Counted'
    BY <1>1, <2>3 DEF TcpAccept, TcpTimeout, TcpHup, history, counts
  <2>4. ASSUME NEW d \in Devices, MqttOnline(d) \/ MqttOffline(d) \/ OtaMute(d) PROVE Counted'
    BY <1>1, <2>4 DEF MqttOnline, MqttOffline, OtaMute, history, counts
  <2>5. ASSUME NEW d \in Devices, MqttRead(d) PROVE Counted'
    BY <1>2, <2>5, SMT DEF MqttRead
  <2>6. CASE Stop
    BY <1>1, <2>6 DEF Stop, history, counts
  <2> QED
    BY <1>3, <2>1, <2>2, <2>3, <2>4, <2>5, <2>6 DEF World
<1>4. CASE ParserFrame
  <2>1. parser.item \in Seq(Frames) /\ parser.item # <<>>
    BY <1>4 DEF ParserFrame, Carried, Walk
  <2>2. Head(parser.item) \in Frames
    BY <2>1
  <2> QED
    BY <1>4, <2>2 DEF ParserFrame, Counted, counts
<1>5. CASE UpAccept \/ UpUpload
  BY <1>5 DEF UpAccept, UpUpload, Counted, Carried, counts
<1>6. CASE SerialPush \/ SerialEnds \/ ParserPop \/ ParserPush \/ ParserEnds \/ TcpPush \/ TcpClear
           \/ TcpEnds \/ MqttPush \/ MqttEnds \/ UpPop \/ UpBind \/ UpEnds
  BY <1>1, <1>6 DEF SerialPush, SerialEnds, ParserPop, ParserPush, ParserEnds, TcpPush, TcpClear,
     TcpEnds, MqttPush, MqttEnds, UpPop, UpBind, UpEnds, counts, history
<1>7. CASE OtaStep \/ StopStep \/ UNCHANGED lvars
  BY <1>1, <1>7 DEF OtaStep, StopStep, OtaUnlock, OtaUnmute, OtaLock, StopQueues, StopQueue,
     StopWaitOta, StopJoin, counts, history, lvars
<1> QED
  BY <1>3, <1>4, <1>5, <1>6, <1>7 DEF LNext, SerialStep, ParserStep, TcpStep, MqttStep, UpStep

(* What is left of a chunk is handled next, or the loop starts again. *)
LEMMA RestTyped ==
  ASSUME NEW frames \in Seq(Frames)
  PROVE  /\ Rest(frames) \in Walk({"idle", "frame", "push", "ended"})
         /\ Rest(frames).pc \in {"frame", "push"} => Rest(frames).item # <<>>
  BY LoopHeads, LoopPlaces DEF Rest, Walk

LEMMA CarriedKept == ASSUME Typed, [LNext]_lvars PROVE Carried'
<1> USE DEF Typed
<1>1. CASE UNCHANGED threads
  BY <1>1 DEF threads, Carried
<1>2. ASSUME NEW k \in 1..ChunkMax, NEW devs \in [1..k -> Devices], SerialRead(devs) PROVE Carried'
  <2> DEFINE chunk == [j \in DOMAIN devs |-> [n |-> read + j, dev |-> devs[j], link |-> "serial"]]
  <2>1. k \in Nat /\ DOMAIN devs = 1..k /\ Len(devs) = k
    BY Constants, SMT
  <2>2. ASSUME NEW j \in 1..k PROVE [n |-> read + j, dev |-> devs[j], link |-> "serial"] \in Frames
    <3>1. read + j \in 1..MaxFrames
      BY <1>2, <2>1, Constants, SMT DEF SerialRead, Reads, Counted
    <3> QED
      BY <3>1 DEF Frames, Links
  <2>3. chunk \in Seq(Frames) /\ Len(chunk) = k
    BY <2>1, <2>2
  <2>4. serial' = [pc |-> "push", item |-> chunk] /\ UNCHANGED <<parser, tcp, mqtt, up>>
    BY <1>2 DEF SerialRead
  <2> HIDE DEF chunk
  <2> QED
    BY <2>3, <2>4 DEF Carried, Walk
<1>3. CASE SerialPush \/ SerialEnds
  <2>1. serial' \in {Idle, Ended} /\ UNCHANGED <<parser, tcp, mqtt, up>>
    BY <1>3, LoopHeads DEF SerialPush, SerialEnds
  <2> QED
    BY <2>1, LoopHeads, LoopPlaces DEF Carried
<1>4. CASE ParserPop \/ ParserFrame \/ ParserPush \/ ParserEnds
  <2>1. UNCHANGED <<serial, tcp, mqtt, up>>
    BY <1>4 DEF ParserPop, ParserFrame, ParserPush, ParserEnds
  <2>2. CASE ParserPop
    <3>1. Head(raw) \in Seq(Frames)
      BY <2>2 DEF ParserPop, Queued
    <3> QED
      BY <2>1, <2>2, <3>1, RestTyped DEF ParserPop, Carried
  <2>3. CASE ParserFrame \/ ParserPush
    <3>1. parser.item \in Seq(Frames) /\ parser.item # <<>> /\ parser.pc \in {"frame", "push"}
      BY <2>3 DEF ParserFrame, ParserPush, Carried, Walk
    <3>2. Tail(parser.item) \in Seq(Frames)
      BY <3>1
    <3>3. parser' \in {Rest(Tail(parser.item)), [parser EXCEPT !.pc = "push"], Ended}
      BY <2>3 DEF ParserFrame, ParserPush
    <3>4. CASE parser' = [parser EXCEPT !.pc = "push"]
      BY <2>1, <3>1, <3>4 DEF Carried, Walk
    <3> QED
      BY <2>1, <3>2, <3>3, <3>4, RestTyped, LoopHeads, LoopPlaces DEF Carried
  <2>4. CASE ParserEnds
    BY <2>1, <2>4, LoopHeads, LoopPlaces DEF ParserEnds, Carried
  <2> QED
    BY <1>4, <2>2, <2>3, <2>4
<1>5. ASSUME NEW f \in Fds, NEW d \in Devices, TcpRead(f, d) PROVE Carried'
  <2>1. Fresh(d, "tcp_binary") \in Frames
    BY <1>5, FreshFrame DEF TcpRead, Links
  <2> QED
    BY <1>5, <2>1 DEF TcpRead, Carried, Thread
<1>6. ASSUME NEW f \in Fds, TcpTimeout(f) PROVE Carried'
  BY <1>6 DEF TcpTimeout, Carried
<1>7. CASE TcpPush \/ TcpClear \/ TcpEnds
  <2>1. tcp' \in {Idle, Ended} /\ UNCHANGED <<serial, parser, mqtt, up>>
    BY <1>7, LoopHeads DEF TcpPush, TcpClear, TcpEnds, TcpLoopHead
  <2> QED
    BY <2>1, LoopHeads, LoopPlaces DEF Carried
<1>8. ASSUME NEW d \in Devices, MqttRead(d) PROVE Carried'
  <2>1. Fresh(d, "mqtt") \in Frames
    BY <1>8, FreshFrame DEF MqttRead, Links
  <2> QED
    BY <1>8, <2>1 DEF MqttRead, Carried, Thread
<1>9. CASE MqttPush \/ MqttEnds
  <2>1. mqtt' \in {Idle, Ended} /\ UNCHANGED <<serial, parser, tcp, up>>
    BY <1>9, LoopHeads DEF MqttPush, MqttEnds
  <2> QED
    BY <2>1, LoopHeads, LoopPlaces DEF Carried
<1>10. CASE UpStep
  <2>1. UNCHANGED <<serial, parser, tcp, mqtt>>
    BY <1>10 DEF UpStep, UpPop, UpAccept, UpBind, UpUpload, UpEnds
  <2>2. CASE UpPop
    <3>1. Head(data) \in Frames
      BY <2>2 DEF UpPop, Queued
    <3> QED
      BY <2>1, <2>2, <3>1 DEF UpPop, Carried, Thread
  <2>3. CASE up' \in {Idle, Ended}
    BY <2>1, <2>3, LoopHeads, LoopPlaces DEF Carried
  <2>4. CASE up.pc \in {"accept", "bind"} /\ \E pc \in {"bind", "upload"} : up' = [up EXCEPT !.pc = pc]
    BY <2>1, <2>4 DEF Carried, Thread
  <2> QED
    BY <1>10, <2>2, <2>3, <2>4, LoopHeads DEF UpStep, UpAccept, UpBind, UpUpload, UpEnds
<1>11. ASSUME NEW f \in Fds, TcpAccept(f) \/ TcpHup(f) PROVE Carried'
  BY <1>1, <1>11 DEF TcpAccept, TcpHup
<1>12. ASSUME NEW d \in Devices, MqttOnline(d) \/ MqttOffline(d) \/ OtaMute(d) PROVE Carried'
  BY <1>1, <1>12 DEF MqttOnline, MqttOffline, OtaMute
<1>13. CASE OtaStep \/ StopStep \/ Stop \/ UNCHANGED lvars
  BY <1>1, <1>13 DEF OtaStep, StopStep, Stop, OtaUnlock, OtaUnmute, OtaLock, StopQueues, StopQueue,
     StopWaitOta, StopJoin, lvars
<1> QED
  BY <1>2, <1>3, <1>4, <1>5, <1>6, <1>7, <1>8, <1>9, <1>10, <1>11, <1>12, <1>13
     DEF LNext, World, SerialStep, ParserStep, TcpStep, MqttStep

LEMMA TypedKept == ASSUME Typed, [LNext]_lvars PROVE Typed'
  BY ControlKept, TablesKept, QueuedKept, CarriedKept, CountedKept DEF Typed

LEMMA TypedEnough == Typed => LTypeOK
<1> SUFFICES ASSUME Typed PROVE LTypeOK
  OBVIOUS
<1>1. Range(data) \subseteq Frames /\ Range(taken) \subseteq Frames
  BY DEF Typed, Queued, Counted, Range
<1>2. read <= MaxFrames
  BY Constants, SMT DEF Typed, Counted
<1> QED
  BY <1>1, <1>2 DEF Typed, Control, Tables, Queued, Carried, Counted, LTypeOK, Walk

(***************************************************************************)
(* The table and the sessions                                              *)
(***************************************************************************)

(* What binds, and what drops, a transport of a device. *)
LEMMA BindKeeps ==
  ASSUME Tables, TableSafe, NEW d \in Devices, NEW l \in Links, Bind(d, l),
         UNCHANGED <<tcp, sess, bound>>
  PROVE  TableSafe'
<1>1. Parted' /\ BoundIsOpen'
  BY DEF TableSafe, Parted, BoundIsOpen
<1>2. ActiveExplained'
  BY DEF TableSafe, Tables, ActiveExplained, Bind, Alive
<1> QED
  BY <1>1, <1>2 DEF TableSafe

LEMMA ClearKeeps ==
  ASSUME Tables, TableSafe, NEW d \in Devices, Clear(d), UNCHANGED <<tcp, sess, bound>>
  PROVE  TableSafe'
<1>1. Parted' /\ BoundIsOpen'
  BY DEF TableSafe, Parted, BoundIsOpen
<1>2. ActiveExplained'
  BY DEF TableSafe, Tables, ActiveExplained, Clear, Alive, None
<1> QED
  BY <1>1, <1>2 DEF TableSafe

LEMMA OthersKeep == ASSUME TableSafe, UNCHANGED <<tcp, table>> PROVE TableSafe'
  BY DEF TableSafe, Parted, BoundIsOpen, ActiveExplained, Alive, table

(* A session that ends takes its bindings and its transport along. *)
LEMMA CloseKeeps ==
  ASSUME Tables, NEW f \in Fds, tcp.pc # "ended", BoundIsOpen, ActiveExplained,
         tcp'.pc = "idle", sess' = [sess EXCEPT ![f] = Closed],
         \A d \in Devices : bound'[d] # f /\ bound'[d] \in {bound[d], NoFd},
         IF sess[f] \in Devices THEN Clear(sess[f]) ELSE UNCHANGED <<active, leftover>>
  PROVE  TableSafe'
<1>1. BoundIsOpen'
  BY DEF BoundIsOpen, Tables
<1>2. ASSUME NEW d \in Devices, active'[d] = "tcp_binary"
      PROVE  Alive(d, "tcp_binary")' \/ d \in leftover'
  <2>1. CASE sess[f] = d
    BY <1>2, <2>1 DEF Clear, Tables, None
  <2>2. CASE sess[f] # d
    <3>1. active[d] = "tcp_binary" /\ (d \in leftover => d \in leftover')
      BY <1>2, <2>2 DEF Clear, Tables, None
    <3>2. Alive(d, "tcp_binary") \/ d \in leftover
      BY <3>1 DEF ActiveExplained
    <3>3. Alive(d, "tcp_binary") => Alive(d, "tcp_binary")'
      BY <2>2 DEF Alive, Tables
    <3> QED
      BY <3>1, <3>2, <3>3
  <2> QED
    BY <2>1, <2>2
<1> QED
  BY <1>1, <1>2 DEF TableSafe, Parted, ActiveExplained

(* Unbound releases the descriptor, wherever it was bound. *)
LEMMA UnboundFree ==
  ASSUME Tables, BoundIsOpen, tcp.pc # "ended", NEW f \in Fds
  PROVE  \A d \in Devices : Unbound(f)[d] # f /\ Unbound(f)[d] \in {bound[d], NoFd}
<1> SUFFICES ASSUME NEW d \in Devices
             PROVE  Unbound(f)[d] # f /\ Unbound(f)[d] \in {bound[d], NoFd}
  OBVIOUS
<1>1. f # NoFd
  BY Constants
<1>2. bound[d] = f => sess[f] = d
  BY <1>1 DEF BoundIsOpen
<1> QED
  BY <1>1, <1>2 DEF Unbound, Tables

LEMMA TcpKeeps ==
  ASSUME Typed, TableSafe,
         TcpStep \/ \E f \in Fds : TcpAccept(f) \/ TcpTimeout(f) \/ TcpHup(f)
                                   \/ \E d \in Devices : TcpRead(f, d)
  PROVE  TableSafe'
<1> USE DEF Typed
<1>1. ASSUME NEW f \in Fds, TcpAccept(f) PROVE TableSafe'
  <2>1. tcp.pc = "idle" /\ sess[f] = Closed /\ sess' = [sess EXCEPT ![f] = NoDevice]
        /\ UNCHANGED <<tcp, bound, active, leftover>>
    BY <1>1 DEF TcpAccept, threads
  <2>2. BoundIsOpen'
    BY <2>1, Constants DEF TableSafe, BoundIsOpen, Tables
  <2>3. ActiveExplained'
    BY <2>1, Constants DEF TableSafe, ActiveExplained, Alive, Tables
  <2> QED
    BY <2>1, <2>2, <2>3 DEF TableSafe, Parted
<1>2. ASSUME NEW f \in Fds, NEW d \in Devices, TcpRead(f, d) PROVE TableSafe'
  <2>1. tcp.pc = "idle" /\ sess[f] \in {NoDevice, d} /\ sess' = [sess EXCEPT ![f] = d]
        /\ bound' = [bound EXCEPT ![d] = f] /\ tcp'.pc = "push" /\ UNCHANGED <<active, leftover>>
    BY <1>2 DEF TcpRead
  <2>2. BoundIsOpen'
    BY <2>1, Constants DEF TableSafe, BoundIsOpen, Tables
  <2>3. ActiveExplained'
    BY <2>1, Constants DEF TableSafe, ActiveExplained, Alive, Tables
  <2> QED
    BY <2>1, <2>2, <2>3 DEF TableSafe, Parted
<1>3. ASSUME NEW f \in Fds, TcpTimeout(f) PROVE TableSafe'
  <2>1. tcp.pc = "idle" /\ bound' = Unbound(f) /\ tcp' = [pc |-> "clear", item |-> f]
        /\ UNCHANGED <<sess, active, leftover>>
    BY <1>3 DEF TcpTimeout
  <2>2. \A d \in Devices : bound'[d] # f /\ bound'[d] \in {bound[d], NoFd}
    BY <2>1, UnboundFree DEF TableSafe
  <2> QED
    BY <2>1, <2>2 DEF TableSafe, Parted, BoundIsOpen, ActiveExplained, Alive
<1>4. ASSUME NEW f \in Fds, TcpHup(f) PROVE TableSafe'
  <2>1. tcp.pc = "idle" /\ UNCHANGED tcp /\ bound' = Unbound(f)
    BY <1>4 DEF TcpHup, threads
  <2>2. \A d \in Devices : bound'[d] # f /\ bound'[d] \in {bound[d], NoFd}
    BY <2>1, UnboundFree DEF TableSafe
  <2> QED
    BY <1>4, <2>1, <2>2, CloseKeeps DEF TcpHup, TableSafe
<1>5. CASE TcpClear
  <2>1. tcp.pc = "clear" /\ tcp.item \in Fds
    BY <1>5 DEF TcpClear, Carried, Thread
  <2>2. \A d \in Devices : bound'[d] # tcp.item /\ bound'[d] \in {bound[d], NoFd}
    BY <1>5, <2>1 DEF TcpClear, TableSafe, Parted
  <2> QED
    BY <1>5, <2>1, <2>2, LoopHeads, CloseKeeps DEF TcpClear, TableSafe
<1>6. CASE TcpPush \/ TcpEnds
  <2>1. TcpLoopHead /\ tcp.pc \in {"push", "idle"} /\ UNCHANGED <<bound, active, leftover>>
    BY <1>6 DEF TcpPush, TcpEnds
  <2>2. CASE running
    BY <2>1, <2>2 DEF TcpLoopHead, LoopHead, Idle, TableSafe, Parted, BoundIsOpen, ActiveExplained, Alive
  <2>3. CASE ~running
    BY <2>1, <2>3 DEF TcpLoopHead, LoopHead, Ended, TableSafe, Parted, BoundIsOpen, ActiveExplained
  <2> QED
    BY <2>2, <2>3
<1> QED
  BY <1>1, <1>2, <1>3, <1>4, <1>5, <1>6 DEF TcpStep

LEMMA SafeKept == ASSUME Typed, TableSafe, [LNext]_lvars PROVE TableSafe'
<1> USE DEF Typed
<1>1. ASSUME NEW d \in Devices, MqttOnline(d) \/ MqttRead(d) PROVE TableSafe'
  BY <1>1, BindKeeps DEF MqttOnline, MqttRead, threads, Links
<1>2. ASSUME NEW d \in Devices, MqttOffline(d) PROVE TableSafe'
  BY <1>2, ClearKeeps DEF MqttOffline, threads
<1>3. CASE UpBind
  <2>1. up.item.dev \in Devices /\ up.item.link \in Links
    BY <1>3 DEF UpBind, Carried, Frames
  <2> QED
    BY <1>3, <2>1, BindKeeps DEF UpBind
<1>4. CASE TcpStep \/ \E f \in Fds : TcpAccept(f) \/ TcpTimeout(f) \/ TcpHup(f)
                                      \/ \E d \in Devices : TcpRead(f, d)
  BY <1>4, TcpKeeps
<1>5. ASSUME NEW k \in 1..ChunkMax, NEW devs \in [1..k -> Devices], SerialRead(devs) PROVE TableSafe'
  BY <1>5, OthersKeep DEF SerialRead
<1>6. ASSUME NEW d \in Devices, OtaMute(d) PROVE TableSafe'
  BY <1>6, OthersKeep DEF OtaMute, threads
<1>7. CASE SerialStep \/ ParserStep \/ MqttStep \/ UpPop \/ UpAccept \/ UpUpload \/ UpEnds
  BY <1>7, OthersKeep DEF SerialStep, ParserStep, MqttStep, SerialPush, SerialEnds, ParserPop,
     ParserFrame, ParserPush, ParserEnds, MqttPush, MqttEnds, UpPop, UpAccept, UpUpload, UpEnds
<1>8. CASE OtaStep \/ StopStep \/ Stop \/ UNCHANGED lvars
  BY <1>8, OthersKeep DEF OtaStep, StopStep, Stop, OtaUnlock, OtaUnmute, OtaLock, StopQueues,
     StopQueue, StopWaitOta, StopJoin, threads, lvars
<1> QED
  BY <1>1, <1>2, <1>3, <1>4, <1>5, <1>6, <1>7, <1>8 DEF LNext, World, UpStep

(***************************************************************************)
(* Results                                                                 *)
(***************************************************************************)

(* Types and the relation of table and sessions together. *)
THEOREM LAlways == LSpec => []LInv
<1>1. LInit => LInv
  BY InitTyped, InitSafe DEF LInv
<1>2. LInv /\ [LNext]_lvars => LInv'
  BY TypedKept, SafeKept DEF LInv
<1> QED
  BY <1>1, <1>2, PTL DEF LSpec

(* The queues never exceed their capacity and only frames that were read   *)
(* move through them.                                                      *)
THEOREM LTypes == LSpec => []LTypeOK
<1>1. LInv => LTypeOK
  BY TypedEnough DEF LInv
<1> QED
  BY <1>1, LAlways, PTL

(* A command for a device is written to an open session of that device,    *)
(* for any number of sessions that come, go and share descriptors.         *)
THEOREM BoundToOpen == LSpec => []BoundIsOpen
<1>1. LInv => BoundIsOpen
  BY DEF LInv, TableSafe
<1> QED
  BY <1>1, LAlways, PTL

(* tcp_binary is active without a session in the two explained cases only. *)
THEOREM ActiveIsExplained == LSpec => []ActiveExplained
<1>1. LInv => ActiveExplained
  BY DEF LInv, TableSafe
<1> QED
  BY <1>1, LAlways, PTL

LEMMA BindSteps ==
  ASSUME Tables, NEW e \in Devices, NEW l \in Links, Bind(e, l), NEW d \in Devices,
         active[d] # None, active'[d] # None
  PROVE  transportPriority[active'[d]] >= transportPriority[active[d]]
<1>1. active[d] \in Links /\ transportPriority[active[d]] \in Nat /\ transportPriority[l] \in Nat
  BY Priorities DEF Tables
<1>2. CASE active'[d] = active[d]
  BY <1>1, <1>2, SMT
<1>3. CASE active'[d] # active[d]
  BY <1>1, <1>3 DEF Bind, Accepts, Tables
<1> QED
  BY <1>2, <1>3

LEMMA ClearSteps ==
  ASSUME Tables, NEW e, Clear(e) \/ UNCHANGED active, NEW d \in Devices,
         active[d] # None, active'[d] # None
  PROVE  transportPriority[active'[d]] >= transportPriority[active[d]]
<1>1. active[d] \in Links /\ transportPriority[active[d]] \in Nat
  BY Priorities DEF Tables
<1>2. active'[d] = active[d]
  BY DEF Clear, Tables
<1> QED
  BY <1>1, <1>2, SMT

(* Two threads and the callback decide on the active transport of a        *)
(* device; in any order of theirs it only steps up, or ends.               *)
THEOREM StepsUp == LSpec => NoStepDown
<1>1. ASSUME LInv, [LNext]_lvars, NEW d \in Devices, active[d] # None, active'[d] # None
      PROVE  transportPriority[active'[d]] >= transportPriority[active[d]]
  <2> USE <1>1 DEF LInv, Typed
  <2>1. CASE \E e \in Devices, l \in Links : Bind(e, l)
    BY <2>1, BindSteps
  <2>2. CASE (\E e : Clear(e)) \/ UNCHANGED active
    BY <2>2, ClearSteps
  <2>3. CASE World
    BY <2>1, <2>2, <2>3 DEF World, SerialRead, TcpAccept, TcpTimeout, TcpHup, TcpRead, MqttOnline,
       MqttOffline, MqttRead, OtaMute, Stop, table, Links
  <2>4. CASE UpBind
    <3>1. up.item.dev \in Devices /\ up.item.link \in Links
      BY <2>4 DEF UpBind, Carried, Frames
    <3> QED
      BY <2>1, <2>4, <3>1 DEF UpBind
  <2>5. CASE SerialStep \/ ParserStep \/ TcpStep \/ MqttStep \/ UpPop \/ UpAccept \/ UpUpload \/ UpEnds
    BY <2>2, <2>5 DEF SerialStep, ParserStep, TcpStep, MqttStep, SerialPush, SerialEnds, ParserPop,
       ParserFrame, ParserPush, ParserEnds, TcpPush, TcpClear, TcpEnds, MqttPush, MqttEnds, UpPop,
       UpAccept, UpUpload, UpEnds, table
  <2>6. CASE OtaStep \/ StopStep \/ UNCHANGED lvars
    BY <2>2, <2>6 DEF OtaStep, StopStep, OtaUnlock, OtaUnmute, OtaLock, StopQueues, StopQueue,
       StopWaitOta, StopJoin, table, lvars
  <2> QED
    BY <2>3, <2>4, <2>5, <2>6 DEF LNext, UpStep
<1>2. LInv /\ [LNext]_lvars
      => [\A d \in Devices : active[d] # None /\ active'[d] # None
            => transportPriority[active'[d]] >= transportPriority[active[d]]]_lvars
  BY <1>1
<1> QED
  BY <1>2, LAlways, PTL DEF LSpec, NoStepDown
==============================================================================
