---------------------------- MODULE GatewayLinks -----------------------------
(***************************************************************************)
(* The Linux gateway's runtime (serial-gateway/src/app/app_controller.cpp  *)
(* and include/runtime/thread_safe_queue.hpp): the way of a report from    *)
(* the serial line, a TCP session or MQTT through two bounded queues to    *)
(* the uploader, the table of active transports that decides which link of *)
(* a device counts, the lock an OTA task puts on it, and the shutdown.     *)
(*                                                                         *)
(* A step is a critical section, or a function of the transport table; in  *)
(* those the look at the OTA lock and the access to the table are one      *)
(* step.  "idle" of a thread is the head of its loop, with running_ read   *)
(* or not, up to the call it waits in.  Waiting in a queue with a time-out *)
(* and looking at running_ again is stuttering.                            *)
(***************************************************************************)
EXTENDS Naturals, Sequences, FiniteSets, SequencesExt

CONSTANTS
  Devices,
  Fds,         \* descriptors of TCP sessions
  NoFd,        \* not a descriptor
  NoDevice,
  RawCap,      \* capacity of raw_queue_
  TcpPriority, \* config_.tcp_binary.priority
  DataCap,     \* capacity of data_queue_
  ChunkMax,    \* bound: frames in a chunk read from the serial line
  MaxFrames,   \* bound: frames the gateway reads
  MaxTurns     \* bound: sessions accepted, OTA tasks and MQTT presence messages

Closed == "closed"

ASSUME LinksAssumption ==
  /\ Fds \subseteq Nat \ {NoFd}
  /\ NoDevice \notin Devices /\ Closed \notin Devices \cup {NoDevice}
  /\ TcpPriority \in Nat /\ RawCap \in Nat \ {0} /\ DataCap \in Nat \ {0}
  /\ ChunkMax \in Nat \ {0} /\ MaxFrames \in Nat /\ MaxTurns \in Nat

VARIABLES
  running,   \* running_
  stopping,  \* place in stop()
  raw,       \* raw_queue_: a sequence of chunks
  data,      \* data_queue_: a sequence of frames
  shut,      \* queues that were stopped
  serial,    \* serial thread: place and the chunk it pushes
  parser,    \* parser thread: place and the frames it still has to handle
  tcp,       \* TCP thread: place, and the frame it pushes or the session it closes
  mqtt,      \* MQTT callback: place and the frame it pushes
  up,        \* uploader thread: place and the frame it handles
  sess,      \* open TCP sessions and the device last heard on each
  bound,     \* tcp_binary_device_fds_
  active,    \* active_transport_
  task,      \* OTA task of each device: the link it locks, or its place before and after
  read,      \* bound and history: how many frames were read
  turns,     \* bound: see MaxTurns
  taken,     \* history: frames uploaded, in order
  refused,   \* history: frames the transport table refused or the mute dropped
  leftover   \* history: devices whose active transport outlived its link

queues == <<raw, data, shut>>
threads == <<serial, parser, tcp, mqtt, up>>
table == <<sess, bound, active, leftover>>
control == <<running, stopping>>
counts == <<read, turns>>
history == <<taken, refused>>
lvars == <<queues, threads, table, task, control, counts, history>>

Links == {"serial", "mqtt", "tcp_binary"}
OtaLinks == {"serial", "tcp_binary"}
None == "none"
transportPriority ==
  [l \in Links |-> CASE l = "serial" -> 50 [] l = "mqtt" -> 90 [] l = "tcp_binary" -> TcpPriority]
(* A frame is known by its number, in the order of reading. *)
Frames == [n : 1..MaxFrames, dev : Devices, link : Links]

Idle == [pc |-> "idle", item |-> <<>>]
Ended == [pc |-> "ended", item |-> <<>>]
LoopHead == IF running THEN Idle ELSE Ended

LInit ==
  /\ running = TRUE /\ stopping = "no"
  /\ raw = <<>> /\ data = <<>> /\ shut = {}
  /\ serial = Idle /\ parser = Idle /\ tcp = Idle /\ mqtt = Idle /\ up = Idle
  /\ sess = [f \in Fds |-> Closed]
  /\ bound = [d \in Devices |-> NoFd]
  /\ active = [d \in Devices |-> None]
  /\ task = [d \in Devices |-> None]
  /\ read = 0 /\ turns = 0
  /\ taken = <<>> /\ refused = {} /\ leftover = {}

(* The next frame from device d over link l. *)
Fresh(d, l) == [n |-> read + 1, dev |-> d, link |-> l]
Reads(k) == read + k <= MaxFrames /\ read' = read + k
Turn == turns < MaxTurns /\ turns' = turns + 1

(* Mutant: the capacity is not looked at. *)
DataPushedAnyway(x) ==
  /\ "data" \notin shut
  /\ data' = Append(data, x)
  /\ UNCHANGED <<raw, shut>>

(***************************************************************************)
(* ThreadSafeQueue<SensorData>::push: waits while the queue is full and    *)
(* not stopped.  Pushed: the frame is in; Refused: the queue is stopped.   *)
(***************************************************************************)
DataPushed(x) ==
  /\ "data" \notin shut /\ Len(data) < DataCap
  /\ data' = Append(data, x)
  /\ UNCHANGED <<raw, shut>>

DataRefused == "data" \in shut /\ UNCHANGED queues

(***************************************************************************)
(* The transport table                                                     *)
(***************************************************************************)
Alive(d, l) ==
  CASE l = "tcp_binary" -> \E f \in Fds : sess[f] = d
    [] OTHER -> TRUE

(* g_ota_business_muted_devices and g_ota_transport_locked_devices *)
Muted(d) == task[d] # None
Locked(d) == task[d] \in OtaLinks
LockedAway(d, l) == Locked(d) /\ task[d] # l

(* shouldAcceptTransportData *)
Accepts(d, l) ==
  /\ ~LockedAway(d, l)
  /\ active[d] # None => transportPriority[l] >= transportPriority[active[d]]

(* Mutant: bind does not compare the priorities again. *)
BindBlindly(d, l) ==
  /\ active' = IF LockedAway(d, l) THEN active ELSE [active EXCEPT ![d] = l]
  /\ leftover' = IF Alive(d, l) THEN leftover \ {d} ELSE leftover \cup {d}

(* bindActiveTransport *)
Bind(d, l) ==
  IF Accepts(d, l)
  THEN /\ active' = [active EXCEPT ![d] = l]
       /\ leftover' = IF Alive(d, l) THEN leftover \ {d} ELSE leftover \cup {d}
  ELSE UNCHANGED <<active, leftover>>

(* clearActiveTransport *)
Clear(d) ==
  IF Locked(d)
  THEN leftover' = leftover \cup {d} /\ UNCHANGED active
  ELSE active' = [active EXCEPT ![d] = None] /\ leftover' = leftover \ {d}

(***************************************************************************)
(* serialLoop and parserLoop                                               *)
(***************************************************************************)
SerialRead(devs) ==
  LET chunk == [k \in DOMAIN devs |-> [n |-> read + k, dev |-> devs[k], link |-> "serial"]]
  IN /\ serial.pc = "idle"
     /\ Reads(Len(devs))
     /\ serial' = [pc |-> "push", item |-> chunk]
     /\ UNCHANGED <<queues, parser, tcp, mqtt, up, table, task, control, turns, history>>

SerialPush ==
  /\ serial.pc = "push"
  /\ \/ /\ "raw" \notin shut /\ Len(raw) < RawCap
        /\ raw' = Append(raw, serial.item)
        /\ serial' = LoopHead
     \/ /\ "raw" \in shut
        /\ serial' = Ended
        /\ UNCHANGED raw
  /\ UNCHANGED <<data, shut, parser, tcp, mqtt, up, table, task, control, counts, history>>

SerialEnds ==
  /\ serial.pc = "idle" /\ ~running
  /\ serial' = Ended
  /\ UNCHANGED <<queues, parser, tcp, mqtt, up, table, task, control, counts, history>>

(* What is left of the chunk; behind it the loop starts again. *)
Rest(frames) == IF frames = <<>> THEN LoopHead ELSE [pc |-> "frame", item |-> frames]

ParserPop ==
  /\ parser.pc = "idle" /\ raw # <<>>
  /\ parser' = Rest(Head(raw))
  /\ raw' = Tail(raw)
  /\ UNCHANGED <<data, shut, serial, tcp, mqtt, up, table, task, control, counts, history>>

(* A muted device's frame is dropped, any other acknowledged. *)
ParserFrame ==
  LET x == Head(parser.item) IN
  /\ parser.pc = "frame"
  /\ \/ /\ Muted(x.dev)
        /\ parser' = Rest(Tail(parser.item))
        /\ refused' = refused \cup {x}
     \/ /\ ~Muted(x.dev)
        /\ parser' = [parser EXCEPT !.pc = "push"]
        /\ UNCHANGED refused
  /\ UNCHANGED <<queues, serial, tcp, mqtt, up, table, task, control, counts, taken>>

(* Mutant: the frame is given up when the queue is full. *)
ParserPushOrDrop ==
  /\ parser.pc = "push"
  /\ \/ DataPushed(Head(parser.item)) /\ parser' = Rest(Tail(parser.item))
     \/ DataRefused /\ parser' = Ended
     \/ Len(data) = DataCap /\ parser' = Rest(Tail(parser.item)) /\ UNCHANGED queues
  /\ UNCHANGED <<serial, tcp, mqtt, up, table, task, control, counts, history>>

ParserPush ==
  /\ parser.pc = "push"
  /\ \/ DataPushed(Head(parser.item)) /\ parser' = Rest(Tail(parser.item))
     \/ DataRefused /\ parser' = Ended
  /\ UNCHANGED <<serial, tcp, mqtt, up, table, task, control, counts, history>>

ParserEnds ==
  /\ parser.pc = "idle" /\ ~running
  /\ parser' = Ended
  /\ UNCHANGED <<queues, serial, tcp, mqtt, up, table, task, control, counts, history>>

(***************************************************************************)
(* tcpBinaryLoop                                                           *)
(***************************************************************************)
(* The system gives out the lowest free descriptor. *)
TcpAccept(f) ==
  /\ tcp.pc = "idle" /\ sess[f] = Closed
  /\ \A g \in Fds : sess[g] = Closed => f <= g
  /\ Turn
  /\ sess' = [sess EXCEPT ![f] = NoDevice]
  /\ UNCHANGED <<queues, threads, bound, active, leftover, task, control, read, history>>

(* A frame of device d: acknowledged, the descriptor bound, then pushed.   *)
(* A session carries one device, that behind its ESP32 adapter.            *)
TcpRead(f, d) ==
  /\ tcp.pc = "idle" /\ sess[f] \in {NoDevice, d}
  /\ ~Muted(d)
  /\ Reads(1)
  /\ sess' = [sess EXCEPT ![f] = d]
  /\ bound' = [bound EXCEPT ![d] = f]
  /\ tcp' = [pc |-> "push", item |-> Fresh(d, "tcp_binary")]
  /\ UNCHANGED <<queues, serial, parser, mqtt, up, active, leftover, task, control, turns,
                 history>>

(* Leaving the loop closes the sessions. *)
TcpLoopHead ==
  /\ tcp' = LoopHead
  /\ sess' = IF running THEN sess ELSE [f \in Fds |-> Closed]

TcpPush ==
  /\ tcp.pc = "push"
  /\ DataPushed(tcp.item) \/ DataRefused
  /\ TcpLoopHead
  /\ UNCHANGED <<serial, parser, mqtt, up, bound, active, leftover, task, control, counts, history>>

TcpEnds ==
  /\ tcp.pc = "idle" /\ ~running
  /\ TcpLoopHead
  /\ UNCHANGED <<queues, serial, parser, mqtt, up, bound, active, leftover, task, control, counts,
                 history>>

Unbound(f) == IF sess[f] \in Devices THEN [bound EXCEPT ![sess[f]] = NoFd] ELSE bound

(* No heartbeat for too long: the binding goes first, then the transport,  *)
(* then the session.  Not while an OTA task locks the device to TCP.       *)
TcpTimeout(f) ==
  /\ tcp.pc = "idle" /\ sess[f] # Closed
  /\ sess[f] \in Devices => task[sess[f]] # "tcp_binary"
  /\ bound' = Unbound(f)
  /\ tcp' = [pc |-> "clear", item |-> f]
  /\ UNCHANGED <<queues, serial, parser, mqtt, up, sess, active, leftover, task, control, counts,
                 history>>

(* Mutant: the session is closed, the transport stays. *)
TcpClearNot ==
  /\ tcp.pc = "clear"
  /\ sess' = [sess EXCEPT ![tcp.item] = Closed]
  /\ tcp' = LoopHead
  /\ UNCHANGED <<queues, serial, parser, mqtt, up, bound, active, leftover, task, control, counts,
                 history>>

TcpClear ==
  /\ tcp.pc = "clear"
  /\ IF sess[tcp.item] \in Devices THEN Clear(sess[tcp.item]) ELSE UNCHANGED <<active, leftover>>
  /\ sess' = [sess EXCEPT ![tcp.item] = Closed]
  /\ tcp' = Idle
  /\ UNCHANGED <<queues, serial, parser, mqtt, up, bound, task, control, counts, history>>

(* Mutant: the descriptor stays bound. *)
TcpHupKeepsFd(f) ==
  /\ tcp.pc = "idle" /\ sess[f] # Closed
  /\ IF sess[f] \in Devices THEN Clear(sess[f]) ELSE UNCHANGED <<active, leftover>>
  /\ sess' = [sess EXCEPT ![f] = Closed]
  /\ UNCHANGED <<queues, threads, bound, task, control, counts, history>>

(* The peer hung up. *)
TcpHup(f) ==
  /\ tcp.pc = "idle" /\ sess[f] # Closed
  /\ bound' = Unbound(f)
  /\ IF sess[f] \in Devices THEN Clear(sess[f]) ELSE UNCHANGED <<active, leftover>>
  /\ sess' = [sess EXCEPT ![f] = Closed]
  /\ UNCHANGED <<queues, threads, task, control, counts, history>>

(***************************************************************************)
(* The MQTT client's thread: handleMqttIngressMessage                      *)
(***************************************************************************)
MqttOnline(d) ==
  /\ mqtt.pc = "idle" /\ Turn
  /\ Bind(d, "mqtt")
  /\ UNCHANGED <<queues, threads, sess, bound, task, control, read, history>>

MqttOffline(d) ==
  /\ mqtt.pc = "idle" /\ Turn
  /\ Clear(d)
  /\ UNCHANGED <<queues, threads, sess, bound, task, control, read, history>>

(* Telemetry: bound before it is pushed. *)
MqttRead(d) ==
  /\ mqtt.pc = "idle"
  /\ Reads(1)
  /\ Bind(d, "mqtt")
  /\ mqtt' = [pc |-> "push", item |-> Fresh(d, "mqtt")]
  /\ UNCHANGED <<queues, serial, parser, tcp, up, sess, bound, task, control, turns, history>>

MqttPush ==
  /\ mqtt.pc = "push"
  /\ DataPushed(mqtt.item) \/ DataRefused
  /\ mqtt' = LoopHead
  /\ UNCHANGED <<serial, parser, tcp, up, table, task, control, counts, history>>

MqttEnds ==
  /\ mqtt.pc = "idle" /\ ~running
  /\ mqtt' = Ended
  /\ UNCHANGED <<queues, serial, parser, tcp, up, table, task, control, counts, history>>

(***************************************************************************)
(* uploaderLoop                                                            *)
(***************************************************************************)

UpPop ==
  /\ up.pc = "idle" /\ data # <<>>
  /\ up' = [pc |-> "accept", item |-> Head(data)]
  /\ data' = Tail(data)
  /\ UNCHANGED <<raw, shut, serial, parser, tcp, mqtt, table, task, control, counts, history>>

UpAccept ==
  /\ up.pc = "accept"
  /\ IF Accepts(up.item.dev, up.item.link)
     THEN up' = [up EXCEPT !.pc = "bind"] /\ UNCHANGED refused
     ELSE up' = LoopHead /\ refused' = refused \cup {up.item}
  /\ UNCHANGED <<queues, serial, parser, tcp, mqtt, table, task, control, counts, taken>>

(* Whether the table takes the link or not, the frame goes on. *)
UpBind ==
  /\ up.pc = "bind"
  /\ Bind(up.item.dev, up.item.link)
  /\ up' = [up EXCEPT !.pc = "upload"]
  /\ UNCHANGED <<queues, serial, parser, tcp, mqtt, sess, bound, task, control, counts, history>>

UpUpload ==
  /\ up.pc = "upload"
  /\ taken' = Append(taken, up.item)
  /\ up' = LoopHead
  /\ UNCHANGED <<queues, serial, parser, tcp, mqtt, table, task, control, counts, refused>>

UpEnds ==
  /\ up.pc = "idle" /\ ~running
  /\ up' = Ended
  /\ UNCHANGED <<queues, serial, parser, tcp, mqtt, table, task, control, counts, history>>

(***************************************************************************)
(* An OTA task's guards (executeOtaTask): mute, lock, unlock, unmute       *)
(***************************************************************************)
OtaMute(d) ==
  /\ running /\ task[d] = None
  /\ Turn
  /\ task' = [task EXCEPT ![d] = "muted"]
  /\ UNCHANGED <<queues, threads, table, control, read, history>>

OtaLock(d, l) ==
  /\ task[d] = "muted"
  /\ task' = [task EXCEPT ![d] = l]
  /\ UNCHANGED <<queues, threads, table, control, counts, history>>

OtaUnlock(d) ==
  /\ Locked(d)
  /\ task' = [task EXCEPT ![d] = "unlocked"]
  /\ UNCHANGED <<queues, threads, table, control, counts, history>>

OtaUnmute(d) ==
  /\ task[d] = "unlocked"
  /\ task' = [task EXCEPT ![d] = None]
  /\ UNCHANGED <<queues, threads, table, control, counts, history>>

(***************************************************************************)
(* stop()                                                                  *)
(***************************************************************************)
Stop ==
  /\ stopping = "no"
  /\ running' = FALSE /\ stopping' = "raw"
  /\ UNCHANGED <<queues, threads, table, task, counts, history>>

StopQueue(q, next) ==
  /\ stopping = q
  /\ shut' = shut \cup {q}
  /\ stopping' = next
  /\ UNCHANGED <<raw, data, threads, table, task, running, counts, history>>

(* Mutant: the data queue is not stopped. *)
StopRawOnly == StopQueue("raw", "ota")

StopQueues == StopQueue("raw", "data") \/ StopQueue("data", "ota")

(* The OTA tasks are waited for first, then the threads are joined. *)
StopWaitOta ==
  /\ stopping = "ota" /\ \A d \in Devices : task[d] = None
  /\ stopping' = "join"
  /\ UNCHANGED <<queues, threads, table, task, running, counts, history>>

StopJoin ==
  /\ stopping = "join"
  /\ {serial.pc, parser.pc, tcp.pc, mqtt.pc, up.pc} = {"ended"}
  /\ stopping' = "done"
  /\ UNCHANGED <<queues, threads, table, task, running, counts, history>>

SerialStep == SerialPush \/ SerialEnds
ParserStep == ParserPop \/ ParserFrame \/ ParserPush \/ ParserEnds
TcpStep == TcpPush \/ TcpClear \/ TcpEnds
MqttStep == MqttPush \/ MqttEnds
UpStep == UpPop \/ UpAccept \/ UpBind \/ UpUpload \/ UpEnds
OtaStep == \E d \in Devices : OtaUnlock(d) \/ OtaUnmute(d) \/ \E l \in OtaLinks : OtaLock(d, l)
StopStep == StopQueues \/ StopWaitOta \/ StopJoin

(* What devices, peers and operators do. *)
World ==
  \/ \E k \in 1..ChunkMax : \E devs \in [1..k -> Devices] : SerialRead(devs)
  \/ \E f \in Fds : TcpAccept(f) \/ TcpTimeout(f) \/ TcpHup(f) \/ \E d \in Devices : TcpRead(f, d)
  \/ \E d \in Devices : MqttOnline(d) \/ MqttOffline(d) \/ MqttRead(d) \/ OtaMute(d)
  \/ Stop

LNext ==
  \/ World
  \/ SerialStep \/ ParserStep \/ TcpStep \/ MqttStep \/ UpStep \/ OtaStep \/ StopStep

(* The threads run; peers read what is acknowledged to them.  Nothing is   *)
(* assumed of the world, nor that an OTA task starts.                      *)
LFairness ==
  /\ WF_lvars(SerialStep) /\ WF_lvars(ParserStep) /\ WF_lvars(TcpStep) /\ WF_lvars(MqttStep)
  /\ WF_lvars(UpStep) /\ WF_lvars(OtaStep) /\ WF_lvars(StopStep)

LSpec == LInit /\ [][LNext]_lvars /\ LFairness

(***************************************************************************)
(* Properties                                                              *)
(***************************************************************************)
Thread(pcs) == [pc : pcs, item : {<<>>} \cup Frames]

(* Variables stay in their ranges and the queues within their capacities.  *)
LTypeOK ==
  /\ running \in BOOLEAN /\ stopping \in {"no", "raw", "data", "ota", "join", "done"}
  /\ Len(raw) <= RawCap /\ Len(data) <= DataCap /\ shut \subseteq {"raw", "data"}
  /\ \A k \in DOMAIN raw : Len(raw[k]) \in 1..ChunkMax
  /\ Range(data) \cup Range(taken) \cup refused \subseteq Frames /\ read <= MaxFrames
  /\ serial.pc \in {"idle", "push", "ended"} /\ parser.pc \in {"idle", "frame", "push", "ended"}
  /\ tcp \in Thread({"idle", "push", "ended"}) \cup [pc : {"clear"}, item : Fds]
  /\ mqtt \in Thread({"idle", "push", "ended"})
  /\ up \in Thread({"idle", "accept", "bind", "upload", "ended"})
  /\ sess \in [Fds -> Devices \cup {NoDevice, Closed}]
  /\ bound \in [Devices -> Fds \cup {NoFd}]
  /\ active \in [Devices -> Links \cup {None}]
  /\ task \in [Devices -> OtaLinks \cup {None, "muted", "unlocked"}]
  /\ turns \in 0..MaxTurns

(* The frames of one link under way, the oldest first: with the uploader,  *)
(* in the data queue, with the thread that pushes, and for the serial line *)
(* in the raw queue and with the thread that reads.                        *)
Pushing(t) == IF t.pc = "push" THEN <<t.item>> ELSE <<>>
Under(l) ==
  LET OfLink(x) == x.link = l
      popped == IF up.item = <<>> THEN <<>> ELSE <<up.item>>
  IN SelectSeq(popped \o data, OfLink)
       \o CASE l = "serial" -> parser.item \o FlattenSeq(raw) \o serial.item
            [] l = "tcp_binary" -> Pushing(tcp)
            [] l = "mqtt" -> Pushing(mqtt)

Channel == INSTANCE ReportChannel WITH
  Lines <- Links, Reports <- Frames,
  line <- [l \in Links |-> Under(l)], delivered <- taken,
  refused <- refused, closing <- ~running

(* Chunks, bounded queues and five threads together are a channel: the     *)
(* frames of a link are uploaded once and in order, and until stop() none  *)
(* is lost but those the table or the mute refuses, however full the       *)
(* queues are.  (What is refused or given up was acknowledged before.)     *)
ImplementsChannel == Channel!ChSpec

(* Commands for a device are written to an open session of that device,    *)
(* also when it reconnected before its old session was noticed to be gone. *)
BoundIsOpen ==
  tcp.pc # "ended" => \A d \in Devices : bound[d] # NoFd => sess[bound[d]] = d

(* tcp_binary is the active transport of a device only while a session of  *)
(* it is open, unless the table outlived the link: by a frame that was     *)
(* still queued when the session closed, or a session that closed while an *)
(* OTA task held the lock.                                                 *)
ActiveExplained ==
  tcp.pc # "ended" =>
    \A d \in Devices : active[d] = "tcp_binary" => Alive(d, "tcp_binary") \/ d \in leftover

(* With several threads at the table a device never steps down to a link   *)
(* of lower priority but by the end of the better one.                     *)
NoStepDown ==
  [][\A d \in Devices :
       active[d] # None /\ active'[d] # None
         => transportPriority[active'[d]] >= transportPriority[active[d]]]_lvars

(* stop() returns: no thread is left waiting in a full queue.              *)
StopCompletes == stopping # "no" ~> stopping = "done"
==============================================================================
