----------------------------- MODULE OtaTransfer -----------------------------
(***************************************************************************)
(* A firmware transfer from the Linux gateway to the STM32 bootloader over *)
(* the TCP bridge: the tcp_binary branch of executeOtaTask                 *)
(* (serial-gateway/src/app/app_controller.cpp) and Stm32OtaAdapter::run    *)
(* (serial-gateway/src/ota/stm32_ota_adapter.cpp) drive the device of      *)
(* Bootloader.  The bridge and the two serial links are a lossy FIFO line  *)
(* in each direction; the gateway's own frame queue is the front part of   *)
(* toGw.  Sessions follow one another; the ACK cache of the adapter is a   *)
(* static variable and outlives them.                                      *)
(***************************************************************************)
EXTENDS Bootloader

CONSTANTS
  Catalogue,     \* firmware of the store: [img, target, version]; target "AUTO": no entry_addr
  MaxRetries,    \* Stm32OtaOptions.max_retries: 5 in the code
  MaxSessions,   \* bound: sessions the gateway starts
  MaxResets,     \* bound: unexpected resets of the device
  LineBound      \* bound: frames in flight in one direction

ASSUME TransferAssumption ==
  /\ Catalogue \subseteq [img : Images, target : {"A", "B", "AUTO"}, version : 0..MaxVersion]
  /\ MaxRetries \in Nat \ {0}
  /\ \A i \in Images : Size[i] + 3 < OtaSeqMod
  /\ MaxSessions \in Nat /\ MaxResets \in Nat /\ LineBound \in Nat \ {0}

VARIABLES
  toDev,      \* frames on their way to the device
  toGw,       \* frames on their way to the gateway, or in its queue
  helloOn,    \* hello_periodic_enabled of the OTA loop
  gw,         \* the session under way
  ackCache,   \* ack_cache of sendAndRecvAck: the frames without a taker
  sessions,   \* bound: sessions started
  resets      \* bound: unexpected resets

gwVars == <<gw, ackCache, sessions>>
line == <<toDev, toGw>>
tvars == <<vars, line, helloOn, gwVars, resets>>

Phases == {"idle", "hello", "prepare", "data", "verify", "commit"}
Outcomes == {"none", "running", "success", "failed", "canceled"}
Answers == {"none", "ack", "nack"}
Sessions ==
  [phase : Phases, fw : Catalogue, seq : OtaSeqs, n : 0..SlotBlocks,
   attempt : 0..MaxRetries, sent : BOOLEAN, cancel : BOOLEAN, outcome : Outcomes]

TInit ==
  /\ Init
  /\ toDev = <<>> /\ toGw = <<>>
  /\ helloOn = FALSE
  /\ gw \in {[phase |-> "idle", fw |-> o, seq |-> 0, n |-> 0, attempt |-> 0,
              sent |-> FALSE, cancel |-> FALSE, outcome |-> "none"] : o \in Catalogue}
  /\ ackCache = [q \in OtaSeqs |-> "none"]
  /\ sessions = 0 /\ resets = 0

(* What a line may hold after frame f was sent: f is lost (always when the *)
(* line is at its bound) or arrives after the frames before it.            *)
Sent(q, f) == {q} \cup (IF Len(q) < LineBound THEN {Append(q, f)} ELSE {})

(***************************************************************************)
(* The gateway                                                             *)
(***************************************************************************)

(* The PREPARE payload of Stm32OtaAdapter::run: without an entry address   *)
(* but with a version, target_base 0 is sent.                              *)
PrepareFrame(o) ==
  [seq |-> 1, size |-> Size[o.img], crc |-> o.img, chunk |-> 1,
   target |-> IF o.target = "AUTO" /\ o.version # 0 THEN "OTHER" ELSE o.target,
   version |-> o.version]

(* Bootloader considers the frames this gateway sends. *)
ASSUME PrepareAssumption == \A o \in Catalogue : PrepareFrame(o) \in Offers

(* The frame of the current exchange. *)
Frame ==
  CASE gw.phase = "prepare" -> [t |-> "PREPARE", p |-> PrepareFrame(gw.fw)]
    [] gw.phase = "data"    -> [t |-> "DATA", p |-> [seq |-> gw.seq, img |-> gw.fw.img,
                                                     n |-> gw.n, fits |-> TRUE]]
    [] gw.phase = "verify"  -> [t |-> "VERIFY", p |-> [seq |-> gw.seq, crc |-> gw.fw.img]]
    [] gw.phase = "commit"  -> [t |-> "COMMIT", p |-> [seq |-> gw.seq]]

Exchange(phase, n) ==
  [gw EXCEPT !.phase = phase, !.seq = gw.seq + 1, !.n = n, !.attempt = 1, !.sent = FALSE]

(* The session is over: a cancel request outweighs the adapter's result.   *)
Finished(outcome) ==
  [gw EXCEPT !.phase = "idle", !.seq = 0, !.n = 0, !.attempt = 0, !.sent = FALSE,
             !.cancel = FALSE, !.outcome = IF gw.cancel THEN "canceled" ELSE outcome]

(* The next chunk; a cancel request is looked at before each of them. *)
NextChunk(n) == IF gw.cancel THEN Finished("canceled") ELSE Exchange("data", n)

(* Mutant: the image is committed without a VERIFY. *)
AdvanceNoVerify ==
  CASE gw.phase = "prepare" -> NextChunk(1)
    [] gw.phase = "data" /\ gw.n < Size[gw.fw.img] -> NextChunk(gw.n + 1)
    [] gw.phase = "data" /\ gw.n = Size[gw.fw.img] -> Exchange("commit", 0)
    [] gw.phase = "verify" -> Exchange("commit", 0)
    [] gw.phase = "commit" -> Finished("success")

(* retryExchange returned true. *)
Advance ==
  CASE gw.phase = "prepare" -> NextChunk(1)
    [] gw.phase = "data" /\ gw.n < Size[gw.fw.img] -> NextChunk(gw.n + 1)
    [] gw.phase = "data" /\ gw.n = Size[gw.fw.img] -> Exchange("verify", 0)
    [] gw.phase = "verify" -> Exchange("commit", 0)
    [] gw.phase = "commit" -> Finished("success")

(* Mutant: attempts are not counted. *)
AttemptFailedUncounted(err) ==
  IF gw.attempt < MaxRetries THEN [gw EXCEPT !.sent = FALSE]
  ELSE Finished(IF gw.phase = "commit" /\ err = "timeout" THEN "success" ELSE "failed")

(* sendAndRecvAck returned false.  Once the attempts are used up the       *)
(* session has failed, except that executeOtaTask takes a timeout of the   *)
(* COMMIT for a success.  A cancel request does not end the retries.       *)
AttemptFailed(err) ==
  IF gw.attempt < MaxRetries THEN [gw EXCEPT !.attempt = gw.attempt + 1, !.sent = FALSE]
  ELSE Finished(IF gw.phase = "commit" /\ err = "timeout" THEN "success" ELSE "failed")

(* What the answer a to the current frame leads to. *)
Answered(a) == IF a = "ack" THEN Advance ELSE AttemptFailed("nack")

(* executeOtaTask: clear the frame queue (frames still on the line         *)
(* survive), put the bridge into OTA mode, wait for BOOT_HELLO.            *)
StartSession(o) ==
  /\ gw.phase = "idle"
  /\ sessions < MaxSessions
  /\ sessions' = sessions + 1
  /\ gw' = [gw EXCEPT !.phase = "hello", !.fw = o, !.outcome = "running"]
  /\ \E k \in 0..Len(toGw) : toGw' = SubSeq(toGw, k + 1, Len(toGw))
  /\ UNCHANGED <<vars, toDev, helloOn, ackCache, resets>>

(* The wait loop for BOOT_HELLO drops every other frame. *)
WaitHello ==
  /\ gw.phase = "hello" /\ ~gw.cancel
  /\ toGw # <<>>
  /\ toGw' = Tail(toGw)
  /\ gw' = IF Head(toGw).t = "HELLO"
           THEN [gw EXCEPT !.phase = "prepare", !.seq = 1, !.attempt = 1]
           ELSE gw
  /\ UNCHANGED <<vars, toDev, helloOn, ackCache, sessions, resets>>

HelloTimeout ==
  /\ gw.phase = "hello"
  /\ gw' = Finished("failed")
  /\ UNCHANGED <<vars, line, helloOn, ackCache, sessions, resets>>

(* POST /api/ota/tasks/cancel sets the flag canceled() reads. *)
CancelRequest ==
  /\ gw.phase # "idle" /\ ~gw.cancel
  /\ gw' = [gw EXCEPT !.cancel = TRUE]
  /\ UNCHANGED <<vars, line, helloOn, ackCache, sessions, resets>>

InExchange == gw.phase \in {"prepare", "data", "verify", "commit"}

(* sendAndRecvAck: send the frame, then look into the cache. *)
GwSend ==
  /\ InExchange /\ ~gw.sent
  /\ toDev' \in Sent(toDev, Frame)
  /\ IF ackCache[gw.seq] = "none"
     THEN gw' = [gw EXCEPT !.sent = TRUE] /\ UNCHANGED ackCache
     ELSE /\ gw' = Answered(ackCache[gw.seq])
          /\ ackCache' = [ackCache EXCEPT ![gw.seq] = "none"]
  /\ UNCHANGED <<vars, toGw, helloOn, sessions, resets>>

(* The TCP session is gone: "tcp_binary send failed". *)
GwSendFails ==
  /\ InExchange /\ ~gw.sent
  /\ gw' = AttemptFailed("error")
  /\ UNCHANGED <<vars, line, helloOn, ackCache, sessions, resets>>

(* waitTcpBinaryOtaFrame gives up, at the deadline or on a cancel request. *)
GwTimeout ==
  /\ InExchange /\ gw.sent
  /\ gw' = AttemptFailed("timeout")
  /\ UNCHANGED <<vars, line, helloOn, ackCache, sessions, resets>>

(* A frame of the queue: an answer to another frame stays in the cache. *)
GwReceive ==
  /\ InExchange /\ gw.sent /\ ~gw.cancel
  /\ toGw # <<>>
  /\ toGw' = Tail(toGw)
  /\ LET f == Head(toGw) IN
     IF f.t = "HELLO" THEN UNCHANGED <<gw, ackCache>>
     ELSE IF f.seq = gw.seq
     THEN gw' = Answered(f.t) /\ UNCHANGED ackCache
     ELSE ackCache' = [ackCache EXCEPT ![f.seq] = f.t] /\ UNCHANGED gw
  /\ UNCHANGED <<vars, toDev, helloOn, sessions, resets>>

GwStep == (\E o \in Catalogue : StartSession(o)) \/ WaitHello \/ HelloTimeout
          \/ CancelRequest \/ GwSend \/ GwSendFails \/ GwReceive \/ GwTimeout

(***************************************************************************)
(* The device                                                              *)
(***************************************************************************)
Ack(q)  == [t |-> "ack", seq |-> q]
Nack(q) == [t |-> "nack", seq |-> q]
Hello   == [t |-> "HELLO"]

(* bl_ota_loop is entered: the first BOOT_HELLO is sent. *)
EntersLoop == pc' = "ota" /\ pc \notin {"ota", "commit"}

(* Everything outside the OTA loop, COMMIT's flash work included: it       *)
(* acknowledges after the record is stored, before the reset.              *)
DevBoot ==
  /\ BootStep
  /\ LET acked == pc = "commit" /\ commit.ret = "ack" /\ pc' = "off" IN
     toGw' \in (IF EntersLoop THEN Sent(toGw, Hello)
                ELSE IF acked THEN Sent(toGw, Ack(ctx.expected)) ELSE {toGw})
  /\ helloOn' = (helloOn \/ EntersLoop)
  /\ UNCHANGED <<toDev, gw, ackCache, sessions, resets>>

DevApp ==
  /\ AppStep
  /\ UNCHANGED <<line, helloOn, gwVars, resets>>

(* The periodic BOOT_HELLO; not repeated while one is on the line. *)
DevHello ==
  /\ pc = "ota" /\ helloOn
  /\ toGw = <<>>
  /\ toGw' = <<Hello>>
  /\ UNCHANGED <<vars, toDev, helloOn, gwVars, resets>>

DevReply(r) == toDev' = Tail(toDev) /\ toGw' \in Sent(toGw, r)

DevPrepare(p) ==
  /\ HandlePrepare(p)
  /\ helloOn' = FALSE
  /\ DevReply(IF PrepareError(meta, p) = "OK" THEN Ack(p.seq) ELSE Nack(p.seq))

DevData(p) ==
  /\ IF ~DataDuplicate(ctx, p) /\ DataError(ctx, p) = "OK"
     THEN HandleData(p) ELSE UNCHANGED vars
  /\ LET ok == DataDuplicate(ctx, p) \/ ctx' # ctx IN
     DevReply(IF ok THEN Ack(p.seq) ELSE Nack(IF ctx.active THEN p.seq ELSE 0))
  /\ UNCHANGED helloOn

DevVerify(p) ==
  /\ IF VerifyError(ctx, slots, p) = "OK"
     THEN HandleVerify(p) /\ DevReply(Ack(p.seq))
     ELSE UNCHANGED vars /\ DevReply(Nack(IF ctx.active THEN p.seq ELSE 0))
  /\ UNCHANGED helloOn

DevCommit(p) ==
  /\ IF CommitError(ctx, p) = "OK"
     THEN HandleCommit(p) /\ toDev' = Tail(toDev) /\ UNCHANGED toGw
     ELSE UNCHANGED vars /\ DevReply(Nack(IF ctx.active THEN p.seq ELSE 0))
  /\ UNCHANGED helloOn

(* bl_ota_loop takes the next frame. *)
DevReceive ==
  /\ pc = "ota"
  /\ toDev # <<>>
  /\ LET f == Head(toDev) IN
     \/ f.t = "PREPARE" /\ DevPrepare(f.p)
     \/ f.t = "DATA" /\ DevData(f.p)
     \/ f.t = "VERIFY" /\ DevVerify(f.p)
     \/ f.t = "COMMIT" /\ DevCommit(f.p)
  /\ UNCHANGED <<gwVars, resets>>

DevIdleTimeout ==
  /\ IdleTimeout
  /\ helloOn' = FALSE
  /\ UNCHANGED <<line, gwVars, resets>>

DevReset ==
  /\ resets < MaxResets
  /\ resets' = resets + 1
  /\ Reset
  /\ helloOn' = FALSE
  /\ UNCHANGED <<line, gwVars>>

DevStep == DevBoot \/ DevApp \/ DevHello \/ DevReceive \/ DevIdleTimeout \/ DevReset

(* A device outside its OTA loop takes no OTA frames. *)
DevIgnores ==
  /\ pc # "ota"
  /\ toDev # <<>>
  /\ toDev' = Tail(toDev)
  /\ UNCHANGED <<vars, toGw, helloOn, gwVars, resets>>

TNext == GwStep \/ DevStep \/ DevIgnores

TSpec == TInit /\ [][TNext]_tvars

(***************************************************************************)
(* Properties                                                              *)
(***************************************************************************)

(* Frames and session variables stay in their ranges. *)
TTypeOK ==
  /\ TypeOK
  /\ gw \in Sessions
  /\ ackCache \in [OtaSeqs -> Answers]
  /\ helloOn \in BOOLEAN
  /\ Len(toDev) <= LineBound /\ Len(toGw) <= LineBound
  /\ sessions \in 0..MaxSessions /\ resets \in 0..MaxResets

(* stm32_ota_contract.md, section 6: COMMIT follows DATA and VERIFY.       *)
(* bl_handle_commit does not ask for a successful VERIFY itself; what it   *)
(* stores should still be a complete image, linked for its slot.  It is    *)
(* not when the gateway takes answers of an earlier session for answers to *)
(* its own frames: see StaleAnswers.                                       *)
CommitsOnlyVerified ==
  pc = "commit" /\ commit.ret = "ack" =>
    /\ CrcMatches(slots[ctx.target], ctx.size, ctx.crc)
    /\ VectorValidForSlot(slots[ctx.target], ctx.target)

(* What a session has left to do: the exchanges that follow, the attempts  *)
(* of the present one, and whether its frame is still to be sent.          *)
ExchangesLeft(g) ==
  CASE g.phase = "hello" -> Size[g.fw.img] + 3
    [] g.phase = "prepare" -> Size[g.fw.img] + 2
    [] g.phase = "data" -> Size[g.fw.img] - g.n + 2
    [] g.phase = "verify" -> 1
    [] g.phase = "commit" -> 0

Rank(g) ==
  IF g.phase = "idle" THEN 0
  ELSE (2 * MaxRetries + 1) * ExchangesLeft(g) + 2 * (MaxRetries - g.attempt)
       + (IF g.sent THEN 1 ELSE 2)

(* A session cannot go in circles: whatever the device, the line and stale *)
(* answers in the cache do, each step of the gateway but a cancel request  *)
(* brings the session nearer to its end.  With the time-outs of its waits, *)
(* executeOtaTask and Stm32OtaAdapter::run come back.                      *)
SessionAdvances ==
  [][gw.phase # "idle" /\ gw' # gw =>
       Rank(gw') < Rank(gw) \/ gw' = [gw EXCEPT !.cancel = TRUE]]_tvars
==============================================================================
