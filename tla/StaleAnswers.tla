---------------------------- MODULE StaleAnswers -----------------------------
(***************************************************************************)
(* OtaTransfer with its answers followed.  bl_send_ack names the frame it  *)
(* answers by a 16-bit sequence number, every session counts from 1 again, *)
(* and neither the line nor the static ack_cache is emptied between two    *)
(* sessions: an answer to a frame of an earlier session can be taken for   *)
(* the answer to a frame of this one.  The history variables tell the two  *)
(* apart; they restrict no action of OtaTransfer.                          *)
(***************************************************************************)
EXTENDS OtaTransfer

VARIABLES
  oldDev,     \* frames of earlier sessions, at the head of toDev
  oldGw,      \* frames at the head of toGw up to the last answer to one of those
  oldCached,  \* sequence numbers whose cached answer is one to an earlier session
  oldCommit,  \* the COMMIT the device is storing came from an earlier session
  misled      \* some session took an acknowledgement meant for an earlier one

history == <<oldDev, oldGw, oldCached, oldCommit, misled>>
hvars == <<tvars, history>>

HInit ==
  /\ TInit
  /\ oldDev = 0 /\ oldGw = 0
  /\ oldCached = {}
  /\ oldCommit = FALSE
  /\ misled = FALSE

OneLess(n) == IF n = 0 THEN 0 ELSE n - 1

(* From here on, all there is belongs to an earlier session. *)
HStartSession(o) ==
  /\ StartSession(o)
  /\ oldDev' = Len(toDev) /\ oldGw' = Len(toGw')
  /\ oldCached' = {q \in OtaSeqs : ackCache[q] # "none"}
  /\ oldCommit' = TRUE
  /\ UNCHANGED misled

HWaitHello ==
  /\ WaitHello
  /\ oldGw' = OneLess(oldGw)
  /\ UNCHANGED <<oldDev, oldCached, oldCommit, misled>>

HGwSend ==
  /\ GwSend
  /\ misled' = (misled \/ (ackCache[gw.seq] = "ack" /\ gw.seq \in oldCached))
  /\ oldCached' = oldCached \ {gw.seq}
  /\ UNCHANGED <<oldDev, oldGw, oldCommit>>

HGwReceive ==
  /\ GwReceive
  /\ LET f == Head(toGw)
         old == oldGw > 0 IN
     /\ misled' = (misled \/ (old /\ f = Ack(gw.seq)))
     /\ oldCached' = IF f.t = "HELLO" \/ f.seq = gw.seq THEN oldCached
                     ELSE IF old THEN oldCached \cup {f.seq} ELSE oldCached \ {f.seq}
  /\ oldGw' = OneLess(oldGw)
  /\ UNCHANGED <<oldDev, oldCommit>>

(* A reply to an old frame is old, and so is all that was sent before it. *)
HDevReceive ==
  /\ DevReceive
  /\ oldDev' = OneLess(oldDev)
  /\ oldGw' = IF oldDev > 0 THEN Len(toGw') ELSE oldGw
  /\ oldCommit' = IF Head(toDev).t = "COMMIT" THEN oldDev > 0 ELSE oldCommit
  /\ UNCHANGED <<oldCached, misled>>

HDevBoot ==
  /\ DevBoot
  /\ oldGw' = IF pc = "commit" /\ commit.ret = "ack" /\ oldCommit THEN Len(toGw') ELSE oldGw
  /\ UNCHANGED <<oldDev, oldCached, oldCommit, misled>>

HDevIgnores ==
  /\ DevIgnores
  /\ oldDev' = OneLess(oldDev)
  /\ UNCHANGED <<oldGw, oldCached, oldCommit, misled>>

(* The steps that neither take nor send an answer. *)
HOther ==
  /\ HelloTimeout \/ CancelRequest \/ GwSendFails \/ GwTimeout
     \/ DevApp \/ DevHello \/ DevIdleTimeout \/ DevReset
  /\ UNCHANGED history

HNext ==
  \/ \E o \in Catalogue : HStartSession(o)
  \/ HWaitHello \/ HGwSend \/ HGwReceive
  \/ HDevReceive \/ HDevBoot \/ HDevIgnores
  \/ HOther

HSpec == HInit /\ [][HNext]_hvars

(***************************************************************************)
(* Properties                                                              *)
(***************************************************************************)

(* bl_handle_commit does not ask for a successful VERIFY: the order of the *)
(* frames and their sequence numbers have to protect it.  They do, with    *)
(* lost and repeated frames, late answers of the same session, cancelled   *)
(* sessions whose frames are still on the line, and resets, as long as no  *)
(* session takes an acknowledgement meant for an earlier one: only a       *)
(* complete image, linked for its slot, is committed.                      *)
VerifiedUnlessMisled == misled \/ CommitsOnlyVerified
==============================================================================
