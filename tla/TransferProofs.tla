---------------------------- MODULE TransferProofs ---------------------------
(***************************************************************************)
(* Proofs about OtaTransfer and StaleAnswers, for any images, number of    *)
(* retries, sessions and resets, and any length of the line:               *)
(*   - a session of the gateway comes to its end: the rank of OtaTransfer  *)
(*     falls with every step of the session; nothing is needed of the      *)
(*     device or the line, only the session's own counters;                *)
(*   - the device at the other end is the device of Bootloader, so all     *)
(*     that is proved there holds here;                                    *)
(*   - the order of the frames stands in for the VERIFY that               *)
(*     bl_handle_commit does not ask for, until a session takes an         *)
(*     acknowledgement meant for another one.                              *)
(***************************************************************************)
EXTENDS StaleAnswers, BootloaderProofs

States == [phase : Phases, fw : Catalogue, seq : Nat, n : Nat, attempt : 0..MaxRetries,
           sent : BOOLEAN, cancel : BOOLEAN, outcome : Outcomes]

SessionOK ==
  /\ gw \in States
  /\ gw.phase = "data" => gw.n \in 1..Size[gw.fw.img]

LEMMA Sizes == /\ MaxRetries \in Nat \ {0}
               /\ \A o \in Catalogue : Size[o.img] \in Nat \ {0}
<1>1. \A o \in Catalogue : o.img \in Images
  BY TransferAssumption
<1>2. \A i \in Images : Size[i] \in 1..SlotBlocks /\ SlotBlocks \in Nat
  BY ImagesAssumption
<1>3. \A i \in Images : Size[i] \in Nat \ {0}
  BY <1>2, SMT
<1> QED
  BY <1>1, <1>3, TransferAssumption

(* What each way an exchange may end does to the session. *)
Failing == \E err \in {"nack", "error", "timeout"} : gw' = AttemptFailed(err)

LEMMA SessionSteps ==
  ASSUME [TNext]_tvars
  PROVE  \/ gw' = gw
         \/ gw' = [gw EXCEPT !.cancel = TRUE]
         \/ gw.phase = "idle" /\ \E o \in Catalogue :
              gw' = [gw EXCEPT !.phase = "hello", !.fw = o, !.outcome = "running"]
         \/ gw.phase = "hello" /\ gw' \in {[gw EXCEPT !.phase = "prepare", !.seq = 1, !.attempt = 1],
                                           Finished("failed")}
         \/ InExchange /\ ~gw.sent /\ gw' = [gw EXCEPT !.sent = TRUE]
         \/ InExchange /\ (gw' = Advance \/ Failing)
<1>1. CASE GwStep
  BY <1>1 DEF GwStep, StartSession, WaitHello, HelloTimeout, CancelRequest, GwSend, GwSendFails,
     GwReceive, GwTimeout, Answered, Failing
<1>2. CASE DevStep \/ DevIgnores \/ UNCHANGED tvars
  BY <1>2 DEF DevStep, DevIgnores, DevBoot, DevApp, DevHello, DevReceive, DevIdleTimeout, DevReset,
     gwVars, tvars
<1> QED
  BY <1>1, <1>2 DEF TNext

LEMMA FinishedOK ==
  ASSUME SessionOK, NEW r \in {"success", "failed", "canceled"}
  PROVE  /\ Finished(r) \in States
         /\ Finished(r).phase = "idle"
<1>1. 0 \in 0..MaxRetries
  BY Sizes, SMT
<1> QED
  BY <1>1 DEF SessionOK, States, Finished, Phases, Outcomes

(* The exchange that follows, and how much is left behind it. *)
LEMMA AdvanceOK ==
  ASSUME SessionOK, InExchange, gw' = Advance
  PROVE  /\ SessionOK'
         /\ \/ gw'.phase = "idle"
            \/ /\ gw'.phase \in {"data", "verify", "commit"} /\ gw'.attempt = 1 /\ ~gw'.sent
               /\ ExchangesLeft(gw') \in Nat /\ ExchangesLeft(gw) = ExchangesLeft(gw') + 1
<1> DEFINE S == Size[gw.fw.img]
<1>1. S \in Nat \ {0} /\ gw.n \in Nat
  BY Sizes DEF SessionOK, States
<1>2. ASSUME NEW p \in {"data", "verify", "commit"}, NEW n \in Nat, gw' = Exchange(p, n),
             p = "data" => n \in 1..S
      PROVE  SessionOK' /\ gw'.phase = p /\ gw'.attempt = 1 /\ ~gw'.sent /\ gw'.n = n /\ gw'.fw = gw.fw
  <2>0. PICK x : x = Exchange(p, n)
    OBVIOUS
  <2>1. 1 \in 0..MaxRetries
    BY Sizes, SMT
  <2>2. gw.seq + 1 \in Nat
    BY SMT DEF SessionOK, States
  <2>3. x.phase = p /\ x.n = n /\ x.fw = gw.fw /\ x.attempt = 1 /\ ~x.sent
    BY <2>0 DEF Exchange, SessionOK, States
  <2>4. x \in States
    BY <1>2, <2>0, <2>1, <2>2 DEF Exchange, SessionOK, States, Phases
  <2>5. gw' = x /\ (p = "data" => n \in 1..S)
    BY <1>2, <2>0
  <2>6. gw'.phase = p /\ gw'.attempt = 1 /\ ~gw'.sent /\ gw'.n = n /\ gw'.fw = gw.fw
    BY <2>3, <2>5
  <2>7. SessionOK'
    BY <2>3, <2>4, <2>5 DEF SessionOK
  <2> QED
    BY <2>6, <2>7
<1>3. ASSUME gw' \in {Finished("canceled"), Finished("success")} PROVE SessionOK' /\ gw'.phase = "idle"
  BY <1>3, FinishedOK DEF SessionOK, States
<1>4. CASE gw.phase = "prepare"
  <2>1. gw' = Exchange("data", 1) \/ gw' = Finished("canceled")
    BY <1>4 DEF Advance, NextChunk
  <2>2. 1 \in 1..S /\ 1 \in Nat
    BY <1>1, SMT
  <2>3. CASE gw' = Exchange("data", 1)
    <3>1. SessionOK' /\ gw'.phase = "data" /\ gw'.attempt = 1 /\ ~gw'.sent /\ gw'.n = 1 /\ gw'.fw = gw.fw
      BY <1>2, <2>2, <2>3
    <3> QED
      BY <3>1, <1>4, <1>1, SMT DEF ExchangesLeft
  <2> QED
    BY <2>1, <2>3, <1>3
<1>5. CASE gw.phase = "data" /\ gw.n < S
  <2>1. gw' = Exchange("data", gw.n + 1) \/ gw' = Finished("canceled")
    BY <1>1, <1>5, SMT DEF Advance, NextChunk
  <2>2. gw.n + 1 \in 1..S /\ gw.n + 1 \in Nat
    BY <1>1, <1>5, SMT
  <2>3. CASE gw' = Exchange("data", gw.n + 1)
    <3>1. SessionOK' /\ gw'.phase = "data" /\ gw'.attempt = 1 /\ ~gw'.sent /\ gw'.n = gw.n + 1 /\ gw'.fw = gw.fw
      BY <1>2, <2>2, <2>3
    <3> QED
      BY <3>1, <1>5, <1>1, SMT DEF ExchangesLeft
  <2> QED
    BY <2>1, <2>3, <1>3
<1>6. CASE gw.phase = "data" /\ gw.n = S
  <2>1. gw' = Exchange("verify", 0)
    BY <1>6, <1>1, SMT DEF Advance
  <2>2. SessionOK' /\ gw'.phase = "verify" /\ gw'.attempt = 1 /\ ~gw'.sent
    BY <2>1, <1>2
  <2> QED
    BY <2>2, <1>6, <1>1, SMT DEF ExchangesLeft
<1>7. CASE gw.phase = "verify"
  <2>1. gw' = Exchange("commit", 0)
    BY <1>7 DEF Advance
  <2>2. SessionOK' /\ gw'.phase = "commit" /\ gw'.attempt = 1 /\ ~gw'.sent
    BY <2>1, <1>2
  <2> QED
    BY <2>2, <1>7, SMT DEF ExchangesLeft
<1>8. CASE gw.phase = "commit"
  BY <1>3, <1>8 DEF Advance
<1>9. gw.phase = "data" => gw.n < S \/ gw.n = S
  BY <1>1, SMT DEF SessionOK, States
<1> QED
  BY <1>4, <1>5, <1>6, <1>7, <1>8, <1>9 DEF InExchange

(* One attempt less, or the end. *)
LEMMA FailingOK ==
  ASSUME SessionOK, InExchange, Failing
  PROVE  /\ SessionOK'
         /\ \/ gw'.phase = "idle"
            \/ /\ gw'.attempt = gw.attempt + 1 /\ ~gw'.sent
               /\ gw'.phase = gw.phase /\ ExchangesLeft(gw') = ExchangesLeft(gw)
<1>1. CASE gw.attempt < MaxRetries /\ gw' = [gw EXCEPT !.attempt = gw.attempt + 1, !.sent = FALSE]
  <2>1. gw.attempt + 1 \in 0..MaxRetries
    BY <1>1, Sizes, SMT DEF SessionOK, States
  <2>2. gw'.attempt = gw.attempt + 1 /\ gw'.sent = FALSE /\ gw'.phase = gw.phase /\ gw'.n = gw.n
        /\ gw'.fw = gw.fw
    BY <1>1 DEF SessionOK, States
  <2>3. SessionOK'
    BY <1>1, <2>1, <2>2 DEF SessionOK, States
  <2> QED
    BY <2>2, <2>3 DEF ExchangesLeft
<1>2. CASE gw' \in {Finished("success"), Finished("failed")}
  BY <1>2, FinishedOK DEF SessionOK, States
<1> QED
  BY <1>1, <1>2 DEF Failing, AttemptFailed

LEMMA SessionKept == ASSUME SessionOK, [TNext]_tvars PROVE SessionOK'
<1>1. CASE gw' = gw \/ gw' = [gw EXCEPT !.cancel = TRUE] \/ gw' = [gw EXCEPT !.sent = TRUE]
  BY <1>1 DEF SessionOK, States
<1>2. ASSUME NEW o \in Catalogue, gw' = [gw EXCEPT !.phase = "hello", !.fw = o, !.outcome = "running"]
      PROVE  SessionOK'
  BY <1>2 DEF SessionOK, States, Phases, Outcomes
<1>3. CASE gw' = [gw EXCEPT !.phase = "prepare", !.seq = 1, !.attempt = 1]
  <2>1. 1 \in 0..MaxRetries /\ 1 \in Nat
    BY Sizes, SMT
  <2> QED
    BY <1>3, <2>1 DEF SessionOK, States, Phases
<1>4. CASE gw' = Finished("failed")
  BY <1>4, FinishedOK DEF SessionOK, States
<1> QED
  BY <1>1, <1>2, <1>3, <1>4, SessionSteps, AdvanceOK, FailingOK

LEMMA SessionInit == TInit => SessionOK
<1> SUFFICES ASSUME TInit PROVE SessionOK
  OBVIOUS
<1>1. 0 \in 0..MaxRetries /\ 0 \in Nat
  BY Sizes, SMT
<1>2. PICK o \in Catalogue :
        gw = [phase |-> "idle", fw |-> o, seq |-> 0, n |-> 0, attempt |-> 0,
              sent |-> FALSE, cancel |-> FALSE, outcome |-> "none"]
  BY DEF TInit
<1> QED
  BY <1>1, <1>2 DEF SessionOK, States, Phases, Outcomes

(***************************************************************************)
(* Ranks                                                                   *)
(***************************************************************************)
LEMMA Product ==
  ASSUME NEW m \in Nat, NEW a \in Nat
  PROVE  m * (a + 1) = m * a + m /\ m * a \in Nat
  BY SMT

(* The rank of a session under way: e exchanges left. *)
LEMMA RankBounds ==
  ASSUME SessionOK, gw.phase # "idle"
  PROVE  /\ ExchangesLeft(gw) \in Nat /\ (2 * MaxRetries + 1) * ExchangesLeft(gw) \in Nat
         /\ Rank(gw) \in Nat
         /\ Rank(gw) >= (2 * MaxRetries + 1) * ExchangesLeft(gw) + 1
         /\ Rank(gw) = (2 * MaxRetries + 1) * ExchangesLeft(gw) + 2 * (MaxRetries - gw.attempt)
                       + (IF gw.sent THEN 1 ELSE 2)
<1>1. gw.attempt \in 0..MaxRetries /\ gw.sent \in BOOLEAN /\ MaxRetries \in Nat
  BY Sizes DEF SessionOK, States
<1>2. ExchangesLeft(gw) \in Nat
  <2>1. Size[gw.fw.img] \in Nat /\ gw.n \in Nat
    BY Sizes DEF SessionOK, States
  <2> QED
    BY <2>1, SMT DEF ExchangesLeft, SessionOK, States, Phases
<1> DEFINE e == ExchangesLeft(gw)
           me == (2 * MaxRetries + 1) * e
<1>3. me \in Nat
  <2> HIDE DEF e
  <2>1. e \in Nat
    BY <1>2 DEF e
  <2> QED
    BY <1>1, <2>1, SMT
<1>4. Rank(gw) = me + 2 * (MaxRetries - gw.attempt) + (IF gw.sent THEN 1 ELSE 2)
  BY DEF Rank
<1> HIDE DEF me
<1>5. Rank(gw) \in Nat /\ Rank(gw) >= me + 1
  BY <1>1, <1>3, <1>4, SMT
<1> QED
  BY <1>2, <1>3, <1>4, <1>5 DEF me

LEMMA AdvanceFalls == ASSUME SessionOK, InExchange, gw' = Advance PROVE Rank(gw') < Rank(gw)
<1> DEFINE m == 2 * MaxRetries + 1
<1>0. MaxRetries \in Nat /\ MaxRetries >= 1 /\ m \in Nat
  BY Sizes, SMT
<1>1. gw.phase # "idle"
  BY DEF InExchange
<1>2. Rank(gw) \in Nat /\ Rank(gw) >= m * ExchangesLeft(gw) + 1 /\ m * ExchangesLeft(gw) \in Nat
  BY <1>1, RankBounds
<1>3. CASE gw'.phase = "idle"
  BY <1>2, <1>3, SMT DEF Rank
<1>4. CASE gw'.phase # "idle"
  <2> DEFINE e == ExchangesLeft(gw')
  <2>1. gw'.attempt = 1 /\ ~gw'.sent /\ e \in Nat /\ ExchangesLeft(gw) = e + 1
    BY <1>4, AdvanceOK
  <2>2. Rank(gw') = m * e + 2 * (MaxRetries - 1) + 2
    BY <1>4, <2>1 DEF Rank
  <2> HIDE DEF e, m
  <2>3. m * (e + 1) = m * e + m /\ m * e \in Nat
    BY <1>0, <2>1, Product
  <2>4. Rank(gw) >= m * e + m + 1
    BY <1>2, <2>1, <2>3
  <2>5. m = 2 * MaxRetries + 1
    BY DEF m
  <2> QED
    BY <1>0, <1>2, <2>2, <2>3, <2>4, <2>5, SMT
<1> QED
  BY <1>3, <1>4

LEMMA FailingFalls == ASSUME SessionOK, InExchange, Failing PROVE Rank(gw') < Rank(gw)
<1> DEFINE me == (2 * MaxRetries + 1) * ExchangesLeft(gw)
<1>1. gw.phase # "idle"
  BY DEF InExchange
<1>2. Rank(gw) \in Nat /\ me \in Nat /\ Rank(gw) >= me + 1
      /\ Rank(gw) = me + 2 * (MaxRetries - gw.attempt) + (IF gw.sent THEN 1 ELSE 2)
  BY <1>1, RankBounds
<1>3. CASE gw'.phase = "idle"
  <2> HIDE DEF me
  <2> QED
    BY <1>2, <1>3, SMT DEF Rank
<1>4. CASE gw'.phase # "idle"
  <2>1. gw'.attempt = gw.attempt + 1 /\ ~gw'.sent /\ ExchangesLeft(gw') = ExchangesLeft(gw)
    BY <1>1, <1>4, FailingOK
  <2>2. Rank(gw') = me + 2 * (MaxRetries - (gw.attempt + 1)) + 2
    BY <1>4, <2>1 DEF Rank
  <2>3. gw.attempt \in Nat /\ gw.sent \in BOOLEAN /\ MaxRetries \in Nat
    BY Sizes, SMT DEF SessionOK, States
  <2> HIDE DEF me
  <2> QED
    BY <1>2, <2>2, <2>3, SMT
<1> QED
  BY <1>3, <1>4

LEMMA SentFalls ==
  ASSUME SessionOK, InExchange, ~gw.sent, gw' = [gw EXCEPT !.sent = TRUE]
  PROVE  Rank(gw') < Rank(gw)
<1> DEFINE me == (2 * MaxRetries + 1) * ExchangesLeft(gw)
<1>1. gw.phase # "idle"
  BY DEF InExchange
<1>2. me \in Nat /\ Rank(gw) = me + 2 * (MaxRetries - gw.attempt) + 2
  BY <1>1, RankBounds
<1>3. gw'.phase = gw.phase /\ gw'.attempt = gw.attempt /\ gw'.sent = TRUE /\ gw'.n = gw.n /\ gw'.fw = gw.fw
  BY DEF SessionOK, States
<1>4. Rank(gw') = me + 2 * (MaxRetries - gw.attempt) + 1
  BY <1>1, <1>3 DEF Rank, ExchangesLeft
<1>5. gw.attempt \in Nat /\ MaxRetries \in Nat
  BY Sizes, SMT DEF SessionOK, States
<1> HIDE DEF me
<1> QED
  BY <1>2, <1>4, <1>5, SMT

LEMMA HelloFalls ==
  ASSUME SessionOK, gw.phase = "hello",
         gw' \in {[gw EXCEPT !.phase = "prepare", !.seq = 1, !.attempt = 1], Finished("failed")}
  PROVE  Rank(gw') < Rank(gw)
<1> DEFINE m == 2 * MaxRetries + 1
           s == Size[gw.fw.img]
<1>0. MaxRetries \in Nat /\ MaxRetries >= 1 /\ m \in Nat /\ s \in Nat
  BY Sizes, SMT DEF SessionOK, States
<1>2. Rank(gw) \in Nat /\ Rank(gw) >= m * ExchangesLeft(gw) + 1 /\ m * ExchangesLeft(gw) \in Nat
  BY RankBounds
<1>3. CASE gw' = Finished("failed")
  <2>1. gw'.phase = "idle"
    BY <1>3, FinishedOK
  <2> QED
    BY <1>2, <2>1, SMT DEF Rank
<1>4. CASE gw' = [gw EXCEPT !.phase = "prepare", !.seq = 1, !.attempt = 1]
  <2>1. gw'.phase = "prepare" /\ gw'.attempt = 1 /\ gw'.sent = gw.sent /\ gw'.fw = gw.fw
    BY <1>4 DEF SessionOK, States
  <2>2. ExchangesLeft(gw) = (s + 2) + 1 /\ ExchangesLeft(gw') = s + 2
    BY <2>1, <1>0, SMT DEF ExchangesLeft
  <2>3. Rank(gw') = m * (s + 2) + 2 * (MaxRetries - 1) + (IF gw.sent THEN 1 ELSE 2)
    BY <2>1, <2>2 DEF Rank
  <2> HIDE DEF s, m
  <2>4. m * ((s + 2) + 1) = m * (s + 2) + m /\ m * (s + 2) \in Nat
    <3>1. s + 2 \in Nat
      BY <1>0, SMT
    <3> QED
      BY <1>0, <3>1, Product
  <2>5. Rank(gw) >= m * (s + 2) + m + 1
    BY <1>2, <2>2, <2>4
  <2>6. m = 2 * MaxRetries + 1
    BY DEF m
  <2> QED
    BY <1>0, <1>2, <2>3, <2>4, <2>5, <2>6, SMT
<1> QED
  BY <1>3, <1>4

(***************************************************************************)
(* Results                                                                 *)
(***************************************************************************)

(* The session's counters stay in range: the attempts of an exchange within *)
(* max_retries and the chunk within the image.                             *)
THEOREM SessionInRange == TSpec => []SessionOK
  BY SessionInit, SessionKept, PTL DEF TSpec

(* executeOtaTask and Stm32OtaAdapter::run do not go in circles: whatever  *)
(* the device, the line and the cache of answers do, every step of the     *)
(* session but a cancel request leaves less to do, so it ends within       *)
(* (2 * MaxRetries + 1) * (Size + 4) steps of its own.                     *)
THEOREM SessionEnds == TSpec => SessionAdvances
<1>1. ASSUME SessionOK, [TNext]_tvars, gw.phase # "idle", gw' # gw
      PROVE  Rank(gw') < Rank(gw) \/ gw' = [gw EXCEPT !.cancel = TRUE]
  BY <1>1, SessionSteps, AdvanceFalls, FailingFalls, SentFalls, HelloFalls
<1>2. SessionOK /\ [TNext]_tvars
      => [gw.phase # "idle" /\ gw' # gw =>
            Rank(gw') < Rank(gw) \/ gw' = [gw EXCEPT !.cancel = TRUE]]_tvars
  BY <1>1
<1> QED
  BY <1>2, SessionInRange, PTL DEF TSpec, SessionAdvances

(***************************************************************************)
(* The fields of the session                                               *)
(***************************************************************************)

(* The sequence number of an exchange says which one it is. *)
SeqOf(g) ==
  CASE g.phase \in {"idle", "hello"} -> 0
    [] g.phase = "prepare" -> 1
    [] g.phase = "data" -> g.n + 1
    [] g.phase = "verify" -> Size[g.fw.img] + 2
    [] g.phase = "commit" -> Size[g.fw.img] + 3

Counted == SessionOK /\ gw.seq = SeqOf(gw)

SameExchange ==
  gw'.phase = gw.phase /\ gw'.fw = gw.fw /\ gw'.seq = gw.seq /\ gw'.n = gw.n

Ended == gw'.phase = "idle" /\ gw'.fw = gw.fw /\ gw'.seq = 0

NextExchange ==
  /\ gw'.fw = gw.fw /\ gw'.seq = gw.seq + 1
  /\ \/ gw.phase = "prepare" /\ gw'.phase = "data" /\ gw'.n = 1
     \/ gw.phase = "data" /\ gw.n < Size[gw.fw.img] /\ gw'.phase = "data" /\ gw'.n = gw.n + 1
     \/ gw.phase = "data" /\ gw.n = Size[gw.fw.img] /\ gw'.phase = "verify"
     \/ gw.phase = "verify" /\ gw'.phase = "commit"

LEMMA FinishedFields ==
  ASSUME SessionOK, NEW r, gw' = Finished(r)
  PROVE  Ended
BY DEF SessionOK, States, Finished, Ended

LEMMA ExchangeFields ==
  ASSUME SessionOK, NEW p, NEW n, gw' = Exchange(p, n)
  PROVE  gw'.phase = p /\ gw'.n = n /\ gw'.fw = gw.fw /\ gw'.seq = gw.seq + 1 /\ ~gw'.sent
<1>0. PICK q : q = gw.seq + 1
  OBVIOUS
<1>1. gw' = [gw EXCEPT !.phase = p, !.seq = q, !.n = n, !.attempt = 1, !.sent = FALSE]
  BY <1>0 DEF Exchange
<1>2. gw'.phase = p /\ gw'.n = n /\ gw'.fw = gw.fw /\ gw'.seq = q /\ ~gw'.sent
  BY <1>1 DEF SessionOK, States
<1> QED
  BY <1>0, <1>2

LEMMA AdvanceFields ==
  ASSUME SessionOK, InExchange, gw' = Advance
  PROVE  Ended \/ NextExchange
<1> DEFINE S == Size[gw.fw.img]
<1>1. S \in Nat \ {0} /\ gw.n \in Nat
  BY Sizes DEF SessionOK, States
<1>2. CASE gw.phase = "prepare"
  <2>1. gw' = Exchange("data", 1) \/ gw' = Finished("canceled")
    BY <1>2 DEF Advance, NextChunk
  <2> QED
    BY <2>1, <1>2, ExchangeFields, FinishedFields DEF NextExchange
<1>3. CASE gw.phase = "data" /\ gw.n < S
  <2>1. gw' = Exchange("data", gw.n + 1) \/ gw' = Finished("canceled")
    BY <1>1, <1>3, SMT DEF Advance, NextChunk
  <2> QED
    BY <2>1, <1>3, ExchangeFields, FinishedFields DEF NextExchange
<1>4. CASE gw.phase = "data" /\ gw.n = S
  <2>1. gw' = Exchange("verify", 0)
    BY <1>4, <1>1, SMT DEF Advance
  <2> QED
    BY <2>1, <1>4, ExchangeFields DEF NextExchange
<1>5. CASE gw.phase = "verify"
  <2>1. gw' = Exchange("commit", 0)
    BY <1>5 DEF Advance
  <2> QED
    BY <2>1, <1>5, ExchangeFields DEF NextExchange
<1>6. CASE gw.phase = "commit"
  <2>1. gw' = Finished("success")
    BY <1>6 DEF Advance
  <2> QED
    BY <2>1, FinishedFields
<1>7. gw.phase = "data" => gw.n < S \/ gw.n = S
  BY <1>1, SMT DEF SessionOK, States
<1> QED
  BY <1>2, <1>3, <1>4, <1>5, <1>6, <1>7 DEF InExchange

LEMMA FailingFields ==
  ASSUME SessionOK, NEW err, gw' = AttemptFailed(err)
  PROVE  Ended \/ SameExchange
<1>0. PICK a : a = gw.attempt + 1
  OBVIOUS
<1>1. gw' = [gw EXCEPT !.attempt = a, !.sent = FALSE]
      \/ \E r : gw' = Finished(r)
  BY <1>0 DEF AttemptFailed
<1>2. CASE gw' = [gw EXCEPT !.attempt = a, !.sent = FALSE]
  BY <1>2 DEF SessionOK, States, SameExchange
<1> QED
  BY <1>1, <1>2, FinishedFields

LEMMA AnsweredFields ==
  ASSUME SessionOK, InExchange, NEW a \in {"ack", "nack"}, gw' = Answered(a)
  PROVE  Ended \/ SameExchange \/ (a = "ack" /\ NextExchange)
<1>1. CASE a = "ack"
  BY <1>1, AdvanceFields DEF Answered
<1>2. CASE a = "nack"
  BY <1>2, FailingFields DEF Answered
<1> QED
  BY <1>1, <1>2

(* What a step does to the session. *)
Starts == gw.phase = "idle" /\ gw'.phase = "hello" /\ gw'.fw \in Catalogue /\ gw'.seq = gw.seq
Greeted == gw.phase = "hello" /\ gw'.phase = "prepare" /\ gw'.fw = gw.fw /\ gw'.seq = 1

LEMMA SessionMoves ==
  ASSUME SessionOK, [TNext]_tvars
  PROVE  \/ SameExchange \/ Ended \/ Starts \/ Greeted
         \/ InExchange /\ NextExchange
<1>1. CASE gw' = gw \/ gw' = [gw EXCEPT !.cancel = TRUE] \/ gw' = [gw EXCEPT !.sent = TRUE]
  BY <1>1 DEF SessionOK, States, SameExchange
<1>2. ASSUME NEW o \in Catalogue, gw.phase = "idle",
             gw' = [gw EXCEPT !.phase = "hello", !.fw = o, !.outcome = "running"]
      PROVE  Starts
  BY <1>2 DEF SessionOK, States, Starts
<1>3. CASE gw.phase = "hello" /\ gw' = [gw EXCEPT !.phase = "prepare", !.seq = 1, !.attempt = 1]
  BY <1>3 DEF SessionOK, States, Greeted
<1>4. CASE gw' = Finished("failed")
  BY <1>4, FinishedFields
<1>5. CASE InExchange /\ gw' = Advance
  BY <1>5, AdvanceFields
<1>6. CASE Failing
  BY <1>6, FailingFields DEF Failing
<1> QED
  BY <1>1, <1>2, <1>3, <1>4, <1>5, <1>6, SessionSteps

LEMMA CountedKept == ASSUME Counted, [TNext]_tvars PROVE Counted'
<1> DEFINE S == Size[gw.fw.img]
<1>1. SessionOK'
  BY SessionKept DEF Counted
<1>2. SessionOK /\ gw.seq = SeqOf(gw)
  BY DEF Counted
<1>3. S \in Nat \ {0} /\ gw.n \in Nat /\ gw.seq \in Nat
  BY <1>2, Sizes DEF SessionOK, States
<1>4. gw'.seq = SeqOf(gw')
  <2>1. CASE SameExchange
    BY <2>1, <1>2 DEF SameExchange, SeqOf
  <2>2. CASE Ended
    BY <2>2 DEF Ended, SeqOf
  <2>3. CASE Starts
    BY <2>3, <1>2 DEF Starts, SeqOf
  <2>4. CASE Greeted
    BY <2>4 DEF Greeted, SeqOf
  <2>5. CASE InExchange /\ NextExchange
    BY <2>5, <1>2, <1>3, SMT DEF NextExchange, SeqOf
  <2> QED
    BY <2>1, <2>2, <2>3, <2>4, <2>5, <1>2, SessionMoves
<1> QED
  BY <1>1, <1>4 DEF Counted

LEMMA CountedInit == TInit => Counted
<1> SUFFICES ASSUME TInit PROVE Counted
  OBVIOUS
<1>1. gw.phase = "idle" /\ gw.seq = 0
  BY DEF TInit
<1> QED
  BY <1>1, SessionInit DEF Counted, SeqOf

(* A session sends frames its device understands. *)
DevFrames ==
  {[t |-> "PREPARE", p |-> PrepareFrame(o)] : o \in Catalogue}
  \cup [t : {"DATA"}, p : DataFrames]
  \cup [t : {"VERIFY"}, p : [seq : OtaSeqs, crc : Images]]
  \cup [t : {"COMMIT"}, p : [seq : OtaSeqs]]
GwFrames == {Hello} \cup [t : {"ack", "nack"}, seq : OtaSeqs]

LEMMA SeqRange ==
  ASSUME Counted
  PROVE  /\ gw.seq \in OtaSeqs /\ gw.fw \in Catalogue /\ gw.fw.img \in Images
         /\ Size[gw.fw.img] \in Nat \ {0} /\ Size[gw.fw.img] <= SlotBlocks
         /\ Size[gw.fw.img] + 3 < OtaSeqMod /\ OtaSeqMod \in Nat
         /\ Size[gw.fw.img] + 2 \in OtaSeqs
<1> DEFINE S == Size[gw.fw.img]
<1>1. gw.fw \in Catalogue /\ gw.n \in Nat /\ gw.phase \in Phases /\ gw.seq = SeqOf(gw)
  BY DEF Counted, SessionOK, States
<1>2. gw.fw.img \in Images
  BY <1>1, TransferAssumption
<1>3. S \in Nat \ {0} /\ S <= SlotBlocks
  BY <1>2, <1>1, Sizes, ImagesAssumption, SMT
<1>4. S + 3 < OtaSeqMod /\ OtaSeqMod \in Nat
  BY <1>2, TransferAssumption, OtaSeqAssumption
<1>5. gw.phase = "data" => gw.n <= S
  BY <1>1, <1>3, SMT DEF Counted, SessionOK
<1>6. gw.seq \in 0..(OtaSeqMod - 1) /\ S + 2 \in 0..(OtaSeqMod - 1)
  BY <1>1, <1>3, <1>4, <1>5, SMT DEF SeqOf, Phases
<1> QED
  BY <1>1, <1>2, <1>3, <1>4, <1>6 DEF OtaSeqs

LEMMA FrameFields ==
  ASSUME Counted, InExchange
  PROVE  /\ Frame \in DevFrames
         /\ Frame.p.seq = gw.seq
         /\ Frame.t = "PREPARE" <=> gw.phase = "prepare"
         /\ Frame.t = "VERIFY" <=> gw.phase = "verify"
         /\ Frame.t = "COMMIT" <=> gw.phase = "commit"
<1>1. /\ gw.seq \in OtaSeqs /\ gw.fw \in Catalogue /\ gw.fw.img \in Images
      /\ Size[gw.fw.img] \in Nat \ {0} /\ Size[gw.fw.img] <= SlotBlocks
  BY SeqRange
<1>2. CASE gw.phase = "prepare"
  <2>1. Frame = [t |-> "PREPARE", p |-> PrepareFrame(gw.fw)]
    BY <1>2 DEF Frame
  <2>2. PrepareFrame(gw.fw).seq = 1 /\ gw.seq = 1
    BY <1>2 DEF PrepareFrame, Counted, SeqOf
  <2>3. Frame \in DevFrames
    BY <1>1, <2>1 DEF DevFrames
  <2> QED
    BY <2>1, <2>2, <2>3, <1>2
<1>3. CASE gw.phase = "data"
  <2>0. PICK d : d = [seq |-> gw.seq, img |-> gw.fw.img, n |-> gw.n, fits |-> TRUE]
    OBVIOUS
  <2>1. Frame = [t |-> "DATA", p |-> d]
    BY <1>3, <2>0 DEF Frame
  <2>2. gw.n \in 1..Size[gw.fw.img]
    BY <1>3 DEF Counted, SessionOK
  <2>3. gw.n \in 1..SlotBlocks /\ gw.n <= Size[gw.fw.img]
    BY <1>1, <2>2, ImagesAssumption, SMT
  <2>4. d \in DataFrames
    BY <2>0, <2>3, <1>1 DEF DataFrames
  <2>5. Frame \in DevFrames
    BY <2>1, <2>4 DEF DevFrames
  <2> QED
    BY <2>0, <2>1, <2>5, <1>3
<1>4. CASE gw.phase = "verify"
  <2>1. Frame = [t |-> "VERIFY", p |-> [seq |-> gw.seq, crc |-> gw.fw.img]]
    BY <1>4 DEF Frame
  <2>2. Frame \in DevFrames
    BY <1>1, <2>1 DEF DevFrames
  <2> QED
    BY <2>1, <2>2, <1>4
<1>5. CASE gw.phase = "commit"
  <2>1. Frame = [t |-> "COMMIT", p |-> [seq |-> gw.seq]]
    BY <1>5 DEF Frame
  <2>2. Frame \in DevFrames
    BY <1>1, <2>1 DEF DevFrames
  <2> QED
    BY <2>1, <2>2, <1>5
<1> QED
  BY <1>2, <1>3, <1>4, <1>5 DEF InExchange

LineOK == toDev \in Seq(DevFrames) /\ toGw \in Seq(GwFrames)
TInv == Counted /\ IInv /\ LineOK /\ ackCache \in [OtaSeqs -> Answers]

LEMMA SentType ==
  ASSUME NEW S, NEW q \in Seq(S), NEW f \in S, NEW r \in Sent(q, f)
  PROVE  r \in Seq(S) /\ (r = q \/ r = Append(q, f))
BY DEF Sent

LEMMA HeadType ==
  ASSUME NEW S, NEW q \in Seq(S), q # <<>>
  PROVE  Head(q) \in S /\ Tail(q) \in Seq(S) /\ Head(q) = q[1] /\ Len(q) \in Nat \ {0}
         /\ Len(Tail(q)) = Len(q) - 1 /\ \A i \in 1..Len(Tail(q)) : Tail(q)[i] = q[i + 1]
OBVIOUS

LEMMA DevFrameCases ==
  ASSUME NEW f \in DevFrames
  PROVE  /\ f.t \in {"PREPARE", "DATA", "VERIFY", "COMMIT"}
         /\ f.t = "PREPARE" => \E o \in Catalogue : f.p = PrepareFrame(o)
         /\ f.t = "DATA" => f.p \in DataFrames
         /\ f.t = "VERIFY" => f.p \in [seq : OtaSeqs, crc : Images]
         /\ f.t = "COMMIT" => f.p \in [seq : OtaSeqs]
         /\ f.p.seq \in OtaSeqs
<1>1. ASSUME NEW o \in Catalogue PROVE PrepareFrame(o).seq \in OtaSeqs
  BY OtaSeqAssumption, SMT DEF PrepareFrame, OtaSeqs
<1>2. CASE f \in {[t |-> "PREPARE", p |-> PrepareFrame(o)] : o \in Catalogue}
  BY <1>1, <1>2
<1>3. CASE f \in [t : {"DATA"}, p : DataFrames]
  <2>1. f.p \in DataFrames /\ f.t = "DATA"
    BY <1>3
  <2>2. f.p.seq \in OtaSeqs
    BY <2>1 DEF DataFrames
  <2> QED
    BY <2>1, <2>2
<1>4. CASE f \in [t : {"VERIFY"}, p : [seq : OtaSeqs, crc : Images]]
  BY <1>4
<1>5. CASE f \in [t : {"COMMIT"}, p : [seq : OtaSeqs]]
  BY <1>5
<1> QED
  BY <1>2, <1>3, <1>4, <1>5 DEF DevFrames

(* The device takes only steps of Bootloader. *)
LEMMA DeviceSteps == ASSUME TInv, [TNext]_tvars PROVE [Next]_vars
<1>1. CASE GwStep \/ DevIgnores \/ UNCHANGED tvars
  <2>1. UNCHANGED vars
    BY <1>1 DEF GwStep, StartSession, WaitHello, HelloTimeout, CancelRequest, GwSend, GwSendFails,
       GwReceive, GwTimeout, DevIgnores, tvars
  <2> QED
    BY <2>1
<1>2. CASE DevBoot \/ DevApp \/ DevHello \/ DevIdleTimeout \/ DevReset
  BY <1>2 DEF DevBoot, DevApp, DevHello, DevIdleTimeout, DevReset, Next, OtaStep
<1>3. CASE DevReceive
  <2>0. toDev \in Seq(DevFrames) /\ toDev # <<>>
    BY <1>3 DEF TInv, LineOK, DevReceive
  <2>1. PICK f \in DevFrames : f = Head(toDev)
    BY <2>0
  <2>2. \/ f.t = "PREPARE" /\ DevPrepare(f.p)
        \/ f.t = "DATA" /\ DevData(f.p)
        \/ f.t = "VERIFY" /\ DevVerify(f.p)
        \/ f.t = "COMMIT" /\ DevCommit(f.p)
    BY <1>3, <2>1 DEF DevReceive
  <2>3. CASE f.t = "PREPARE" /\ DevPrepare(f.p)
    <3>1. f.p \in Offers
      BY <2>3, DevFrameCases, PrepareAssumption
    <3> QED
      BY <2>3, <3>1 DEF DevPrepare, Next, OtaStep
  <2>4. CASE f.t = "DATA" /\ DevData(f.p)
    <3>1. f.p \in DataFrames
      BY <2>4, DevFrameCases
    <3>2. HandleData(f.p) \/ UNCHANGED vars
      BY <2>4 DEF DevData
    <3> QED
      BY <3>1, <3>2 DEF Next, OtaStep
  <2>5. CASE f.t = "VERIFY" /\ DevVerify(f.p)
    <3>1. f.p \in [seq : OtaSeqs, crc : Images]
      BY <2>5, DevFrameCases
    <3>2. f.p = [seq |-> f.p.seq, crc |-> f.p.crc] /\ f.p.seq \in OtaSeqs /\ f.p.crc \in Images
      BY <3>1
    <3>3. HandleVerify(f.p) \/ UNCHANGED vars
      BY <2>5 DEF DevVerify
    <3> QED
      BY <3>2, <3>3 DEF Next, OtaStep
  <2>6. CASE f.t = "COMMIT" /\ DevCommit(f.p)
    <3>1. f.p \in [seq : OtaSeqs]
      BY <2>6, DevFrameCases
    <3>2. f.p = [seq |-> f.p.seq] /\ f.p.seq \in OtaSeqs
      BY <3>1
    <3>3. HandleCommit(f.p) \/ UNCHANGED vars
      BY <2>6 DEF DevCommit
    <3> QED
      BY <3>2, <3>3 DEF Next, OtaStep
  <2> QED
    BY <2>2, <2>3, <2>4, <2>5, <2>6
<1> QED
  BY <1>1, <1>2, <1>3 DEF TNext, DevStep

(* What the device answers. *)
LEMMA ReplyTypes ==
  /\ Hello \in GwFrames
  /\ \A q \in OtaSeqs : Ack(q) \in GwFrames /\ Nack(q) \in GwFrames
  /\ 0 \in OtaSeqs
BY OtaSeqAssumption, SMT DEF GwFrames, Ack, Nack, OtaSeqs

Replies(f) == {Ack(f.p.seq), Nack(f.p.seq), Nack(0)}

LEMMA Reception ==
  ASSUME DevReceive, toDev \in Seq(DevFrames)
  PROVE  /\ toDev # <<>> /\ toDev' = Tail(toDev)
         /\ toGw' = toGw \/ \E r \in Replies(Head(toDev)) : toGw' \in Sent(toGw, r)
<1>1. toDev # <<>>
  BY DEF DevReceive
<1>2. PICK f : f = Head(toDev)
  OBVIOUS
<1>3. \/ f.t = "PREPARE" /\ DevPrepare(f.p)
      \/ f.t = "DATA" /\ DevData(f.p)
      \/ f.t = "VERIFY" /\ DevVerify(f.p)
      \/ f.t = "COMMIT" /\ DevCommit(f.p)
  BY <1>2 DEF DevReceive
<1>4. CASE DevPrepare(f.p)
  BY <1>1, <1>2, <1>4 DEF DevPrepare, DevReply, Replies
<1>5. CASE DevData(f.p)
  BY <1>1, <1>2, <1>5 DEF DevData, DevReply, Replies
<1>6. CASE DevVerify(f.p)
  BY <1>1, <1>2, <1>6 DEF DevVerify, DevReply, Replies
<1>7. CASE DevCommit(f.p)
  BY <1>1, <1>2, <1>7 DEF DevCommit, DevReply, Replies
<1> QED
  BY <1>3, <1>4, <1>5, <1>6, <1>7

LEMMA LineKept == ASSUME TInv, [TNext]_tvars PROVE LineOK'
<1>0. toDev \in Seq(DevFrames) /\ toGw \in Seq(GwFrames)
  BY DEF TInv, LineOK
<1> SUFFICES toDev' \in Seq(DevFrames) /\ toGw' \in Seq(GwFrames)
  BY DEF LineOK
<1>1. CASE \E o \in Catalogue : StartSession(o)
  <2>1. PICK k \in 0..Len(toGw) : toGw' = SubSeq(toGw, k + 1, Len(toGw))
    BY <1>1 DEF StartSession
  <2>2. toGw' \in Seq(GwFrames)
    BY <2>1, <1>0
  <2> QED
    BY <1>0, <1>1, <2>2 DEF StartSession
<1>2. CASE WaitHello \/ GwReceive
  BY <1>0, <1>2, HeadType DEF WaitHello, GwReceive
<1>3. CASE HelloTimeout \/ CancelRequest \/ GwSendFails \/ GwTimeout \/ DevApp \/ DevIdleTimeout
           \/ DevReset \/ UNCHANGED tvars
  BY <1>0, <1>3 DEF HelloTimeout, CancelRequest, GwSendFails, GwTimeout, DevApp, DevIdleTimeout,
     DevReset, line, tvars
<1>4. CASE GwSend
  <2>1. Frame \in DevFrames
    BY <1>4, FrameFields DEF GwSend, TInv
  <2> QED
    BY <1>0, <1>4, <2>1, SentType DEF GwSend
<1>5. CASE DevBoot
  <2>1. ctx.expected \in OtaSeqs
    BY DEF TInv, IInv, TypeOK, Contexts
  <2>2. toGw' \in Sent(toGw, Hello) \/ toGw' \in Sent(toGw, Ack(ctx.expected)) \/ toGw' = toGw
    BY <1>5 DEF DevBoot
  <2> QED
    BY <1>0, <1>5, <2>1, <2>2, ReplyTypes, SentType DEF DevBoot
<1>6. CASE DevHello
  <2>1. toGw' = <<Hello>> /\ toDev' = toDev
    BY <1>6 DEF DevHello
  <2> QED
    BY <1>0, <2>1, ReplyTypes
<1>7. CASE DevReceive
  <2>1. /\ toDev # <<>> /\ toDev' = Tail(toDev)
        /\ toGw' = toGw \/ \E r \in Replies(Head(toDev)) : toGw' \in Sent(toGw, r)
    BY <1>0, <1>7, Reception
  <2>2. Head(toDev) \in DevFrames /\ Tail(toDev) \in Seq(DevFrames)
    BY <1>0, <2>1, HeadType
  <2>3. \A r \in Replies(Head(toDev)) : r \in GwFrames
    BY <2>2, DevFrameCases, ReplyTypes DEF Replies
  <2> QED
    BY <1>0, <2>1, <2>2, <2>3, SentType
<1>8. CASE DevIgnores
  BY <1>0, <1>8, HeadType DEF DevIgnores
<1> QED
  BY <1>1, <1>2, <1>3, <1>4, <1>5, <1>6, <1>7, <1>8 DEF TNext, GwStep, DevStep

LEMMA CacheTyped == ASSUME TInv, [TNext]_tvars PROVE ackCache' \in [OtaSeqs -> Answers]
<1>1. CASE GwReceive
  <2>1. PICK f \in GwFrames : f = Head(toGw)
    BY <1>1, HeadType DEF GwReceive, TInv, LineOK
  <2>2. ackCache' = ackCache \/ (f.t # "HELLO" /\ ackCache' = [ackCache EXCEPT ![f.seq] = f.t])
    BY <1>1, <2>1 DEF GwReceive
  <2>3. f.t # "HELLO" => f.t \in Answers
    BY <2>1 DEF GwFrames, Hello, Answers
  <2> QED
    BY <2>2, <2>3 DEF TInv
<1>2. CASE GwSend
  BY <1>2 DEF GwSend, TInv, Answers
<1>3. CASE ~GwReceive /\ ~GwSend
  <2>1. ackCache' = ackCache
    BY <1>3 DEF TNext, GwStep, DevStep, StartSession, WaitHello, HelloTimeout, CancelRequest,
       GwSendFails, GwTimeout, DevIgnores, DevBoot, DevApp, DevHello, DevReceive,
       DevIdleTimeout, DevReset, gwVars, tvars
  <2> QED
    BY <2>1 DEF TInv
<1> QED
  BY <1>1, <1>2, <1>3

LEMMA TInvKept == ASSUME TInv, [TNext]_tvars PROVE TInv'
<1>1. IInv'
  BY DeviceSteps, StepInv DEF TInv
<1>2. Counted'
  BY CountedKept DEF TInv
<1> QED
  BY <1>1, <1>2, LineKept, CacheTyped DEF TInv

LEMMA TInvInit == TInit => TInv
<1> SUFFICES ASSUME TInit PROVE TInv
  OBVIOUS
<1>1. IInv
  BY InitInv DEF TInit
<1>2. LineOK
  BY DEF TInit, LineOK
<1>3. ackCache \in [OtaSeqs -> Answers]
  BY DEF TInit, Answers
<1> QED
  BY <1>1, <1>2, <1>3, CountedInit DEF TInv

(* The frames on the line stay frames the two ends understand, and the     *)
(* session's sequence number says which exchange it is in.                 *)
THEOREM TInvariant == TSpec => []TInv
BY TInvInit, TInvKept, PTL DEF TSpec

(* bl_ota_loop driven by Stm32OtaAdapter::run over a lossy line takes only *)
(* steps of Bootloader: what that module promises of any frames holds of   *)
(* the frames of this gateway.                                             *)
THEOREM DrivesBootloader == TSpec => Spec
<1>1. TInit => Init
  BY DEF TInit
<1> QED
  BY <1>1, TInvariant, DeviceSteps, PTL DEF TSpec, Spec

(* Whatever bl_handle_commit was made to store, by this gateway, with lost *)
(* and stale frames and resets: the device runs complete images only, and  *)
(* a confirmed one can always be started.                                  *)
THEOREM DeviceStaysSafe == TSpec => [](RunningImageIntact /\ ConfirmedBootable)
BY DrivesBootloader, RunningIntact, AlwaysBootable, PTL

(***************************************************************************)
(* The inductive invariant                                                 *)
(***************************************************************************)

(* The sequence number of the VERIFY of the session under way, or of the   *)
(* one that ended last.                                                    *)
VSeq == Size[gw.fw.img] + 2

(* The first k frames on their way to the device write nothing. *)
Calm(k) == \A i \in 1..k : toDev[i].t \in {"VERIFY", "COMMIT"}

(* What OTA_VERIFY checks. *)
Sound ==
  /\ CrcMatches(slots[ctx.target], ctx.size, ctx.crc)
  /\ VectorValidForSlot(slots[ctx.target], ctx.target)
Authorised == ctx.active => Sound

(* An acknowledgement of frame q of this session, not taken yet. *)
FreshAck(q) ==
  \/ \E i \in 1..Len(toGw) : i > oldGw /\ toGw[i] = Ack(q)
  \/ ackCache[q] = "ack" /\ q \notin oldCached

HTypes ==
  /\ oldDev \in 0..Len(toDev) /\ oldGw \in 0..Len(toGw)
  /\ misled \in BOOLEAN /\ oldCommit \in BOOLEAN

(* The frames of this session are on the line in the order of their        *)
(* numbers, which tell VERIFY and COMMIT from the others.                  *)
Ordered ==
  \A i \in 1..Len(toDev) : i > oldDev =>
    /\ toDev[i].t = "VERIFY" <=> toDev[i].p.seq = VSeq
    /\ toDev[i].t = "COMMIT" <=> toDev[i].p.seq = VSeq + 1
    /\ toDev[i].p.seq <= VSeq + 1
    /\ gw.phase # "idle" => toDev[i].p.seq <= gw.seq
    /\ \A j \in 1..i : j > oldDev => toDev[j].p.seq <= toDev[i].p.seq

(* A COMMIT of any session finds the image verified, or no OTA session. *)
CommitsBehind ==
  \A i \in 1..Len(toDev) : toDev[i].t = "COMMIT" => Calm(i) /\ Authorised

(* Once the VERIFY of this session was acknowledged, so will its COMMIT. *)
Acked ==
  FreshAck(VSeq) =>
    Calm(Len(toDev)) /\ Authorised /\ (gw.phase # "idle" => gw.seq >= VSeq)
Committing == gw.phase = "commit" => Calm(Len(toDev)) /\ Authorised

OwnCommit ==
  pc = "commit" /\ commit.ret = "ack" /\ ~oldCommit => ctx.expected = VSeq + 1

Follows ==
  Ordered /\ CommitsBehind /\ Acked /\ Committing /\ CommitsOnlyVerified /\ OwnCommit

HInv == TInv /\ HTypes /\ (misled \/ Follows)

LEMMA PhaseBySeq ==
  ASSUME Counted, InExchange
  PROVE  /\ gw.phase = "verify" <=> gw.seq = VSeq
         /\ gw.phase = "commit" <=> gw.seq = VSeq + 1
         /\ gw.seq <= VSeq + 1
         /\ gw.seq \in Nat /\ VSeq \in Nat /\ VSeq >= 3
<1>1. gw.seq = SeqOf(gw) /\ (gw.phase = "data" => gw.n \in 1..Size[gw.fw.img])
  BY DEF Counted, SessionOK
<1>2. Size[gw.fw.img] \in Nat \ {0}
  BY SeqRange
<1> QED
  BY <1>1, <1>2, SMT DEF SeqOf, VSeq, InExchange

LEMMA VSeqType == ASSUME Counted PROVE VSeq \in OtaSeqs /\ VSeq \in Nat /\ VSeq >= 3
BY SeqRange, SMT DEF VSeq

(***************************************************************************)
(* Steps of the gateway inside a session                                   *)
(***************************************************************************)
Later ==
  /\ gw'.fw = gw.fw
  /\ gw'.phase # "idle" => gw.phase # "idle" /\ gw.seq <= gw'.seq
  /\ gw'.phase = "commit" => gw.phase = "commit" \/ (FreshAck(VSeq) /\ gw.phase = "verify")

LEMMA GatewayFollows ==
  ASSUME TInv, HTypes, Follows, TInv', Later, UNCHANGED <<vars, oldDev, oldCommit>>,
         toDev' = toDev \/ (InExchange /\ toDev' = Append(toDev, Frame)),
         FreshAck(VSeq)' => FreshAck(VSeq)
  PROVE  Follows'
<1>0. PICK L : L = Len(toDev)
  OBVIOUS
<1>1. VSeq' = VSeq /\ VSeq \in Nat
  BY VSeqType DEF Later, VSeq, TInv
<1>2. /\ L \in Nat /\ oldDev \in 0..L /\ gw.seq \in Nat /\ gw'.seq \in Nat
      /\ \A i \in 1..L : toDev[i].p.seq \in Nat
  <2>1. toDev \in Seq(DevFrames)
    BY DEF TInv, LineOK
  <2>2. \A i \in 1..L : toDev[i].p.seq \in OtaSeqs
    BY <1>0, <2>1, DevFrameCases
  <2>3. gw.seq \in Nat /\ gw'.seq \in Nat
    BY DEF TInv, Counted, SessionOK, States
  <2> QED
    BY <1>0, <2>1, <2>2, <2>3, OtaSeqAssumption, SMT DEF HTypes, OtaSeqs
<1>3. CASE toDev' = toDev
  <2>1. Ordered'
    BY <1>0, <1>1, <1>2, <1>3, SMT DEF Follows, Ordered, Later
  <2>2. CommitsBehind'
    BY <1>3 DEF Follows, CommitsBehind, Calm, Authorised, Sound, vars
  <2>3. Acked'
    BY <1>1, <1>2, <1>3, SMT DEF Follows, Acked, Calm, Authorised, Sound, vars, Later
  <2>4. Committing'
    BY <1>3 DEF Follows, Committing, Acked, Calm, Authorised, Sound, vars, Later
  <2>5. CommitsOnlyVerified' /\ OwnCommit'
    BY <1>1 DEF Follows, CommitsOnlyVerified, OwnCommit, vars
  <2> QED
    BY <2>1, <2>2, <2>3, <2>4, <2>5 DEF Follows
<1>4. CASE InExchange /\ toDev' = Append(toDev, Frame)
  <2>0. PICK f : f = Frame
    OBVIOUS
  <2>1. /\ f.p.seq = gw.seq
        /\ f.t = "VERIFY" <=> gw.phase = "verify"
        /\ f.t = "COMMIT" <=> gw.phase = "commit"
    BY <1>4, <2>0, FrameFields DEF TInv
  <2>2. /\ gw.phase = "verify" <=> gw.seq = VSeq
        /\ gw.phase = "commit" <=> gw.seq = VSeq + 1
        /\ gw.seq <= VSeq + 1
    BY <1>4, PhaseBySeq DEF TInv
  <2>3. gw.phase # "idle"
    BY <1>4 DEF InExchange
  <2>4. Len(toDev') = L + 1 /\ toDev'[L + 1] = f /\ \A i \in 1..L : toDev'[i] = toDev[i]
    BY <1>0, <1>4, <2>0 DEF TInv, LineOK
  <2>5. Ordered'
    <3> SUFFICES ASSUME NEW i \in 1..(L + 1), i > oldDev
                 PROVE  /\ toDev'[i].t = "VERIFY" <=> toDev'[i].p.seq = VSeq
                        /\ toDev'[i].t = "COMMIT" <=> toDev'[i].p.seq = VSeq + 1
                        /\ toDev'[i].p.seq <= VSeq + 1
                        /\ gw'.phase # "idle" => toDev'[i].p.seq <= gw'.seq
                        /\ \A j \in 1..i : j > oldDev => toDev'[j].p.seq <= toDev'[i].p.seq
      BY <1>1, <2>4 DEF Ordered
    <3>1. CASE i \in 1..L
      <4>1. \A j \in 1..i : j \in 1..L
        BY <1>2, <3>1, SMT
      <4> QED
        BY <1>0, <1>2, <2>3, <2>4, <3>1, <4>1, SMT DEF Follows, Ordered, Later
    <3>2. CASE i = L + 1
      <4>1. toDev'[i] = f
        BY <2>4, <3>2
      <4>2. \A j \in 1..i : j > oldDev => toDev'[j].p.seq <= gw.seq
        BY <1>0, <1>2, <2>1, <2>3, <2>4, <3>2, SMT DEF Follows, Ordered
      <4> QED
        BY <1>2, <2>1, <2>2, <4>1, <4>2, SMT DEF Later
    <3> QED
      BY <1>2, <3>1, <3>2, SMT
  <2>6. gw.seq >= VSeq => f.t \in {"VERIFY", "COMMIT"}
    BY <1>1, <1>2, <2>1, <2>2, SMT
  <2>7. ASSUME Calm(L), f.t \in {"VERIFY", "COMMIT"}
        PROVE  Calm(L + 1)'
    BY <1>2, <2>4, <2>7, SMT DEF Calm
  <2>8. Authorised' <=> Authorised
    BY DEF Authorised, Sound, vars
  <2>9. CommitsBehind'
    <3> SUFFICES ASSUME NEW i \in 1..(L + 1), toDev'[i].t = "COMMIT"
                 PROVE  Calm(i)' /\ Authorised
      BY <2>4, <2>8 DEF CommitsBehind
    <3>1. CASE i \in 1..L
      <4>1. Calm(i) /\ Authorised
        BY <1>0, <2>4, <3>1 DEF Follows, CommitsBehind
      <4>2. \A j \in 1..i : j \in 1..L
        BY <1>2, <3>1, SMT
      <4> QED
        BY <2>4, <4>1, <4>2 DEF Calm
    <3>2. CASE i = L + 1
      <4>1. f.t = "COMMIT" /\ gw.phase = "commit"
        BY <2>1, <2>4, <3>2
      <4> QED
        BY <1>0, <3>2, <4>1, <2>7 DEF Follows, Committing
    <3> QED
      BY <1>2, <3>1, <3>2, SMT
  <2>10. Acked'
    <3> SUFFICES ASSUME FreshAck(VSeq)'
                 PROVE  Calm(L + 1)' /\ Authorised /\ (gw'.phase # "idle" => gw'.seq >= VSeq)
      BY <1>1, <2>4, <2>8 DEF Acked
    <3>1. Calm(L) /\ Authorised /\ gw.seq >= VSeq
      BY <1>0, <2>3 DEF Follows, Acked
    <3> QED
      BY <1>1, <1>2, <3>1, <2>6, <2>7, SMT DEF Later
  <2>11. Committing'
    <3> SUFFICES ASSUME gw'.phase = "commit" PROVE Calm(L + 1)' /\ Authorised
      BY <2>4, <2>8 DEF Committing
    <3>1. Calm(L) /\ Authorised
      BY <1>0 DEF Later, Follows, Committing, Acked
    <3> QED
      BY <2>1, <2>7, <3>1 DEF Later
  <2>12. CommitsOnlyVerified' /\ OwnCommit'
    BY <1>1 DEF Follows, CommitsOnlyVerified, OwnCommit, vars
  <2> QED
    BY <2>5, <2>9, <2>10, <2>11, <2>12 DEF Follows
<1> QED
  BY <1>3, <1>4

(* The ways a session goes on or ends keep to the order. *)
LEMMA LaterMoves ==
  ASSUME Counted, SameExchange \/ Ended \/ Greeted \/ (InExchange /\ NextExchange /\
           (gw.phase = "verify" => FreshAck(VSeq)))
  PROVE  Later
<1>1. gw.seq \in Nat /\ (gw.phase = "hello" => gw.seq = 0)
  BY DEF Counted, SessionOK, States, SeqOf
<1>2. CASE SameExchange
  BY <1>1, <1>2, SMT DEF SameExchange, Later
<1>3. CASE Ended
  BY <1>3 DEF Ended, Later
<1>4. CASE Greeted
  BY <1>1, <1>4, SMT DEF Greeted, Later
<1>5. CASE InExchange /\ NextExchange /\ (gw.phase = "verify" => FreshAck(VSeq))
  <2>1. gw.seq <= gw'.seq /\ gw.phase # "idle"
    BY <1>1, <1>5, SMT DEF NextExchange, InExchange
  <2>2. gw'.phase = "commit" => gw.phase = "verify"
    BY <1>5 DEF NextExchange
  <2> QED
    BY <1>5, <2>1, <2>2 DEF Later, NextExchange
<1> QED
  BY <1>2, <1>3, <1>4, <1>5

LEMMA LineTypes ==
  ASSUME TInv, HTypes
  PROVE  /\ toDev \in Seq(DevFrames) /\ toGw \in Seq(GwFrames)
         /\ Len(toDev) \in Nat /\ Len(toGw) \in Nat /\ oldDev \in Nat /\ oldGw \in Nat
         /\ oldDev <= Len(toDev) /\ oldGw <= Len(toGw)
<1>1. toDev \in Seq(DevFrames) /\ toGw \in Seq(GwFrames)
  BY DEF TInv, LineOK
<1>2. Len(toDev) \in Nat /\ Len(toGw) \in Nat
  BY <1>1
<1> QED
  BY <1>1, <1>2, SMT DEF HTypes

LEMMA CatalogueSeq == \A o \in Catalogue : Size[o.img] + 2 \in OtaSeqs
<1> SUFFICES ASSUME NEW o \in Catalogue PROVE Size[o.img] + 2 \in OtaSeqs
  OBVIOUS
<1>1. o.img \in Images
  BY TransferAssumption
<1>2. Size[o.img] \in Nat \ {0} /\ Size[o.img] + 3 < OtaSeqMod /\ OtaSeqMod \in Nat
  BY <1>1, Sizes, TransferAssumption, OtaSeqAssumption
<1> QED
  BY <1>2, SMT DEF OtaSeqs

LEMMA StartFollows ==
  ASSUME TInv, TInv', HTypes, NEW o \in Catalogue, HStartSession(o),
         ~misled => Follows
  PROVE  HTypes' /\ (~misled' => Follows')
<1>1. /\ UNCHANGED <<vars, toDev, ackCache, misled>>
      /\ oldDev' = Len(toDev) /\ oldGw' = Len(toGw') /\ oldCommit' = TRUE
      /\ oldCached' = {q \in OtaSeqs : ackCache[q] # "none"}
      /\ gw'.phase = "hello"
  BY DEF HStartSession, StartSession, TInv, Counted, SessionOK, States
<1>2. Len(toDev) \in Nat /\ Len(toGw') \in Nat /\ toGw' \in Seq(GwFrames)
  <2>1. toGw' \in Seq(GwFrames)
    BY DEF TInv, LineOK
  <2> QED
    BY <2>1, LineTypes
<1>3. HTypes'
  BY <1>1, <1>2, SMT DEF HTypes
<1>4. ASSUME Follows PROVE Follows'
  <2>1. VSeq' \in OtaSeqs
    <3>1. gw'.fw \in Catalogue
      BY DEF TInv, Counted, SessionOK, States
    <3> QED
      BY <3>1, CatalogueSeq DEF VSeq
  <2>2. ~FreshAck(VSeq)'
    BY <1>1, <1>2, <2>1, SMT DEF FreshAck
  <2>3. Ordered'
    BY <1>1, <1>2, SMT DEF Ordered
  <2>4. CommitsBehind' /\ CommitsOnlyVerified'
    BY <1>1, <1>4 DEF Follows, CommitsBehind, CommitsOnlyVerified, Calm, Authorised, Sound, vars
  <2>5. Acked' /\ Committing' /\ OwnCommit'
    BY <1>1, <2>2 DEF Acked, Committing, OwnCommit
  <2> QED
    BY <2>3, <2>4, <2>5 DEF Follows
<1> QED
  BY <1>1, <1>3, <1>4

(* A frame is taken from the line to the gateway. *)
LEMMA TakenFromGw ==
  ASSUME TInv, HTypes, toGw # <<>>, toGw' = Tail(toGw), oldGw' = OneLess(oldGw)
  PROVE  /\ oldGw' \in 0..Len(toGw')
         /\ Head(toGw) \in GwFrames
         /\ \A q : (\E i \in 1..Len(toGw') : i > oldGw' /\ toGw'[i] = Ack(q))
                   => \E i \in 1..Len(toGw) : i > oldGw /\ toGw[i] = Ack(q)
         /\ oldGw = 0 => 1 \in 1..Len(toGw) /\ 1 > oldGw /\ Head(toGw) = toGw[1]
<1>1. /\ toGw \in Seq(GwFrames) /\ Len(toGw) \in Nat /\ oldGw \in Nat /\ oldGw <= Len(toGw)
      /\ Len(toGw) # 0
  BY LineTypes
<1>2. /\ Len(toGw') = Len(toGw) - 1 /\ Head(toGw) = toGw[1] /\ Head(toGw) \in GwFrames
      /\ \A i \in 1..Len(toGw') : toGw'[i] = toGw[i + 1]
  BY <1>1, HeadType
<1>3. oldGw' \in 0..Len(toGw')
  BY <1>1, <1>2, SMT DEF OneLess
<1>4. ASSUME NEW i \in 1..Len(toGw'), i > oldGw'
      PROVE  i + 1 \in 1..Len(toGw) /\ i + 1 > oldGw /\ toGw'[i] = toGw[i + 1]
  BY <1>1, <1>2, <1>4, SMT DEF OneLess
<1>5. oldGw = 0 => 1 \in 1..Len(toGw) /\ 1 > oldGw
  BY <1>1, SMT
<1> QED
  BY <1>2, <1>3, <1>4, <1>5

LEMMA WaitHelloFollows ==
  ASSUME TInv, TInv', HTypes, HWaitHello, ~misled => Follows
  PROVE  HTypes' /\ (~misled' => Follows')
<1>1. /\ UNCHANGED <<vars, toDev, ackCache, oldDev, oldCached, oldCommit, misled>>
      /\ toGw # <<>> /\ toGw' = Tail(toGw) /\ oldGw' = OneLess(oldGw)
      /\ gw.phase = "hello"
      /\ gw' = gw \/ gw' = [gw EXCEPT !.phase = "prepare", !.seq = 1, !.attempt = 1]
  BY DEF HWaitHello, WaitHello
<1>2. SameExchange \/ Greeted
  BY <1>1 DEF SameExchange, Greeted, TInv, Counted, SessionOK, States
<1>3. Later /\ VSeq' = VSeq
  BY <1>2, LaterMoves DEF TInv, Later, VSeq
<1>4. HTypes'
  BY <1>1, TakenFromGw DEF HTypes
<1>5. FreshAck(VSeq)' => FreshAck(VSeq)
  BY <1>1, <1>3, TakenFromGw DEF FreshAck
<1> QED
  BY <1>1, <1>3, <1>4, <1>5, GatewayFollows

(* A session ends or an attempt fails, on its own account. *)
LEMMA GatewayAloneFollows ==
  ASSUME TInv, TInv', HTypes, ~misled => Follows, UNCHANGED history,
         HelloTimeout \/ CancelRequest \/ GwSendFails \/ GwTimeout
  PROVE  HTypes' /\ (~misled' => Follows')
<1>1. UNCHANGED <<vars, toDev, toGw, ackCache, oldDev, oldGw, oldCached, oldCommit, misled>>
  BY DEF HelloTimeout, CancelRequest, GwSendFails, GwTimeout, line, history
<1>2. SameExchange \/ Ended
  <2>1. CASE HelloTimeout
    BY <2>1, FinishedFields DEF HelloTimeout, TInv, Counted
  <2>2. CASE CancelRequest
    BY <2>2 DEF CancelRequest, SameExchange, TInv, Counted, SessionOK, States
  <2>3. CASE GwSendFails \/ GwTimeout
    BY <2>3, FailingFields DEF GwSendFails, GwTimeout, TInv, Counted
  <2> QED
    BY <2>1, <2>2, <2>3
<1>3. Later /\ VSeq' = VSeq
  BY <1>2, LaterMoves DEF TInv, Later, VSeq
<1>4. HTypes'
  BY <1>1 DEF HTypes
<1>5. FreshAck(VSeq)' => FreshAck(VSeq)
  BY <1>1, <1>3 DEF FreshAck
<1> QED
  BY <1>1, <1>3, <1>4, <1>5, GatewayFollows

(* The cached answer to the frame just sent, if there is one, is taken. *)
LEMMA SendFollows ==
  ASSUME TInv, TInv', HTypes, ~misled => Follows, HGwSend
  PROVE  HTypes' /\ (~misled' => Follows')
<1>1. /\ UNCHANGED <<vars, toGw, oldDev, oldGw, oldCommit>>
      /\ InExchange /\ toDev' \in Sent(toDev, Frame)
      /\ misled' = (misled \/ (ackCache[gw.seq] = "ack" /\ gw.seq \in oldCached))
      /\ oldCached' = oldCached \ {gw.seq}
      /\ \/ gw' = [gw EXCEPT !.sent = TRUE] /\ ackCache' = ackCache /\ ackCache[gw.seq] = "none"
         \/ /\ ackCache[gw.seq] # "none" /\ gw' = Answered(ackCache[gw.seq])
            /\ ackCache' = [ackCache EXCEPT ![gw.seq] = "none"]
  BY DEF HGwSend, GwSend
<1>2. gw.seq \in OtaSeqs /\ VSeq \in OtaSeqs /\ ackCache \in [OtaSeqs -> Answers]
  BY SeqRange, VSeqType DEF TInv
<1>3. toDev' = toDev \/ toDev' = Append(toDev, Frame)
  BY <1>1 DEF Sent
<1>4. HTypes'
  <2>1. Len(toDev') = Len(toDev) \/ Len(toDev') = Len(toDev) + 1
    BY <1>3, LineTypes
  <2> QED
    BY <1>1, <2>1, LineTypes, SMT DEF HTypes
<1>5. ASSUME ~misled' PROVE Follows'
  <2>1. Follows /\ (ackCache[gw.seq] = "ack" => gw.seq \notin oldCached)
    BY <1>1, <1>5
  <2>2. ackCache[gw.seq] = "ack" => FreshAck(gw.seq)
    BY <2>1 DEF FreshAck
  <2>3. gw.phase = "verify" => gw.seq = VSeq
    BY <1>1, PhaseBySeq DEF TInv
  <2>4. SameExchange \/ Ended \/ (NextExchange /\ FreshAck(gw.seq))
    <3>1. CASE gw' = [gw EXCEPT !.sent = TRUE]
      BY <3>1 DEF SameExchange, TInv, Counted, SessionOK, States
    <3>2. CASE ackCache[gw.seq] # "none" /\ gw' = Answered(ackCache[gw.seq])
      <4>1. ackCache[gw.seq] \in {"ack", "nack"}
        BY <1>2, <3>2 DEF Answers
      <4> QED
        BY <1>1, <2>2, <3>2, <4>1, AnsweredFields DEF TInv, Counted
    <3> QED
      BY <1>1, <3>1, <3>2
  <2>5. Later /\ VSeq' = VSeq
    BY <1>1, <2>3, <2>4, LaterMoves DEF TInv, Later, VSeq
  <2>6. FreshAck(VSeq)' => FreshAck(VSeq)
    <3>1. ackCache'[VSeq] = "ack" => ackCache[VSeq] = "ack" /\ VSeq # gw.seq
      BY <1>1, <1>2
    <3> QED
      BY <1>1, <2>5, <3>1 DEF FreshAck
  <2> QED
    BY <1>1, <1>3, <2>1, <2>5, <2>6, GatewayFollows
<1> QED
  BY <1>4, <1>5

(* An answer is taken, or kept for later. *)
LEMMA ReceiveFollows ==
  ASSUME TInv, TInv', HTypes, ~misled => Follows, HGwReceive
  PROVE  HTypes' /\ (~misled' => Follows')
<1>0. PICK f \in GwFrames : f = Head(toGw)
  BY HeadType DEF TInv, LineOK, HGwReceive, GwReceive
<1>1. /\ UNCHANGED <<vars, toDev, oldDev, oldCommit>>
      /\ InExchange /\ toGw # <<>> /\ toGw' = Tail(toGw) /\ oldGw' = OneLess(oldGw)
      /\ misled' = (misled \/ (oldGw > 0 /\ f = Ack(gw.seq)))
      /\ \/ f.t = "HELLO" /\ UNCHANGED <<gw, ackCache, oldCached>>
         \/ f.t # "HELLO" /\ f.seq = gw.seq /\ gw' = Answered(f.t) /\ UNCHANGED <<ackCache, oldCached>>
         \/ /\ f.t # "HELLO" /\ f.seq # gw.seq /\ gw' = gw
            /\ ackCache' = [ackCache EXCEPT ![f.seq] = f.t]
            /\ oldCached' = IF oldGw > 0 THEN oldCached \cup {f.seq} ELSE oldCached \ {f.seq}
  BY <1>0 DEF HGwReceive, GwReceive
<1>2. f.t # "HELLO" => f.t \in {"ack", "nack"} /\ (f.t = "ack" => f = Ack(f.seq))
  BY DEF GwFrames, Hello, Ack
<1>3. HTypes'
  BY <1>1, TakenFromGw DEF HTypes
<1>4. oldGw \in Nat /\ VSeq \in OtaSeqs /\ ackCache \in [OtaSeqs -> Answers]
  BY LineTypes, VSeqType DEF TInv
<1>5. ~(oldGw > 0) /\ f.t = "ack" => FreshAck(f.seq)
  <2>1. ~(oldGw > 0) => oldGw = 0
    BY <1>4, SMT
  <2> QED
    BY <1>0, <1>1, <1>2, <2>1, TakenFromGw DEF FreshAck
<1>6. ASSUME ~misled' PROVE Follows'
  <2>1. Follows /\ (f = Ack(gw.seq) => ~(oldGw > 0))
    BY <1>1, <1>6
  <2>2. SameExchange \/ Ended \/ (NextExchange /\ FreshAck(gw.seq))
    <3>1. CASE gw' = gw
      BY <3>1 DEF SameExchange
    <3>2. CASE f.t # "HELLO" /\ f.seq = gw.seq /\ gw' = Answered(f.t)
      <4>1. f.t \in {"ack", "nack"} /\ (f.t = "ack" => FreshAck(gw.seq))
        BY <1>2, <1>5, <2>1, <3>2
      <4> QED
        BY <1>1, <3>2, <4>1, AnsweredFields DEF TInv, Counted
    <3> QED
      BY <1>1, <3>1, <3>2
  <2>3. gw.phase = "verify" => gw.seq = VSeq
    BY <1>1, PhaseBySeq DEF TInv
  <2>4. Later /\ VSeq' = VSeq
    BY <1>1, <2>2, <2>3, LaterMoves DEF TInv, Later, VSeq
  <2>5. FreshAck(VSeq)' => FreshAck(VSeq)
    <3>1. ASSUME \E i \in 1..Len(toGw') : i > oldGw' /\ toGw'[i] = Ack(VSeq)
          PROVE  FreshAck(VSeq)
      BY <1>1, <3>1, TakenFromGw DEF FreshAck
    <3>2. ASSUME ackCache'[VSeq] = "ack", VSeq \notin oldCached'
          PROVE  FreshAck(VSeq)
      <4>1. CASE ackCache' = ackCache /\ oldCached' = oldCached
        BY <3>2, <4>1 DEF FreshAck
      <4>2. CASE /\ ackCache' = [ackCache EXCEPT ![f.seq] = f.t]
                 /\ oldCached' = IF oldGw > 0 THEN oldCached \cup {f.seq} ELSE oldCached \ {f.seq}
        <5>1. CASE f.seq = VSeq
          <6>1. f.t = "ack" /\ ~(oldGw > 0)
            BY <1>4, <3>2, <4>2, <5>1
          <6> QED
            BY <1>5, <5>1, <6>1
        <5>2. CASE f.seq # VSeq
          BY <1>4, <3>2, <4>2, <5>2 DEF FreshAck
        <5> QED
          BY <5>1, <5>2
      <4> QED
        BY <1>1, <4>1, <4>2
    <3>3. FreshAck(VSeq)' <=> \/ \E i \in 1..Len(toGw') : i > oldGw' /\ toGw'[i] = Ack(VSeq)
                              \/ ackCache'[VSeq] = "ack" /\ VSeq \notin oldCached'
      BY <2>4 DEF FreshAck, Ack
    <3> QED
      BY <3>1, <3>2, <3>3
  <2> QED
    BY <1>1, <2>1, <2>4, <2>5, GatewayFollows
<1> QED
  BY <1>3, <1>6

(***************************************************************************)
(* Steps of the device                                                     *)
(***************************************************************************)

(* A frame is taken from the line to the device. *)
LEMMA TakenFromDev ==
  ASSUME TInv, HTypes, toDev # <<>>, toDev' = Tail(toDev), oldDev' = OneLess(oldDev), UNCHANGED gw
  PROVE  /\ oldDev' \in 0..Len(toDev')
         /\ Len(toDev) \in Nat \ {0} /\ Len(toDev') = Len(toDev) - 1
         /\ Head(toDev) \in DevFrames /\ Head(toDev) = toDev[1]
         /\ \A i \in 1..Len(toDev') : i + 1 \in 1..Len(toDev) /\ toDev'[i] = toDev[i + 1]
         /\ Ordered => Ordered'
         /\ \A k \in 1..Len(toDev) : Calm(k) => Head(toDev).t \in {"VERIFY", "COMMIT"}
         /\ \A k \in 1..Len(toDev') : Calm(k + 1) => Calm(k)'
         /\ Calm(Len(toDev)) => \A i \in 1..Len(toDev') : toDev'[i].t \in {"VERIFY", "COMMIT"}
<1>1. /\ toDev \in Seq(DevFrames) /\ Len(toDev) \in Nat /\ oldDev \in Nat /\ oldDev <= Len(toDev)
      /\ Len(toDev) # 0
  BY LineTypes
<1>2. /\ Len(toDev') = Len(toDev) - 1 /\ Head(toDev) = toDev[1] /\ Head(toDev) \in DevFrames
      /\ \A i \in 1..Len(toDev') : toDev'[i] = toDev[i + 1]
  BY <1>1, HeadType
<1>3. oldDev' \in 0..Len(toDev')
  BY <1>1, <1>2, SMT DEF OneLess
<1>4. \A i \in 1..Len(toDev') : i + 1 \in 1..Len(toDev) /\ (i > oldDev' => i + 1 > oldDev)
  BY <1>1, <1>2, SMT DEF OneLess
<1>5. ASSUME Ordered PROVE Ordered'
  <2>1. VSeq' = VSeq
    BY DEF VSeq
  <2> SUFFICES ASSUME NEW i \in 1..Len(toDev'), i > oldDev'
               PROVE  /\ toDev'[i].t = "VERIFY" <=> toDev'[i].p.seq = VSeq
                      /\ toDev'[i].t = "COMMIT" <=> toDev'[i].p.seq = VSeq + 1
                      /\ toDev'[i].p.seq <= VSeq + 1
                      /\ gw.phase # "idle" => toDev'[i].p.seq <= gw.seq
                      /\ \A j \in 1..i : j > oldDev' => toDev'[j].p.seq <= toDev'[i].p.seq
    BY <2>1 DEF Ordered
  <2>2. i + 1 \in 1..Len(toDev) /\ i + 1 > oldDev /\ toDev'[i] = toDev[i + 1]
    BY <1>2, <1>4
  <2>3. \A j \in 1..i : j > oldDev' =>
          j + 1 \in 1..(i + 1) /\ j + 1 > oldDev /\ toDev'[j] = toDev[j + 1]
    BY <1>1, <1>2, SMT DEF OneLess
  <2> QED
    BY <1>5, <2>2, <2>3 DEF Ordered
<1>6. \A k \in 1..Len(toDev) : Calm(k) => Head(toDev).t \in {"VERIFY", "COMMIT"}
  BY <1>1, <1>2, SMT DEF Calm
<1>7. ASSUME NEW k \in 1..Len(toDev'), Calm(k + 1) PROVE Calm(k)'
  <2>1. \A i \in 1..k : i \in 1..Len(toDev') /\ i + 1 \in 1..(k + 1)
    BY <1>1, <1>2, SMT
  <2> QED
    BY <1>2, <1>7, <2>1 DEF Calm
<1>8. Calm(Len(toDev)) => \A i \in 1..Len(toDev') : toDev'[i].t \in {"VERIFY", "COMMIT"}
  BY <1>2, <1>4 DEF Calm
<1> QED
  BY <1>1, <1>2, <1>3, <1>4, <1>5, <1>6, <1>7, <1>8

(* A step of the device that takes no frame leaves the image alone, and    *)
(* the OTA session or drops it.                                            *)
Untouched ==
  /\ UNCHANGED <<slots, gw, ackCache, oldDev, oldCached, oldCommit, misled>>
  /\ ctx' = ctx \/ ctx' = ResetCtx
  /\ pc' = "commit" /\ commit'.ret = "ack" => pc = "commit" /\ commit.ret = "ack" /\ ctx' = ctx

LEMMA UntouchedFollows ==
  ASSUME TInv, HTypes, Follows, Untouched, toDev' = toDev,
         FreshAck(VSeq)' => FreshAck(VSeq)
  PROVE  Follows'
<1>1. VSeq' = VSeq
  BY DEF Untouched, VSeq
<1>2. Authorised => Authorised'
  BY DEF Untouched, Authorised, Sound, ResetCtx
<1>3. Ordered'
  BY <1>1 DEF Untouched, Follows, Ordered
<1>4. CommitsBehind' /\ Acked' /\ Committing'
  BY <1>1, <1>2 DEF Untouched, Follows, CommitsBehind, Acked, Committing, Calm
<1>5. CommitsOnlyVerified' /\ OwnCommit'
  BY <1>1 DEF Untouched, Follows, CommitsOnlyVerified, OwnCommit
<1> QED
  BY <1>3, <1>4, <1>5 DEF Follows

(* The bootloader and the application outside bl_handle_commit. *)
LEMMA BootUntouched ==
  ASSUME BootStep \/ AppStep \/ IdleTimeout \/ Reset
  PROVE  /\ slots' = slots
         /\ ctx' = ctx \/ ctx' = ResetCtx
         /\ pc' = "commit" /\ commit'.ret = "ack" => pc = "commit" /\ commit.ret = "ack" /\ ctx' = ctx
<1>1. CASE PowerOn
  BY <1>1 DEF PowerOn, flash
<1>2. CASE ScanStep
  BY <1>2 DEF ScanStep, flash
<1>3. CASE LoadMetadata
  BY <1>3 DEF LoadMetadata, StartCommit, flash
<1>4. CASE ConsumeForceFlag
  BY <1>4 DEF ConsumeForceFlag, flash
<1>5. CASE SelectSlot
  BY <1>5 DEF SelectSlot, StartCommit, flash
<1>6. CASE Fallback
  BY <1>6 DEF Fallback, JumpTo, flash
<1>7. CASE CommitWrite \/ CommitErase
  <2>1. ASSUME NEW ok, AfterCommit(ok)
        PROVE  (ctx' = ctx \/ ctx' = ResetCtx) /\ pc' # "commit"
    BY <2>1 DEF AfterCommit, JumpTo, RamLost
  <2> QED
    BY <1>7, <2>1 DEF CommitWrite, CommitErase
<1>8. CASE AppStartConfirm
  BY <1>8 DEF AppStartConfirm, flash
<1>9. CASE AppConfirm
  BY <1>9 DEF AppConfirm, StartCommit, flash
<1>10. CASE AppRebootToBootloader \/ Reset
  BY <1>10 DEF AppRebootToBootloader, Reset, RamLost, flash
<1>11. CASE IdleTimeout
  BY <1>11 DEF IdleTimeout, flash
<1> QED
  BY <1>1, <1>2, <1>3, <1>4, <1>5, <1>6, <1>7, <1>8, <1>9, <1>10, <1>11 DEF BootStep, AppStep

(* A frame is added to the line to the gateway. *)
LEMMA AddedToGw ==
  ASSUME TInv, HTypes, NEW r, toGw' = toGw \/ toGw' = Append(toGw, r),
         oldGw' = oldGw \/ oldGw' = Len(toGw')
  PROVE  /\ oldGw' \in 0..Len(toGw')
         /\ \A q : (\E i \in 1..Len(toGw') : i > oldGw' /\ toGw'[i] = Ack(q))
                   => \/ \E i \in 1..Len(toGw) : i > oldGw /\ toGw[i] = Ack(q)
                      \/ r = Ack(q) /\ oldGw' = oldGw /\ oldGw' # Len(toGw')
<1>1. toGw \in Seq(GwFrames) /\ Len(toGw) \in Nat /\ oldGw \in Nat /\ oldGw <= Len(toGw)
  BY LineTypes
<1>2. \/ Len(toGw') = Len(toGw) /\ toGw' = toGw
      \/ /\ Len(toGw') = Len(toGw) + 1 /\ toGw'[Len(toGw) + 1] = r
         /\ \A i \in 1..Len(toGw) : toGw'[i] = toGw[i]
  BY <1>1
<1>3. oldGw' \in 0..Len(toGw')
  BY <1>1, <1>2, SMT
<1>4. ASSUME NEW q, NEW i \in 1..Len(toGw'), i > oldGw', toGw'[i] = Ack(q)
      PROVE  \/ \E j \in 1..Len(toGw) : j > oldGw /\ toGw[j] = Ack(q)
             \/ r = Ack(q) /\ oldGw' = oldGw /\ oldGw' # Len(toGw')
  <2>1. oldGw' = oldGw /\ oldGw' # Len(toGw')
    BY <1>1, <1>2, <1>4, SMT
  <2>2. i \in 1..Len(toGw) \/ i = Len(toGw) + 1
    BY <1>1, <1>2, SMT
  <2>3. CASE i \in 1..Len(toGw)
    BY <1>2, <1>4, <2>1, <2>3
  <2>4. CASE i = Len(toGw) + 1 /\ i \notin 1..Len(toGw)
    BY <1>2, <1>4, <2>1, <2>4
  <2> QED
    BY <2>2, <2>3, <2>4
<1> QED
  BY <1>3, <1>4

(* The device's own steps: BOOT_HELLO, the answer to COMMIT, or silence. *)
LEMMA BootFollows ==
  ASSUME TInv, HTypes, ~misled => Follows, HDevBoot
  PROVE  HTypes' /\ (~misled' => Follows')
<1> DEFINE acked == pc = "commit" /\ commit.ret = "ack"
<1>1. /\ UNCHANGED <<toDev, gw, ackCache, oldDev, oldCached, oldCommit, misled>>
      /\ BootStep
      /\ oldGw' = IF acked /\ oldCommit THEN Len(toGw') ELSE oldGw
      /\ \/ toGw' \in Sent(toGw, Hello)
         \/ acked /\ toGw' \in Sent(toGw, Ack(ctx.expected))
         \/ toGw' = toGw
  BY DEF HDevBoot, DevBoot
<1>2. Untouched
  BY <1>1, BootUntouched DEF Untouched
<1>3. PICK r : /\ toGw' = toGw \/ toGw' = Append(toGw, r)
               /\ r = Hello \/ (r = Ack(ctx.expected) /\ acked)
  BY <1>1 DEF Sent
<1>4. oldGw' = oldGw \/ oldGw' = Len(toGw')
  BY <1>1
<1>5. oldGw' \in 0..Len(toGw')
  BY <1>3, <1>4, AddedToGw
<1>6. HTypes'
  BY <1>1, <1>5 DEF HTypes
<1>7. ASSUME Follows PROVE FreshAck(VSeq)' => FreshAck(VSeq)
  <2>1. VSeq' = VSeq /\ VSeq \in Nat
    BY <1>1, VSeqType DEF VSeq, TInv
  <2>2. ~(r = Ack(VSeq) /\ oldGw' = oldGw /\ oldGw' # Len(toGw'))
    <3> SUFFICES ASSUME r = Ack(VSeq), oldGw' # Len(toGw') PROVE FALSE
      OBVIOUS
    <3>1. r # Hello
      BY DEF Ack, Hello
    <3>2. acked /\ ctx.expected = VSeq
      BY <1>3, <3>1 DEF Ack
    <3>3. ~oldCommit
      BY <1>1, <3>2, <1>6 DEF HTypes
    <3>4. ctx.expected = VSeq + 1
      BY <1>7, <3>2, <3>3 DEF Follows, OwnCommit
    <3> QED
      BY <2>1, <3>2, <3>4, SMT
  <2>3. (\E i \in 1..Len(toGw') : i > oldGw' /\ toGw'[i] = Ack(VSeq))
          => \E i \in 1..Len(toGw) : i > oldGw /\ toGw[i] = Ack(VSeq)
    BY <1>3, <1>4, <2>2, AddedToGw
  <2>4. FreshAck(VSeq)' <=> \/ \E i \in 1..Len(toGw') : i > oldGw' /\ toGw'[i] = Ack(VSeq)
                            \/ ackCache'[VSeq] = "ack" /\ VSeq \notin oldCached'
    BY <2>1 DEF FreshAck, Ack
  <2> QED
    BY <1>1, <2>3, <2>4 DEF FreshAck
<1> QED
  BY <1>1, <1>2, <1>6, <1>7, UntouchedFollows

LEMMA AloneFollows ==
  ASSUME TInv, HTypes, ~misled => Follows, UNCHANGED history,
         DevApp \/ DevHello \/ DevIdleTimeout \/ DevReset
  PROVE  HTypes' /\ (~misled' => Follows')
<1>1. /\ UNCHANGED <<toDev, gw, ackCache, oldDev, oldGw, oldCached, oldCommit, misled>>
      /\ toGw' = toGw \/ (toGw = <<>> /\ toGw' = <<Hello>>)
      /\ AppStep \/ IdleTimeout \/ Reset \/ UNCHANGED vars
  BY DEF history, DevApp, DevHello, DevIdleTimeout, DevReset, line, gwVars
<1>2. Untouched
  <2>1. CASE UNCHANGED vars
    BY <1>1, <2>1 DEF Untouched, vars
  <2>2. CASE AppStep \/ IdleTimeout \/ Reset
    BY <1>1, <2>2, BootUntouched DEF Untouched
  <2> QED
    BY <1>1, <2>1, <2>2
<1>3. toGw' = toGw \/ toGw' = Append(toGw, Hello)
  <2>1. Append(<<>>, Hello) = <<Hello>>
    OBVIOUS
  <2> QED
    BY <1>1, <2>1
<1>4. oldGw' \in 0..Len(toGw')
  BY <1>1, <1>3, AddedToGw
<1>5. HTypes'
  BY <1>1, <1>4 DEF HTypes
<1>6. FreshAck(VSeq)' => FreshAck(VSeq)
  <2>1. VSeq' = VSeq /\ Hello # Ack(VSeq)
    BY <1>1 DEF VSeq, Hello, Ack
  <2>2. (\E i \in 1..Len(toGw') : i > oldGw' /\ toGw'[i] = Ack(VSeq))
          => \E i \in 1..Len(toGw) : i > oldGw /\ toGw[i] = Ack(VSeq)
    BY <1>1, <1>3, <2>1, AddedToGw
  <2>3. FreshAck(VSeq)' <=> \/ \E i \in 1..Len(toGw') : i > oldGw' /\ toGw'[i] = Ack(VSeq)
                            \/ ackCache'[VSeq] = "ack" /\ VSeq \notin oldCached'
    BY <2>1 DEF FreshAck, Ack
  <2> QED
    BY <1>1, <2>2, <2>3 DEF FreshAck
<1> QED
  BY <1>1, <1>2, <1>5, <1>6, UntouchedFollows

(* A device outside its OTA loop. *)
LEMMA IgnoresFollows ==
  ASSUME TInv, HTypes, ~misled => Follows, HDevIgnores
  PROVE  HTypes' /\ (~misled' => Follows')
<1>1. /\ UNCHANGED <<vars, gw, toGw, ackCache, oldGw, oldCached, oldCommit, misled>>
      /\ toDev # <<>> /\ toDev' = Tail(toDev) /\ oldDev' = OneLess(oldDev)
  BY DEF HDevIgnores, DevIgnores, gwVars
<1>2. HTypes'
  BY <1>1, TakenFromDev DEF HTypes
<1>3. ASSUME Follows PROVE Follows'
  <2>1. VSeq' = VSeq /\ (FreshAck(VSeq)' => FreshAck(VSeq)) /\ (Authorised' <=> Authorised)
    BY <1>1 DEF VSeq, FreshAck, Authorised, Sound, vars
  <2>2. Ordered'
    BY <1>1, <1>3, TakenFromDev DEF Follows
  <2>3. CommitsBehind'
    BY <1>1, <1>3, <2>1, TakenFromDev DEF Follows, CommitsBehind
  <2>5. Acked' /\ Committing'
    <3>1. Calm(Len(toDev)) => Calm(Len(toDev))'
      BY <1>1, TakenFromDev DEF Calm
    <3> QED
      BY <1>1, <1>3, <2>1, <3>1 DEF Follows, Acked, Committing
  <2>6. CommitsOnlyVerified' /\ OwnCommit'
    BY <1>1, <1>3, <2>1 DEF Follows, CommitsOnlyVerified, OwnCommit, vars
  <2> QED
    BY <2>2, <2>3, <2>5, <2>6 DEF Follows
<1> QED
  BY <1>1, <1>2, <1>3

(* VERIFY and COMMIT write neither the image nor the session's idea of it. *)
SessionKeptBy ==
  /\ slots' = slots
  /\ ctx'.active = ctx.active /\ ctx'.target = ctx.target
  /\ ctx'.size = ctx.size /\ ctx'.crc = ctx.crc

LEMMA CalmFrames ==
  ASSUME TInv, DevReceive, Head(toDev).t \in {"VERIFY", "COMMIT"}
  PROVE  SessionKeptBy
<1>1. PICK f : f = Head(toDev)
  OBVIOUS
<1>2. ctx \in Contexts
  BY DEF TInv, IInv, TypeOK
<1>3. CASE f.t = "VERIFY" /\ DevVerify(f.p)
  <2>1. (slots' = slots /\ ctx' = Verified(ctx)) \/ (slots' = slots /\ ctx' = ctx)
    BY <1>3 DEF DevVerify, HandleVerify, vars, flash
  <2>2. PICK q : q = OtaSeqNext(ctx.expected)
    OBVIOUS
  <2>3. Verified(ctx) = [ctx EXCEPT !.expected = q]
    BY <2>2 DEF Verified
  <2> QED
    BY <1>2, <2>1, <2>3 DEF SessionKeptBy, Contexts
<1>4. CASE f.t = "COMMIT" /\ DevCommit(f.p)
  BY <1>4 DEF DevCommit, HandleCommit, SessionKeptBy, vars, flash
<1> QED
  BY <1>1, <1>3, <1>4 DEF DevReceive

(* An acknowledged VERIFY found the image complete. *)
LEMMA AckedVerify ==
  ASSUME TInv, DevReceive, Head(toDev).t = "VERIFY", NEW r, toGw' \in Sent(toGw, r), toGw' # toGw,
         r = Ack(VSeq)
  PROVE  Sound'
<1>1. PICK f : f = Head(toDev)
  OBVIOUS
<1>2. f.t = "VERIFY" /\ DevVerify(f.p)
  BY <1>1 DEF DevReceive
<1>3. toGw \in Seq(GwFrames)
  BY DEF TInv, LineOK
<1>4. VerifyError(ctx, slots, f.p) = "OK"
  <2> SUFFICES ASSUME VerifyError(ctx, slots, f.p) # "OK" PROVE FALSE
    OBVIOUS
  <2>1. PICK s : toGw' \in Sent(toGw, Nack(s))
    BY <1>2 DEF DevVerify, DevReply
  <2>2. toGw' = Append(toGw, Nack(s)) /\ toGw' = Append(toGw, r)
    BY <2>1 DEF Sent
  <2>3. Nack(s) = r
    <3>1. Len(toGw) \in Nat
      BY <1>3
    <3>2. Append(toGw, Nack(s))[Len(toGw) + 1] = Nack(s) /\ Append(toGw, r)[Len(toGw) + 1] = r
      BY <1>3, <3>1
    <3> QED
      BY <2>2, <3>2
  <2> QED
    BY <2>3 DEF Nack, Ack
<1>5. Sound
  BY <1>4 DEF VerifyError, Sound
<1>6. SessionKeptBy
  BY <1>1, <1>2, CalmFrames
<1> QED
  BY <1>5, <1>6 DEF Sound, SessionKeptBy

LEMMA OnlyCommitCommits ==
  ASSUME DevReceive, pc' = "commit"
  PROVE  /\ Head(toDev).t = "COMMIT" /\ ctx.active /\ ctx' = ctx /\ slots' = slots
         /\ Head(toDev).p.seq = ctx.expected
<1>1. PICK f : f = Head(toDev)
  OBVIOUS
<1>2. pc = "ota"
  BY DEF DevReceive
<1>3. CASE f.t = "PREPARE" /\ DevPrepare(f.p)
  BY <1>2, <1>3 DEF DevPrepare, HandlePrepare
<1>4. CASE f.t = "DATA" /\ DevData(f.p)
  BY <1>2, <1>4 DEF DevData, HandleData, vars
<1>5. CASE f.t = "VERIFY" /\ DevVerify(f.p)
  BY <1>2, <1>5 DEF DevVerify, HandleVerify, vars
<1>6. CASE f.t = "COMMIT" /\ DevCommit(f.p)
  BY <1>1, <1>2, <1>6 DEF DevCommit, HandleCommit, CommitError, vars, flash
<1> QED
  BY <1>1, <1>3, <1>4, <1>5, <1>6 DEF DevReceive

(* Ack(q) answers the frame with number q. *)
LEMMA ReplyNumber ==
  ASSUME NEW f, NEW q, Ack(q) \in Replies(f)
  PROVE  f.p.seq = q
<1>1. \A s : Ack(q) # Nack(s)
  BY DEF Ack, Nack
<1>2. \A s : Ack(q) = Ack(s) => q = s
  BY DEF Ack
<1> QED
  BY <1>1, <1>2 DEF Replies

LEMMA DevReceiveFollows ==
  ASSUME TInv, HTypes, ~misled => Follows, HDevReceive
  PROVE  HTypes' /\ (~misled' => Follows')
<1> DEFINE h == Head(toDev)
<1>0. toDev \in Seq(DevFrames) /\ VSeq \in Nat /\ VSeq >= 3 /\ oldDev \in Nat
  BY VSeqType, LineTypes DEF TInv
<1>1. /\ UNCHANGED <<gw, ackCache, oldCached, misled>>
      /\ DevReceive
      /\ oldDev' = OneLess(oldDev)
      /\ oldGw' = IF oldDev > 0 THEN Len(toGw') ELSE oldGw
      /\ oldCommit' = IF h.t = "COMMIT" THEN oldDev > 0 ELSE oldCommit
  BY DEF HDevReceive, DevReceive, gwVars
<1>2. /\ toDev # <<>> /\ toDev' = Tail(toDev)
      /\ toGw' = toGw \/ \E r \in Replies(h) : toGw' \in Sent(toGw, r)
  BY <1>0, <1>1, Reception
<1>3. VSeq' = VSeq
  BY <1>1 DEF VSeq
<1>4. PICK r : /\ toGw' = toGw \/ (r \in Replies(h) /\ toGw' \in Sent(toGw, r))
               /\ toGw' = toGw \/ toGw' = Append(toGw, r)
  <2>1. CASE toGw' = toGw
    BY <2>1
  <2>2. CASE toGw' # toGw
    BY <1>2, <2>2 DEF Sent
  <2> QED
    BY <2>1, <2>2
<1>5. oldGw' = oldGw \/ oldGw' = Len(toGw')
  BY <1>1
<1>6. HTypes'
  <2>1. oldCommit' \in BOOLEAN /\ misled' \in BOOLEAN
    <3>1. oldCommit \in BOOLEAN /\ misled \in BOOLEAN
      BY DEF HTypes
    <3>2. (oldDev > 0) \in BOOLEAN
      BY <1>0, SMT
    <3>3. oldCommit' = (oldDev > 0) \/ oldCommit' = oldCommit
      BY <1>1, Zenon
    <3> QED
      BY <1>1, <3>1, <3>2, <3>3, Zenon
  <2>2. oldDev' \in 0..Len(toDev')
    BY <1>1, <1>2, TakenFromDev
  <2>3. oldGw' \in 0..Len(toGw')
    BY <1>4, <1>5, AddedToGw
  <2> QED
    BY <2>1, <2>2, <2>3 DEF HTypes
<1>7. ASSUME Follows PROVE Follows'
  <2>1. Ordered'
    BY <1>1, <1>2, <1>7, TakenFromDev DEF Follows
  <2>2. /\ Len(toDev) \in Nat \ {0} /\ Len(toDev') = Len(toDev) - 1 /\ h = toDev[1] /\ h \in DevFrames
        /\ \A i \in 1..Len(toDev') : i + 1 \in 1..Len(toDev) /\ toDev'[i] = toDev[i + 1]
        /\ 1 \in 1..Len(toDev)
    BY <1>1, <1>2, TakenFromDev, SMT
  <2>3. ASSUME Authorised, h.t \in {"VERIFY", "COMMIT"} PROVE Authorised'
    BY <1>1, <2>3, CalmFrames DEF Authorised, Sound, SessionKeptBy
  <2>4. ASSUME Calm(Len(toDev)), Authorised PROVE Calm(Len(toDev))' /\ Authorised'
    <3>1. h.t \in {"VERIFY", "COMMIT"}
      BY <2>2, <2>4 DEF Calm
    <3>2. Calm(Len(toDev))'
      BY <1>1, <1>2, <2>4, TakenFromDev DEF Calm
    <3> QED
      BY <2>3, <2>4, <3>1, <3>2
  <2>5. CommitsBehind'
    <3> SUFFICES ASSUME NEW i \in 1..Len(toDev'), toDev'[i].t = "COMMIT"
                 PROVE  Calm(i)' /\ Authorised'
      BY DEF CommitsBehind
    <3>1. i + 1 \in 1..Len(toDev) /\ Calm(i + 1) /\ Authorised
      BY <1>7, <2>2 DEF Follows, CommitsBehind
    <3>2. h.t \in {"VERIFY", "COMMIT"} /\ Calm(i)'
      BY <1>1, <1>2, <3>1, TakenFromDev
    <3> QED
      BY <2>3, <3>1, <3>2
  <2>6. Committing'
    BY <1>1, <1>7, <2>4 DEF Follows, Committing
  <2>7. CommitsOnlyVerified'
    <3> SUFFICES ASSUME pc' = "commit" PROVE Sound'
      BY DEF CommitsOnlyVerified, Sound
    <3>1. h.t = "COMMIT" /\ ctx.active /\ ctx' = ctx /\ slots' = slots
      BY <1>1, OnlyCommitCommits
    <3>2. Sound
      BY <1>7, <2>2, <3>1 DEF Follows, CommitsBehind, Authorised
    <3> QED
      BY <3>1, <3>2 DEF Sound
  <2>8. OwnCommit'
    <3> SUFFICES ASSUME pc' = "commit", ~oldCommit' PROVE ctx'.expected = VSeq + 1
      BY <1>3 DEF OwnCommit
    <3>1. h.t = "COMMIT" /\ ctx' = ctx /\ h.p.seq = ctx.expected
      BY <1>1, OnlyCommitCommits
    <3>2. 1 > oldDev
      <4>1. ~(oldDev > 0)
        BY <1>1, <3>1, Zenon
      <4> QED
        BY <1>0, <4>1, SMT
    <3>3. h.p.seq = VSeq + 1
      BY <1>7, <2>2, <3>1, <3>2 DEF Follows, Ordered
    <3> QED
      BY <3>1, <3>3
  <2>9. Acked'
    <3> SUFFICES ASSUME FreshAck(VSeq)'
                 PROVE  Calm(Len(toDev))' /\ Authorised' /\ (gw.phase # "idle" => gw.seq >= VSeq)
      BY <1>1, <1>3 DEF Acked
    <3>1. CASE FreshAck(VSeq)
      BY <1>7, <2>4, <3>1 DEF Follows, Acked
    <3>2. CASE ~FreshAck(VSeq)
      <4>1. FreshAck(VSeq)' <=> \/ \E i \in 1..Len(toGw') : i > oldGw' /\ toGw'[i] = Ack(VSeq)
                                \/ ackCache'[VSeq] = "ack" /\ VSeq \notin oldCached'
        BY <1>3 DEF FreshAck, Ack
      <4>2. \E i \in 1..Len(toGw') : i > oldGw' /\ toGw'[i] = Ack(VSeq)
        BY <1>1, <3>2, <4>1 DEF FreshAck
      <4>3. r = Ack(VSeq) /\ oldGw' = oldGw /\ oldGw' # Len(toGw')
        BY <1>4, <1>5, <3>2, <4>2, AddedToGw DEF FreshAck
      <4>4. toGw' # toGw
        <5> SUFFICES ASSUME toGw' = toGw PROVE FALSE
          OBVIOUS
        <5> QED
          BY <3>2, <4>2, <4>3 DEF FreshAck
      <4>5. h.p.seq = VSeq
        BY <1>4, <4>3, <4>4, ReplyNumber
      <4>6. 1 > oldDev
        BY <1>0, <1>1, <4>3, SMT
      <4>7. h.t = "VERIFY"
        BY <1>7, <2>2, <4>5, <4>6 DEF Follows, Ordered
      <4>8. Authorised'
        BY <1>1, <1>4, <4>3, <4>4, <4>7, AckedVerify DEF Authorised
      <4>9. gw.phase # "idle" => gw.seq >= VSeq
        <5>1. gw.seq \in Nat
          BY DEF TInv, Counted, SessionOK, States
        <5>2. gw.phase # "idle" => h.p.seq <= gw.seq
          BY <1>7, <2>2, <4>6 DEF Follows, Ordered
        <5> QED
          BY <1>0, <4>5, <5>1, <5>2, SMT
      <4>10. Calm(Len(toDev))'
        <5> SUFFICES ASSUME NEW i \in 1..Len(toDev') PROVE toDev'[i].t \in {"VERIFY", "COMMIT"}
          BY DEF Calm
        <5>1. i + 1 \in 1..Len(toDev) /\ toDev'[i] = toDev[i + 1] /\ i + 1 > oldDev
              /\ 1 \in 1..(i + 1)
          BY <1>0, <2>2, <4>6, SMT
        <5>2. toDev[i + 1].p.seq \in Nat
          <6>1. toDev[i + 1].p.seq \in OtaSeqs
            BY <1>0, <5>1, DevFrameCases
          <6> QED
            BY <6>1, OtaSeqAssumption, SMT DEF OtaSeqs
        <5>3. VSeq <= toDev[i + 1].p.seq /\ toDev[i + 1].p.seq <= VSeq + 1
          BY <1>7, <2>2, <4>5, <4>6, <5>1 DEF Follows, Ordered
        <5>4. toDev[i + 1].p.seq = VSeq \/ toDev[i + 1].p.seq = VSeq + 1
          BY <1>0, <5>2, <5>3, SMT
        <5> QED
          BY <1>7, <5>1, <5>4 DEF Follows, Ordered
      <4> QED
        BY <4>8, <4>9, <4>10
    <3> QED
      BY <3>1, <3>2
  <2> QED
    BY <2>1, <2>5, <2>6, <2>7, <2>8, <2>9 DEF Follows
<1> QED
  BY <1>1, <1>6, <1>7

LEMMA HistoryOnly == ASSUME [HNext]_hvars PROVE [TNext]_tvars
BY DEF HNext, HStartSession, HWaitHello, HGwSend, HGwReceive, HDevReceive, HDevBoot, HDevIgnores,
   HOther, TNext, GwStep, DevStep, hvars

LEMMA HInvKept == ASSUME HInv, [HNext]_hvars PROVE HInv'
<1>1. TInv /\ TInv' /\ HTypes /\ (~misled => Follows)
  BY HistoryOnly, TInvKept DEF HInv
<1>2. CASE UNCHANGED hvars
  <2>1. HTypes'
    BY <1>1, <1>2 DEF HTypes, hvars, history, tvars, line
  <2>2. misled' = misled /\ (Follows => Follows')
    BY <1>2 DEF hvars, history, tvars, line, gwVars, vars, Follows, Ordered, CommitsBehind, Acked,
       Committing, CommitsOnlyVerified, OwnCommit, Calm, Authorised, Sound, VSeq, FreshAck
  <2> QED
    BY <1>1, <2>1, <2>2 DEF HInv
<1>3. CASE \E o \in Catalogue : HStartSession(o)
  BY <1>1, <1>3, StartFollows DEF HInv
<1>4. CASE HWaitHello \/ HGwSend \/ HGwReceive
  BY <1>1, <1>4, WaitHelloFollows, SendFollows, ReceiveFollows DEF HInv
<1>5. CASE HDevReceive \/ HDevBoot \/ HDevIgnores
  BY <1>1, <1>5, DevReceiveFollows, BootFollows, IgnoresFollows DEF HInv
<1>6. CASE HOther
  BY <1>1, <1>6, GatewayAloneFollows, AloneFollows DEF HInv, HOther
<1> QED
  BY <1>2, <1>3, <1>4, <1>5, <1>6 DEF HNext

LEMMA HInvInit == HInit => HInv
<1> SUFFICES ASSUME HInit PROVE HInv
  OBVIOUS
<1>1. TInv
  BY TInvInit DEF HInit
<1>2. /\ toDev = <<>> /\ toGw = <<>> /\ gw.phase = "idle" /\ pc = "off"
      /\ ackCache = [q \in OtaSeqs |-> "none"]
      /\ oldDev = 0 /\ oldGw = 0 /\ oldCommit = FALSE /\ misled = FALSE
  BY DEF HInit, TInit, Init
<1>3. HTypes
  <2>1. Len(toDev) = 0 /\ Len(toGw) = 0 /\ 0 \in 0..0
    BY <1>2, SMT
  <2>2. misled \in BOOLEAN /\ oldCommit \in BOOLEAN
    BY <1>2, Zenon
  <2> QED
    BY <1>2, <2>1, <2>2, Zenon DEF HTypes
<1>4. ~FreshAck(VSeq)
  <2>1. VSeq \in OtaSeqs
    BY <1>1, VSeqType DEF TInv
  <2> QED
    BY <1>2, <2>1, SMT DEF FreshAck
<1>5. Follows
  BY <1>2, <1>4, SMT DEF Follows, Ordered, CommitsBehind, Acked, Committing, CommitsOnlyVerified,
     OwnCommit
<1> QED
  BY <1>1, <1>3, <1>5 DEF HInv

(* The history variables of StaleAnswers watch the transfer and change     *)
(* nothing about it.                                                       *)
THEOREM HistoryWatches == HSpec => TSpec
<1>1. HInit => TInit
  BY DEF HInit
<1> QED
  BY <1>1, HistoryOnly, PTL DEF HSpec, TSpec

(* bl_handle_commit stores only what passed the checks of bl_handle_verify *)
(* as long as no session takes an acknowledgement of an earlier one: the   *)
(* gateway sends COMMIT after its own VERIFY was acknowledged, and nothing *)
(* that could change the image travels behind that VERIFY.                 *)
THEOREM OrderProtects == HSpec => []VerifiedUnlessMisled
<1>1. HInv => VerifiedUnlessMisled
  BY DEF HInv, Follows, VerifiedUnlessMisled
<1> QED
  BY <1>1, HInvInit, HInvKept, PTL DEF HSpec
==============================================================================
