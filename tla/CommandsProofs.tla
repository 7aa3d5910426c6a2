--------------------------- MODULE CommandsProofs ----------------------------
(***************************************************************************)
(* Safety of the pending-command table for any number of console threads   *)
(* and clients, ids and commands.  The table is keyed by the id alone, so  *)
(* the argument goes over what shares an id: two requesters of one id are  *)
(* both mixed, and so is a requester whose id is on the link under another *)
(* number; an id nobody overwrote has at most one requester, and that one  *)
(* its entry.                                                              *)
(***************************************************************************)
EXTENDS Commands, TLAPS

OnLink == down \cup up

(* Numbers are given out once. *)
Numbered ==
  /\ \A r \in Requesters : Busy(r) => req[r].c <= submitted
  /\ \A x \in OnLink : x.c <= submitted
  /\ \A c \in answered \cup inTime \cup told \cup mixed : c <= submitted
  /\ \A r, s \in Requesters : Busy(r) /\ Busy(s) /\ req[r].c = req[s].c => r = s
  /\ \A r \in Requesters, x \in OnLink : Busy(r) /\ x.c = req[r].c => x.id = req[r].id

(* Who shares an id is mixed. *)
SharersMixed ==
  /\ \A r, s \in Requesters :
       Busy(r) /\ Busy(s) /\ req[r].id = req[s].id /\ r # s => req[r].c \in mixed
  /\ \A r \in Requesters, x \in OnLink :
       Busy(r) /\ x.id = req[r].id /\ x.c # req[r].c => req[r].c \in mixed

(* An id that was not overwritten has one requester at most. *)
OneOwner ==
  \A r \in Requesters : Busy(r) /\ req[r].id \notin overwritten =>
    /\ pending[req[r].id] # NoEntry
    /\ \A s \in Requesters : Busy(s) /\ req[s].id = req[r].id => s = r

(* The entry of a command that is not mixed is its own. *)
OwnEntry ==
  \A r \in Requesters : Busy(r) /\ req[r].c \notin mixed =>
    /\ pending[req[r].id] # NoEntry
    /\ pending[req[r].id] = "acked" => req[r].c \in answered
    /\ req[r].c \in inTime => pending[req[r].id] = "acked"

Answers == \A x \in up : x.c \in answered

(* What was not sent yet has no answer. *)
Unsent ==
  \A r \in Requesters : req[r].pc = "send" =>
    req[r].c \notin inTime /\ \A x \in OnLink : x.c # req[r].c

CmdInv ==
  /\ CmdTypeOK /\ Numbered /\ SharersMixed /\ OneOwner /\ OwnEntry /\ Answers /\ Unsent
  /\ EntryHasWaiter /\ AckIsOwn /\ InTimeIsTold

LEMMA InitInv == CmdInit => CmdInv
  BY CommandsAssumption, SMT
  DEF CmdInit, CmdInv, CmdTypeOK, Numbered, SharersMixed, OneOwner, OwnEntry, Answers, Unsent, EntryHasWaiter,
      AckIsOwn, InTimeIsTold, OnLink, Busy, Free, Requesters, Ids, Numbers, Commands, NoEntry

(* What shares the id of a new command becomes mixed with it. *)
LEMMA RegisterMixes ==
  ASSUME CmdTypeOK, NEW r \in Requesters, NEW id \in Ids, Register(r, id)
  PROVE  /\ mixed \subseteq mixed' /\ mixed' \subseteq Numbers
         /\ \A s \in Requesters : Busy(s) /\ req[s].id = id =>
              req[s].c \in mixed' /\ submitted + 1 \in mixed'
         /\ \A x \in OnLink : x.id = id => x.c \in mixed' /\ submitted + 1 \in mixed'
         /\ Numbered => \A c \in mixed' : c <= submitted + 1
<1>1. ASSUME NEW s \in Requesters, Busy(s), req[s].id = id PROVE req[s].c \in Open(id)
  BY <1>1 DEF Open
<1>2. ASSUME NEW x \in OnLink, x.id = id PROVE x.c \in Open(id)
  BY <1>2 DEF Open, OnLink
<1>3. Open(id) \subseteq Numbers
  BY DEF Open, CmdTypeOK, Busy, Commands, Free
<1>4. submitted + 1 \in Numbers
  BY CommandsAssumption DEF Register, CmdTypeOK, Numbers
<1>5. Numbered => \A c \in Open(id) : c <= submitted
  BY DEF Numbered, Open, OnLink
<1>6. mixed' = IF Open(id) = {} THEN mixed ELSE mixed \cup Open(id) \cup {submitted + 1}
  BY DEF Register
<1>7. /\ mixed \subseteq mixed' /\ mixed' \subseteq Numbers
      /\ \A c \in Open(id) : c \in mixed' /\ submitted + 1 \in mixed'
  BY <1>3, <1>4, <1>6 DEF CmdTypeOK
<1>8. ASSUME Numbered, NEW c \in mixed' PROVE c <= submitted + 1
  <2>1. c \in mixed \/ c \in Open(id) \/ c = submitted + 1
    BY <1>6
  <2>2. \A k \in mixed : k <= submitted
    BY <1>8 DEF Numbered
  <2>3. c \in Nat /\ submitted \in Nat
    BY <1>7, CommandsAssumption DEF Numbers, CmdTypeOK
  <2> QED  BY <2>1, <2>2, <2>3, <1>5, <1>8
<1> QED  BY <1>1, <1>2, <1>7, <1>8

(* What a registration does to the requesters. *)
LEMMA RegisterBusy ==
  ASSUME CmdTypeOK, NEW r \in Requesters, NEW id \in Ids, Register(r, id)
  PROVE  /\ ~Busy(r)
         /\ req'[r] = [pc |-> "send", id |-> id, c |-> submitted + 1]
         /\ \A s \in Requesters : s # r => req'[s] = req[s]
         /\ \A s \in Requesters : Busy(s)' <=> s = r \/ Busy(s)
         /\ submitted' = submitted + 1 /\ submitted \in Nat /\ submitted' \in Numbers
         /\ pending'[id] = "open" /\ \A i \in Ids : i # id => pending'[i] = pending[i]
         /\ OnLink' = OnLink
  BY CommandsAssumption, SMT DEF Register, CmdTypeOK, Busy, OnLink, link, Numbers

LEMMA RegisterInv ==
  ASSUME CmdInv, NEW r \in Requesters, NEW id \in Ids, Register(r, id),
         overwritten' = IF InUse(id) THEN overwritten \cup {id} ELSE overwritten,
         lastId' \in 0..MaxId
  PROVE  CmdInv'
<1> USE DEF CmdInv
<1>m. /\ mixed \subseteq mixed' /\ mixed' \subseteq Numbers
      /\ \A s \in Requesters : Busy(s) /\ req[s].id = id =>
           req[s].c \in mixed' /\ submitted + 1 \in mixed'
      /\ \A x \in OnLink : x.id = id => x.c \in mixed' /\ submitted + 1 \in mixed'
      /\ \A c \in mixed' : c <= submitted + 1
  BY RegisterMixes, Zenon
<1>b. /\ ~Busy(r)
      /\ req'[r] = [pc |-> "send", id |-> id, c |-> submitted + 1]
      /\ \A s \in Requesters : s # r => req'[s] = req[s]
      /\ \A s \in Requesters : Busy(s)' <=> s = r \/ Busy(s)
      /\ submitted' = submitted + 1 /\ submitted \in Nat /\ submitted' \in Numbers
      /\ pending'[id] = "open" /\ \A i \in Ids : i # id => pending'[i] = pending[i]
      /\ OnLink' = OnLink
  BY RegisterBusy, Zenon
<1>u. UNCHANGED <<running, down, up, answered, inTime, told>>
  BY DEF Register, link
<1>c. /\ \A s \in Requesters : Busy(s) => req[s].id \in Ids /\ req[s].c \in Numbers
      /\ \A x \in OnLink : x.c \in Numbers /\ x.id \in Ids
      /\ answered \cup inTime \cup told \cup mixed \subseteq Numbers /\ Numbers \subseteq Nat
  BY DEF CmdTypeOK, Free, Busy, OnLink, Commands, Numbers
<1>n. \A s \in Requesters : Busy(s) => req[s].c # submitted + 1
  BY <1>b, <1>c DEF Numbered
<1>l. \A x \in OnLink : x.c # submitted + 1
  BY <1>b, <1>c DEF Numbered
<1>t. submitted + 1 \notin answered \cup inTime \cup told
  BY <1>b, <1>c DEF Numbered
<1>1. CmdTypeOK'
  <2>1. pending' \in [Ids -> {NoEntry, "open", "acked"}]
    BY DEF CmdTypeOK, Register
  <2>2. req' \in [Requesters -> {Free} \cup [pc : {"send", "wait"}, id : Ids, c : Numbers]]
    BY <1>b DEF CmdTypeOK, Register
  <2>3. submitted' \in 0..MaxCommands
    BY <1>b DEF Numbers
  <2>4. overwritten' \subseteq Ids
    BY DEF CmdTypeOK
  <2> QED  BY <2>1, <2>2, <2>3, <2>4, <1>m, <1>u DEF CmdTypeOK
<1>2. Numbered'
  <2>1. ASSUME NEW s \in Requesters, Busy(s)' PROVE req'[s].c <= submitted'
    <3>1. CASE s = r
      BY <3>1, <1>b
    <3>2. CASE s # r
      <4>1. req'[s].c \in Nat /\ req'[s].c <= submitted
        BY <3>2, <2>1, <1>b, <1>c DEF Numbered
      <4> QED  BY <4>1, <1>b
    <3> QED  BY <3>1, <3>2
  <2>2. ASSUME NEW x \in OnLink' PROVE x.c <= submitted'
    <3>1. x.c \in Nat /\ x.c <= submitted
      BY <1>b, <1>c DEF Numbered
    <3> QED  BY <3>1, <1>b
  <2>3. ASSUME NEW c \in (answered \cup inTime \cup told \cup mixed)' PROVE c <= submitted'
    <3>1. CASE c \in mixed'
      BY <3>1, <1>m, <1>b
    <3>2. CASE c \in answered \cup inTime \cup told
      <4>1. c \in Nat /\ c <= submitted
        BY <3>2, <1>c DEF Numbered
      <4> QED  BY <4>1, <1>b
    <3> QED  BY <3>1, <3>2, <1>u
  <2>4. \A q, s \in Requesters : Busy(q)' /\ Busy(s)' /\ req'[q].c = req'[s].c => q = s
    BY <1>b, <1>n DEF Numbered
  <2>5. \A q \in Requesters, x \in OnLink' : Busy(q)' /\ x.c = req'[q].c => x.id = req'[q].id
    BY <1>b, <1>l DEF Numbered
  <2> QED  BY <2>1, <2>2, <2>3, <2>4, <2>5 DEF Numbered
<1>3. SharersMixed'
  <2>1. ASSUME NEW q \in Requesters, NEW s \in Requesters, Busy(q)', Busy(s)',
               req'[q].id = req'[s].id, q # s
        PROVE  req'[q].c \in mixed'
    <3>1. CASE q = r
      BY <3>1, <2>1, <1>m, <1>b
    <3>2. CASE s = r
      BY <3>2, <2>1, <1>m, <1>b
    <3>3. CASE q # r /\ s # r
      BY <3>3, <2>1, <1>m, <1>b DEF SharersMixed
    <3> QED  BY <3>1, <3>2, <3>3
  <2>2. ASSUME NEW q \in Requesters, NEW x \in OnLink', Busy(q)', x.id = req'[q].id,
               x.c # req'[q].c
        PROVE  req'[q].c \in mixed'
    <3>1. CASE q = r
      BY <3>1, <2>2, <1>m, <1>b
    <3>2. CASE q # r
      BY <3>2, <2>2, <1>m, <1>b DEF SharersMixed
    <3> QED  BY <3>1, <3>2
  <2> QED  BY <2>1, <2>2 DEF SharersMixed
<1>4. OneOwner'
  BY <1>b, <1>c DEF OneOwner, InUse, NoEntry
<1>5. OwnEntry'
  BY <1>m, <1>b, <1>c, <1>t, <1>u DEF OwnEntry, NoEntry
<1>6. Answers'
  BY <1>u DEF Answers
<1>7. EntryHasWaiter'
  BY <1>b DEF EntryHasWaiter
<1>8. AckIsOwn'
  BY <1>u, <1>m DEF AckIsOwn
<1>9. InTimeIsTold'
  BY <1>u, <1>m, <1>b DEF InTimeIsTold
<1>10. Unsent'
  BY <1>b, <1>l, <1>t, <1>u DEF Unsent, Busy
<1> QED  BY <1>1, <1>2, <1>3, <1>4, <1>5, <1>6, <1>7, <1>8, <1>9, <1>10

(* The end of a request: its entry goes, and with it that of everybody who *)
(* shares the id.                                                          *)
LEMMA LeaveInv ==
  ASSUME CmdInv, NEW r \in Requesters, Busy(r),
         req' = [req EXCEPT ![r] = Free],
         pending' = [pending EXCEPT ![req[r].id] = NoEntry],
         told' = told \/ told' = told \cup {req[r].c},
         req[r].c \in told' \/ req[r].c \notin inTime \/ req[r].c \in mixed,
         told' # told => req[r].c \in answered \cup mixed,
         UNCHANGED <<running, lastId, submitted, down, up, answered, inTime, mixed, overwritten>>
  PROVE  CmdInv'
<1> USE DEF CmdInv
<1>c. /\ \A s \in Requesters : Busy(s) => req[s].id \in Ids /\ req[s].c \in Numbers
      /\ pending \in [Ids -> {NoEntry, "open", "acked"}] /\ Numbers \subseteq Nat
  BY DEF CmdTypeOK, Free, Busy, Numbers
<1>b. /\ ~Busy(r)' /\ req'[r] = Free
      /\ \A s \in Requesters : s # r => req'[s] = req[s] /\ (Busy(s)' <=> Busy(s))
  BY DEF CmdTypeOK, Busy, Free
<1>p. /\ pending'[req[r].id] = NoEntry
      /\ \A i \in Ids : i # req[r].id => pending'[i] = pending[i]
  BY <1>c
<1>o. OnLink' = OnLink
  BY DEF OnLink
<1>1. CmdTypeOK'
  BY <1>c DEF CmdTypeOK
<1>2. Numbered'
  <2>1. \A c \in told' : c <= submitted
    BY <1>c DEF Numbered
  <2> QED  BY <2>1, <1>b, <1>o DEF Numbered
<1>3. SharersMixed'
  BY <1>b, <1>o DEF SharersMixed
<1>4. OneOwner'
  BY <1>b, <1>p, <1>c DEF OneOwner
<1>5. OwnEntry'
  <2> SUFFICES ASSUME NEW s \in Requesters, Busy(s)', req'[s].c \notin mixed
               PROVE  /\ pending'[req'[s].id] # NoEntry
                      /\ pending'[req'[s].id] = "acked" => req'[s].c \in answered
                      /\ req'[s].c \in inTime => pending'[req'[s].id] = "acked"
    BY DEF OwnEntry
  <2>1. s # r /\ req'[s] = req[s] /\ Busy(s)
    BY <1>b
  <2>2. req[s].id # req[r].id
    BY <2>1 DEF SharersMixed
  <2> QED  BY <2>1, <2>2, <1>p, <1>c DEF OwnEntry
<1>6. Answers' /\ AckIsOwn'
  BY DEF Answers, AckIsOwn
<1>7. EntryHasWaiter'
  BY <1>b, <1>p DEF EntryHasWaiter
<1>8. InTimeIsTold'
  BY <1>b DEF InTimeIsTold
<1>9. Unsent'
  BY <1>b, <1>o DEF Unsent, Free, Busy
<1> QED  BY <1>1, <1>2, <1>3, <1>4, <1>5, <1>6, <1>7, <1>8, <1>9

LEMMA IdAfterInIds == ASSUME CmdTypeOK, NEW n \in 1..MaxId PROVE IdAfter(n) \in Ids
  BY CommandsAssumption, SMTT(30) DEF IdAfter, CmdTypeOK, Ids

LEMMA WaitEndsInv ==
  ASSUME CmdInv, NEW r \in Requesters, WaitEnds(r)
  PROVE  CmdInv'
<1> USE DEF CmdInv
<1>1. Busy(r) /\ pending[req[r].id] = "acked" => req[r].c \in told'
  BY DEF WaitEnds, Busy
<1>2. req[r].c \in told' \/ req[r].c \notin inTime \/ req[r].c \in mixed
  BY <1>1 DEF OwnEntry, WaitEnds, Busy
<1>3. told' # told => req[r].c \in answered \cup mixed
  BY DEF OwnEntry, WaitEnds, Busy
<1>4. /\ Busy(r)
      /\ req' = [req EXCEPT ![r] = Free]
      /\ pending' = [pending EXCEPT ![req[r].id] = NoEntry]
      /\ told' = told \/ told' = told \cup {req[r].c}
      /\ UNCHANGED <<running, lastId, submitted, down, up, answered, inTime, mixed, overwritten>>
  BY DEF WaitEnds, Busy, link
<1> QED  BY <1>2, <1>3, <1>4, LeaveInv, Zenon

LEMMA SendFailsInv ==
  ASSUME CmdInv, NEW r \in Requesters, SendFails(r)
  PROVE  CmdInv'
<1> USE DEF CmdInv
<1>1. /\ Busy(r) /\ req[r].c \notin inTime
      /\ req' = [req EXCEPT ![r] = Free]
      /\ pending' = [pending EXCEPT ![req[r].id] = NoEntry]
      /\ told' = told
      /\ UNCHANGED <<running, lastId, submitted, down, up, answered, inTime, mixed, overwritten>>
  BY DEF SendFails, Busy, Unsent, link, chist
<1> QED  BY <1>1, LeaveInv, Zenon

LEMMA SendInv ==
  ASSUME CmdInv, NEW r \in Requesters, Send(r)
  PROVE  CmdInv'
<1> USE DEF CmdInv
<1> DEFINE sent == [id |-> req[r].id, c |-> req[r].c]
<1>u. UNCHANGED <<running, pending, lastId, submitted, up, answered, inTime, told, mixed, overwritten>>
  BY DEF Send, chist
<1>c. req[r].pc = "send" /\ Busy(r) /\ sent \in Commands
  BY DEF Send, Busy, CmdTypeOK, Free, Commands
<1>b. /\ \A s \in Requesters : req'[s].id = req[s].id /\ req'[s].c = req[s].c
      /\ \A s \in Requesters : Busy(s)' <=> Busy(s)
      /\ \A s \in Requesters : req'[s].pc = "send" => s # r /\ req[s].pc = "send"
  BY DEF Send, Busy, CmdTypeOK, Free
<1>o. OnLink' = OnLink \cup {sent}
  BY <1>u DEF Send, OnLink
<1>1. CmdTypeOK'
  <2>1. req' \in [Requesters -> {Free} \cup [pc : {"send", "wait"}, id : Ids, c : Numbers]]
    BY <1>c DEF Send, CmdTypeOK, Commands, Free
  <2>2. down' \subseteq Commands
    BY <1>c DEF Send, CmdTypeOK
  <2> QED  BY <2>1, <2>2, <1>u DEF CmdTypeOK
<1>2. Numbered'
  BY <1>b, <1>o, <1>u, <1>c DEF Numbered
<1>3. SharersMixed'
  BY <1>b, <1>o, <1>u, <1>c DEF SharersMixed
<1>4. OneOwner' /\ OwnEntry'
  BY <1>b, <1>u DEF OneOwner, OwnEntry
<1>5. Answers' /\ AckIsOwn'
  BY <1>u DEF Answers, AckIsOwn
<1>6. EntryHasWaiter' /\ InTimeIsTold'
  BY <1>b, <1>u DEF EntryHasWaiter, InTimeIsTold
<1>7. Unsent'
  BY <1>b, <1>o, <1>u, <1>c DEF Unsent, Numbered, Busy
<1> QED  BY <1>1, <1>2, <1>3, <1>4, <1>5, <1>6, <1>7

LEMMA LinkInv ==
  ASSUME CmdInv, NEW x \in Commands, Answer(x) \/ Lose(x)
  PROVE  CmdInv'
<1> USE DEF CmdInv
<1>u. UNCHANGED <<running, pending, lastId, req, submitted, inTime, told, mixed, overwritten>>
  BY DEF Answer, Lose, chist
<1>a. answered' = answered \/ answered' = answered \cup {x.c}
  BY DEF Answer, Lose, chist
<1>o. OnLink' \subseteq OnLink /\ x \in OnLink /\ down' \subseteq Commands /\ up' \subseteq Commands
  BY DEF Answer, Lose, OnLink, CmdTypeOK
<1>b. \A s \in Requesters : Busy(s)' <=> Busy(s)
  BY <1>u DEF Busy
<1>1. CmdTypeOK'
  BY <1>u, <1>a, <1>o DEF CmdTypeOK, Commands
<1>2. Numbered'
  BY <1>u, <1>a, <1>o, <1>b DEF Numbered
<1>3. SharersMixed'
  BY <1>u, <1>o, <1>b DEF SharersMixed
<1>4. OneOwner' /\ OwnEntry'
  BY <1>u, <1>a, <1>b DEF OneOwner, OwnEntry
<1>5. Answers'
  BY DEF Answer, Lose, Answers, chist
<1>6. AckIsOwn' /\ EntryHasWaiter' /\ InTimeIsTold'
  BY <1>u, <1>a, <1>b DEF AckIsOwn, EntryHasWaiter, InTimeIsTold
<1>7. Unsent'
  BY <1>u, <1>o DEF Unsent
<1> QED  BY <1>1, <1>2, <1>3, <1>4, <1>5, <1>6, <1>7

LEMMA CompleteAckInv ==
  ASSUME CmdInv, NEW x \in Commands, CompleteAck(x)
  PROVE  CmdInv'
<1> USE DEF CmdInv
<1>u. UNCHANGED <<running, lastId, req, submitted, down, answered, told, mixed, overwritten>>
  BY DEF CompleteAck
<1>o. OnLink' \subseteq OnLink /\ x \in OnLink /\ up' \subseteq up /\ x \in up /\ x.id \in Ids
  BY DEF CompleteAck, OnLink, Commands
<1>b. \A s \in Requesters : Busy(s)' <=> Busy(s)
  BY <1>u DEF Busy
<1>c. /\ \A s \in Requesters : Busy(s) => req[s].id \in Ids /\ req[s].c \in Numbers
      /\ pending \in [Ids -> {NoEntry, "open", "acked"}]
  BY DEF CmdTypeOK, Free, Busy
<1>p. /\ \A i \in Ids : i # x.id => pending'[i] = pending[i]
      /\ pending[x.id] = NoEntry => pending'[x.id] = NoEntry
      /\ pending[x.id] # NoEntry => pending'[x.id] = "acked"
      /\ pending' \in [Ids -> {NoEntry, "open", "acked"}]
  BY <1>o, <1>c DEF CompleteAck, InUse
<1>i. \/ inTime' = inTime
      \/ /\ inTime' = inTime \cup {x.c}
         /\ \E s \in Requesters : Busy(s) /\ req[s].c = x.c
  BY DEF CompleteAck
<1>1. CmdTypeOK'
  BY <1>u, <1>o, <1>p, <1>i DEF CmdTypeOK, Commands
<1>2. Numbered'
  BY <1>u, <1>o, <1>b, <1>i DEF Numbered
<1>3. SharersMixed'
  BY <1>u, <1>o, <1>b DEF SharersMixed
<1>4. OneOwner'
  BY <1>u, <1>b, <1>c, <1>p DEF OneOwner, NoEntry
<1>5. OwnEntry'
  <2> SUFFICES ASSUME NEW s \in Requesters, Busy(s), req[s].c \notin mixed
               PROVE  /\ pending'[req[s].id] # NoEntry
                      /\ pending'[req[s].id] = "acked" => req[s].c \in answered
                      /\ req[s].c \in inTime' => pending'[req[s].id] = "acked"
    BY <1>u, <1>b DEF OwnEntry
  <2>0. /\ pending[req[s].id] # NoEntry
        /\ pending[req[s].id] = "acked" => req[s].c \in answered
        /\ req[s].c \in inTime => pending[req[s].id] = "acked"
    BY DEF OwnEntry
  <2>1. CASE req[s].id = x.id
    <3>1. x.c = req[s].c
      BY <2>1, <1>o DEF SharersMixed
    <3> QED  BY <3>1, <2>0, <2>1, <1>o, <1>p DEF Answers, NoEntry
  <2>2. CASE req[s].id # x.id
    <3>1. x.c # req[s].c
      BY <2>2, <1>o DEF Numbered
    <3> QED  BY <3>1, <2>0, <2>2, <1>c, <1>p, <1>i
  <2> QED  BY <2>1, <2>2
<1>6. Answers' /\ AckIsOwn'
  BY <1>u, <1>o DEF Answers, AckIsOwn
<1>7. EntryHasWaiter'
  BY <1>u, <1>b, <1>o, <1>p DEF EntryHasWaiter
<1>8. InTimeIsTold'
  BY <1>u, <1>b, <1>i DEF InTimeIsTold
<1>9. Unsent'
  BY <1>u, <1>o, <1>i DEF Unsent
<1> QED  BY <1>1, <1>2, <1>3, <1>4, <1>5, <1>6, <1>7, <1>8, <1>9

LEMMA CmdInductive == CmdInv /\ [CmdNext]_cvars => CmdInv'
<1> SUFFICES ASSUME CmdInv, [CmdNext]_cvars PROVE CmdInv'
  OBVIOUS
<1>1. ASSUME NEW r \in Consoles, NEW id \in Ids, Track(r, id) PROVE CmdInv'
  <2>1. r \in Requesters /\ lastId' \in 0..MaxId
    BY <1>1 DEF Track, Requesters, CmdInv, CmdTypeOK
  <2> QED  BY <1>1, <2>1, RegisterInv DEF Track
<1>2. ASSUME NEW r \in Clients, NEW id \in Ids, OwnId(r, id) PROVE CmdInv'
  <2>1. r \in Requesters /\ lastId' \in 0..MaxId
    BY <1>2 DEF OwnId, Requesters, CmdInv, CmdTypeOK
  <2> QED  BY <1>2, <2>1, RegisterInv DEF OwnId
<1>3. ASSUME NEW r \in Clients, Reserve(r) PROVE CmdInv'
  <2>1. PICK n \in 1..MaxId : /\ ~InUse(IdAfter(n)) /\ lastId' = IdAfter(n)
                              /\ Register(r, IdAfter(n)) /\ UNCHANGED overwritten
    BY <1>3, Zenon DEF Reserve
  <2>2. IdAfter(n) \in Ids
    BY IdAfterInIds DEF CmdInv
  <2>3. r \in Requesters /\ lastId' \in 0..MaxId
    BY <2>1, <2>2, CommandsAssumption DEF Requesters, Ids
  <2> QED  BY <2>1, <2>2, <2>3, RegisterInv
<1>4. ASSUME NEW r \in Requesters, SendFails(r) \/ Send(r) \/ WaitEnds(r) PROVE CmdInv'
  BY <1>4, SendFailsInv, SendInv, WaitEndsInv
<1>5. ASSUME NEW x \in Commands, Answer(x) \/ Lose(x) \/ CompleteAck(x) PROVE CmdInv'
  BY <1>5, LinkInv, CompleteAckInv
<1>6. ASSUME CmdStop \/ UNCHANGED cvars PROVE CmdInv'
  <2>1. /\ running' \in BOOLEAN
        /\ UNCHANGED <<pending, lastId, req, submitted, down, up, answered, inTime, told, mixed,
                       overwritten>>
    BY <1>6 DEF CmdStop, cvars, link, chist, CmdInv, CmdTypeOK
  <2>2. CmdTypeOK'
    BY <2>1 DEF CmdInv, CmdTypeOK
  <2>3. OnLink' = OnLink /\ \A r \in Requesters : Busy(r)' <=> Busy(r)
    BY <2>1 DEF OnLink, Busy
  <2>4. Numbered' /\ SharersMixed' /\ Answers' /\ Unsent'
    BY <2>1, <2>3 DEF CmdInv, Numbered, SharersMixed, Answers, Unsent
  <2>5. OneOwner' /\ OwnEntry'
    BY <2>1, <2>3 DEF CmdInv, OneOwner, OwnEntry
  <2>6. EntryHasWaiter' /\ AckIsOwn' /\ InTimeIsTold'
    BY <2>1, <2>3 DEF CmdInv, EntryHasWaiter, AckIsOwn, InTimeIsTold
  <2> QED  BY <2>2, <2>4, <2>5, <2>6 DEF CmdInv
<1> QED  BY <1>1, <1>2, <1>3, <1>4, <1>5, <1>6 DEF CmdNext

(* The inductive invariant holds whatever requesters, device and clock do  *)
(* (registerPendingCommand, reservePendingCommand, waitCommandAck and      *)
(* completeCommandAck in any order).                                       *)
THEOREM CmdAlways == CmdSpec => []CmdInv
  BY InitInv, CmdInductive, PTL DEF CmdSpec

(* The pending-command table has its types (app_controller.cpp:5254-5359). *)
THEOREM CmdTypes == CmdSpec => []CmdTypeOK
  BY CmdAlways, PTL DEF CmdInv

(* No entry of pending_commands_ outlives every requester of its id, in    *)
(* spite of entries overwritten and erased by others.                      *)
THEOREM EntriesHaveWaiters == CmdSpec => []EntryHasWaiter
  BY CmdAlways, PTL DEF CmdInv

(* waitCommandAck answers "acked" only for a command the device answered,  *)
(* unless its id was shared.                                               *)
THEOREM AcksAreOwn == CmdSpec => []AckIsOwn
  BY CmdAlways, PTL DEF CmdInv

(* waitCommandAck tells of every answer completeCommandAck saw in time,    *)
(* unless the id was shared.                                               *)
THEOREM InTimeAcksAreTold == CmdSpec => []InTimeIsTold
  BY CmdAlways, PTL DEF CmdInv

(* Only registerPendingCommand makes two clients share an id; the check    *)
(* under command_mutex_ and reservePendingCommand never do.                *)
THEOREM IdsAreUniqueUnlessTracked == CmdSpec => []UniqueUnlessTracked
<1>1. CmdInv => UniqueUnlessTracked
  BY DEF CmdInv, OneOwner, UniqueUnlessTracked, Requesters
<1> QED  BY <1>1, CmdAlways, PTL
==============================================================================
