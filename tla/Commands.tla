------------------------------ MODULE Commands -------------------------------
(***************************************************************************)
(* Control commands of the Linux gateway (serial-gateway/src/app/          *)
(* app_controller.cpp): the table of pending commands that the console     *)
(* thread (commandLoop), the HTTP monitor and the upstream MQTT client     *)
(* (executeControlCommand) register in, the sending, the device's answer   *)
(* and the wait for it with a time-out.                                    *)
(*                                                                         *)
(* The table is keyed by device and command id, so the commands of one     *)
(* device are modelled.  A step is a critical section of command_mutex_ or *)
(* a send.  The time-out may end a wait at any moment, also before the     *)
(* answer is looked at.                                                    *)
(***************************************************************************)
EXTENDS Naturals, FiniteSets

CONSTANTS
  Consoles,     \* threads of tracked commands: they overwrite an entry
  Clients,      \* threads of executeControlCommand: they refuse a used id
  MaxId,        \* 65535
  MaxCommands   \* bound: commands submitted

ASSUME CommandsAssumption ==
  /\ Consoles \cap Clients = {}
  /\ MaxId \in Nat \ {0} /\ MaxCommands \in Nat

VARIABLES
  running,    \* running_
  pending,    \* pending_commands_: state of the entry under each id
  lastId,     \* next_generated_command_id_
  req,        \* each requester: place, id and number of its command
  submitted,  \* bound and history: commands registered so far
  down,       \* commands on their way to the device
  up,         \* answers on their way back, in the gateway's queues
  answered,   \* history: commands the device answered
  inTime,     \* history: commands whose answer came while their requester waited
  told,       \* history: commands whose requester was told "acked"
  mixed,      \* history: commands that shared their id with one not over yet
  overwritten \* history: ids tracked while they were in use

link == <<down, up>>
chist == <<answered, inTime, told, mixed, overwritten>>
cvars == <<running, pending, lastId, req, submitted, link, chist>>

Requesters == Consoles \cup Clients
Ids == 1..MaxId
Numbers == 1..MaxCommands
Commands == [id : Ids, c : Numbers]
NoEntry == "none"
Free == [pc |-> "idle", id |-> 0, c |-> 0]

CmdInit ==
  /\ running = TRUE
  /\ pending = [i \in Ids |-> NoEntry]
  /\ lastId \in Ids        \* 1000
  /\ req = [r \in Requesters |-> Free]
  /\ submitted = 0
  /\ down = {} /\ up = {}
  /\ answered = {} /\ inTime = {} /\ told = {} /\ mixed = {} /\ overwritten = {}

InUse(id) == id \in Ids /\ pending[id] # NoEntry

Busy(r) == req[r].pc \in {"send", "wait"}

(* Numbers of the commands with this id that are not over: their requester *)
(* waits, or they or their answer are still on their way.                  *)
Open(id) ==
  {req[r].c : r \in {x \in Requesters : Busy(x) /\ req[x].id = id}}
    \cup {x.c : x \in {y \in down \cup up : y.id = id}}

(***************************************************************************)
(* Registering and sending                                                 *)
(***************************************************************************)

(* registerPendingCommand: an entry under the id is overwritten. *)
Register(r, id) ==
  /\ running /\ req[r].pc = "idle"
  /\ submitted < MaxCommands
  /\ submitted' = submitted + 1
  /\ req' = [req EXCEPT ![r] = [pc |-> "send", id |-> id, c |-> submitted + 1]]
  /\ pending' = [pending EXCEPT ![id] = "open"]
  /\ mixed' = IF Open(id) = {} THEN mixed ELSE mixed \cup Open(id) \cup {submitted + 1}
  /\ UNCHANGED <<running, link, answered, inTime, told>>

(* commandLoop: the id comes from the line. *)
Track(r, id) ==
  /\ Register(r, id)
  /\ overwritten' = IF InUse(id) THEN overwritten \cup {id} ELSE overwritten
  /\ UNCHANGED lastId

(* Mutant: the entry is not looked for. *)
OwnIdUnchecked(r, id) == Register(r, id) /\ UNCHANGED <<lastId, overwritten>>

(* executeControlCommand: the client's id, refused while it is in use. *)
OwnId(r, id) == ~InUse(id) /\ Register(r, id) /\ UNCHANGED <<lastId, overwritten>>

(* Mutant: 0 is not skipped when the counter wraps. *)
IdAfterZero(n) == (lastId + n) % (MaxId + 1)

(* The id n places behind lastId; behind the last comes 1. *)
IdAfter(n) == ((lastId + n - 1) % MaxId) + 1

(* reservePendingCommand: the next id that is not in use. *)
Reserve(r) ==
  \E n \in 1..MaxId :
    /\ ~InUse(IdAfter(n))
    /\ \A k \in 1..(n - 1) : InUse(IdAfter(k))
    /\ lastId' = IdAfter(n)
    /\ Register(r, IdAfter(n))
    /\ UNCHANGED overwritten

(* No link, no session, or the write fails. *)
SendFails(r) ==
  /\ req[r].pc = "send"
  /\ req' = [req EXCEPT ![r] = Free]
  /\ pending' = [pending EXCEPT ![req[r].id] = NoEntry]
  /\ UNCHANGED <<running, lastId, submitted, link, chist>>

Send(r) ==
  /\ req[r].pc = "send"
  /\ req' = [req EXCEPT ![r].pc = "wait"]
  /\ down' = down \cup {[id |-> req[r].id, c |-> req[r].c]}
  /\ UNCHANGED <<running, pending, lastId, submitted, up, chist>>

(***************************************************************************)
(* The answer                                                              *)
(***************************************************************************)

(* The device carries the command out and answers with its id. *)
Answer(x) ==
  /\ x \in down
  /\ down' = down \ {x} /\ up' = up \cup {x}
  /\ answered' = answered \cup {x.c}
  /\ UNCHANGED <<running, pending, lastId, req, submitted, inTime, told, mixed, overwritten>>

(* The command or its answer is lost. *)
Lose(x) ==
  /\ x \in down \cup up
  /\ down' = down \ {x} /\ up' = up \ {x}
  /\ UNCHANGED <<running, pending, lastId, req, submitted, chist>>

(* Mutant: the entry is made when there is none. *)
CompleteAckInserts(x) ==
  /\ running /\ x \in up
  /\ up' = up \ {x}
  /\ pending' = [pending EXCEPT ![x.id] = "acked"]
  /\ inTime' = IF \E r \in Requesters : Busy(r) /\ req[r].c = x.c
               THEN inTime \cup {x.c} ELSE inTime
  /\ UNCHANGED <<running, lastId, req, submitted, down, answered, told, mixed, overwritten>>

(* Mutant: the answer is matched by the device alone. *)
CompleteAckOfDevice(x) ==
  /\ running /\ x \in up
  /\ up' = up \ {x}
  /\ pending' = [i \in Ids |-> IF InUse(i) THEN "acked" ELSE NoEntry]
  /\ inTime' = IF \E r \in Requesters : Busy(r) /\ req[r].c = x.c
               THEN inTime \cup {x.c} ELSE inTime
  /\ UNCHANGED <<running, lastId, req, submitted, down, answered, told, mixed, overwritten>>

(* completeCommandAck, by the uploader thread: late without an entry. *)
CompleteAck(x) ==
  /\ running /\ x \in up
  /\ up' = up \ {x}
  /\ pending' = IF InUse(x.id) THEN [pending EXCEPT ![x.id] = "acked"] ELSE pending
  /\ inTime' = IF \E r \in Requesters : Busy(r) /\ req[r].c = x.c
               THEN inTime \cup {x.c} ELSE inTime
  /\ UNCHANGED <<running, lastId, req, submitted, down, answered, told, mixed, overwritten>>

(* Mutant: a time-out does not look at the entry again. *)
WaitEndsByClock(r) ==
  /\ req[r].pc = "wait"
  /\ pending' = [pending EXCEPT ![req[r].id] = NoEntry]
  /\ req' = [req EXCEPT ![r] = Free]
  /\ told' \in {told, IF pending[req[r].id] = "acked" THEN told \cup {req[r].c} ELSE told}
  /\ UNCHANGED <<running, lastId, submitted, link, answered, inTime, mixed, overwritten>>

(* waitCommandAck: by an answer, the time-out, the end of the program, or  *)
(* because the entry is gone.  The entry decides what the requester is     *)
(* told.                                                                   *)
WaitEnds(r) ==
  LET id == req[r].id IN
  /\ req[r].pc = "wait"
  /\ told' = IF pending[id] = "acked" THEN told \cup {req[r].c} ELSE told
  /\ pending' = [pending EXCEPT ![id] = NoEntry]
  /\ req' = [req EXCEPT ![r] = Free]
  /\ UNCHANGED <<running, lastId, submitted, link, answered, inTime, mixed, overwritten>>

CmdStop ==
  /\ running' = FALSE
  /\ UNCHANGED <<pending, lastId, req, submitted, link, chist>>

CmdNext ==
  \/ \E r \in Consoles, id \in Ids : Track(r, id)
  \/ \E r \in Clients : Reserve(r) \/ \E id \in Ids : OwnId(r, id)
  \/ \E r \in Requesters : SendFails(r) \/ Send(r) \/ WaitEnds(r)
  \/ \E x \in Commands : Answer(x) \/ Lose(x) \/ CompleteAck(x)
  \/ CmdStop

CmdSpec == CmdInit /\ [][CmdNext]_cvars

(***************************************************************************)
(* Properties                                                              *)
(***************************************************************************)

(* Variables stay in their ranges. *)
CmdTypeOK ==
  /\ running \in BOOLEAN
  /\ pending \in [Ids -> {NoEntry, "open", "acked"}]
  /\ lastId \in 0..MaxId
  /\ req \in [Requesters -> {Free} \cup [pc : {"send", "wait"}, id : Ids, c : Numbers]]
  /\ submitted \in 0..MaxCommands
  /\ down \subseteq Commands /\ up \subseteq Commands
  /\ answered \cup inTime \cup told \cup mixed \subseteq Numbers /\ overwritten \subseteq Ids

(* No entry is left behind: each belongs to a requester that will erase    *)
(* it, although overwriting and erasing by id let one requester's end take *)
(* away the entry of another.                                              *)
EntryHasWaiter ==
  \A i \in Ids : pending[i] # NoEntry => \E r \in Requesters : Busy(r) /\ req[r].id = i

(* A requester is told "acked" only for a command the device did answer,   *)
(* unless the id was shared with a command not over yet: the entry and the *)
(* answer name the id alone.                                               *)
AckIsOwn == told \subseteq answered \cup mixed

(* An answer that comes while its requester waits reaches it, however it   *)
(* races the time-out and the sending, unless the id was shared.           *)
InTimeIsTold ==
  \A c \in inTime \ mixed : c \in told \/ \E r \in Requesters : Busy(r) /\ req[r].c = c

(* Two clients wait under one id only if a tracked command once took that  *)
(* id from a client that was using it (and its end then erased the entry). *)
UniqueUnlessTracked ==
  \A r, s \in Clients :
    r # s /\ Busy(r) /\ Busy(s) /\ req[r].id = req[s].id => req[r].id \in overwritten
==============================================================================
