------------------------------- MODULE OtaTask -------------------------------
(***************************************************************************)
(* The life of an OTA task in the Linux gateway: OtaTaskManager over the   *)
(* SQLite table, the executor thread of executeOtaTask, the cancel flags,  *)
(* the admission counter and the per-device OTA mode of app_controller.cpp *)
(* and the requests of the HTTP API and of otactl.                         *)
(*                                                                         *)
(* Every executor and every request has an OtaTaskManager of its own: it   *)
(* reads the table once, when it is constructed, and from then on decides  *)
(* by its copy and overwrites the row.  The transfer itself is the module  *)
(* OtaTransfer; here it takes some time and succeeds or not.               *)
(***************************************************************************)
EXTENDS Naturals, FiniteSets, Sequences

CONSTANTS
  Tasks,          \* task_uuids
  DeviceOf,       \* DeviceOf[t]: the device task t is for
  MaxConcurrent,  \* kMaxConcurrentOtaTasks: 8 in the code
  Ops,            \* requests made: a subset of {"cancel", "retry"}
  MaxRequests,    \* bound: cancel and retry requests
  MaxRestarts,    \* bound: stops and crashes of the gateway
  StoreBusy       \* TRUE: a write may fail (SQLITE_BUSY)

ASSUME TaskAssumption ==
  /\ IsFiniteSet(Tasks)
  /\ DOMAIN DeviceOf = Tasks
  /\ MaxConcurrent \in Nat \ {0}
  /\ Ops \subseteq {"cancel", "retry"}
  /\ MaxRequests \in Nat /\ MaxRestarts \in Nat
  /\ StoreBusy \in BOOLEAN

VARIABLES
  table,      \* table[t]: the state column of ota_tasks
  exec,       \* exec[t]: the executor thread of t
  flag,       \* g_ota_cancel_flags
  active,     \* g_ota_active_tasks
  inOta,      \* g_ota_mode_devices: other commands answer device_in_ota
  muted,      \* g_ota_business_muted_devices, g_ota_transport_locked_devices
  client,     \* client[c]: the request the HTTP thread or otactl works on
  stopping,   \* running_ is false: AppController::stop was called
  requests,   \* bound: requests made
  restarts,   \* bound: stops and crashes
  sent,       \* history: the transfer of t was successful
  canceled    \* history: the flag of t was set while its executor ran, before its transfer was over

tvars == <<table, exec, flag, active, inOta, muted, client, stopping, requests, restarts, sent,
           canceled>>
modes == <<inOta, muted>>
bounds == <<stopping, requests, restarts>>

Devices == {DeviceOf[t] : t \in Tasks}
Clients == {"http", "cli"}

(* The path of a task without errors. *)
Chain == <<"CREATED", "WAIT_DEVICE_ONLINE", "PRECHECK", "PREPARE_DEVICE", "TRANSFERRING",
           "VERIFYING", "COMMITTING", "REBOOTING", "VERSION_CHECK", "HEALTH_CONFIRM", "SUCCESS">>
ErrorStates == {"FAILED", "CANCELED", "ROLLBACK"}
States == {Chain[k] : k \in 1..11} \cup ErrorStates
Terminal == {"SUCCESS"} \cup ErrorStates

CanTransition(from, to) ==
  \/ from = to
  \/ to \in ErrorStates
  \/ \E k \in 1..10 : from = Chain[k] /\ to = Chain[k + 1]

(* The executor's places; it holds an admission slot in the Holding ones. *)
Holding == {"open", "enter", "check", "lookup", "step", "begin", "transfer", "fail", "cancel", "leave"}
(* The places after otaCancelSet(task_uuid, false). *)
Running == Holding \ {"open", "enter"}
ExecPlaces == Holding \cup {"none", "launched", "turned", "rejected", "ended"}
Executors == [pc : ExecPlaces, k : 1..11, copy : States \cup {"none"}, res : {"none", "ok", "err"}]
NoExec == [pc |-> "none", k |-> 1, copy |-> "none", res |-> "none"]
Ended == [NoExec EXCEPT !.pc = "ended"]

NoRequest == [op |-> "none", pc |-> "idle"]
Requests == {NoRequest} \cup
  [op : {"cancel", "retry"}, task : Tasks, copy : States, pc : {"save", "flag"}]

Init ==
  /\ table = [t \in Tasks |-> "none"]
  /\ exec = [t \in Tasks |-> NoExec]
  /\ flag = [t \in Tasks |-> FALSE]
  /\ active = 0
  /\ inOta = {} /\ muted = {}
  /\ client = [c \in Clients |-> NoRequest]
  /\ stopping = FALSE
  /\ requests = 0 /\ restarts = 0
  /\ sent = [t \in Tasks |-> FALSE]
  /\ canceled = [t \in Tasks |-> FALSE]

(* saveTask: the row is written, or the table is busy.  The in-memory copy *)
(* has changed either way and the callers ignore the result.               *)
Saves(t, s) == {[table EXCEPT ![t] = s]} \cup (IF StoreBusy THEN {table} ELSE {})

At(t, pc) == exec[t].pc = pc
Put(t, e) == [exec EXCEPT ![t] = e]
Goto(t, pc) == Put(t, [exec[t] EXCEPT !.pc = pc])

(***************************************************************************)
(* The executor                                                            *)
(***************************************************************************)

(* handleOtaTaskRequestJson: create the row, launch the executor. *)
Create(t) ==
  /\ ~stopping
  /\ table[t] = "none"
  /\ table' = [table EXCEPT ![t] = "CREATED"]
  /\ exec' = Goto(t, "launched")
  /\ UNCHANGED <<flag, active, modes, client, bounds, sent, canceled>>

(* Mutant: one executor too many is admitted. *)
AdmitOneMore(t) ==
  /\ At(t, "launched")
  /\ active' = active + 1
  /\ exec' = Goto(t, IF active > MaxConcurrent THEN "turned" ELSE "open")
  /\ UNCHANGED <<table, flag, modes, client, bounds, sent, canceled>>

(* Admission: fetch_add first, fetch_sub when it was one too many. *)
Admit(t) ==
  /\ At(t, "launched")
  /\ active' = active + 1
  /\ exec' = Goto(t, IF active >= MaxConcurrent THEN "turned" ELSE "open")
  /\ UNCHANGED <<table, flag, modes, client, bounds, sent, canceled>>

TurnAway(t) ==
  /\ At(t, "turned")
  /\ active' = active - 1
  /\ exec' = Goto(t, "rejected")
  /\ UNCHANGED <<table, flag, modes, client, bounds, sent, canceled>>

(* "too many concurrent ota tasks": a manager that only fails the task. *)
Reject(t) ==
  /\ At(t, "rejected")
  /\ table' \in Saves(t, "FAILED")
  /\ flag' = [flag EXCEPT ![t] = FALSE]
  /\ exec' = Put(t, Ended)
  /\ UNCHANGED <<active, modes, client, bounds, sent, canceled>>

(* The executor's manager reads the table. *)
Open(t) ==
  /\ At(t, "open")
  /\ exec' = Put(t, [exec[t] EXCEPT !.pc = "enter", !.copy = table[t]])
  /\ UNCHANGED <<table, flag, active, modes, client, bounds, sent, canceled>>

(* otaCancelSet(task_uuid, false): a cancel request made so far is lost.   *)
(* Then otaDeviceEnter.                                                    *)
Enter(t) ==
  /\ At(t, "enter")
  /\ flag' = [flag EXCEPT ![t] = FALSE]
  /\ inOta' = inOta \cup {DeviceOf[t]}
  /\ exec' = Put(t, [exec[t] EXCEPT !.pc = "check", !.k = 2])
  /\ UNCHANGED <<table, active, muted, client, bounds, sent, canceled>>

(* Mutant: a cancel is not looked at any more after the transfer. *)
CheckCancelBefore(t) ==
  /\ At(t, "check")
  /\ exec' = Goto(t, CASE flag[t] /\ exec[t].res = "none" -> "cancel"
                       [] exec[t].res = "err" -> "fail"
                       [] ~flag[t] /\ exec[t].k = 4 -> "lookup"
                       [] ~flag[t] /\ exec[t].k = 6 /\ exec[t].res = "none" -> "begin"
                       [] OTHER -> "step")
  /\ UNCHANGED <<table, flag, active, modes, client, bounds, sent, canceled>>

(* Mutant: the result of the adapter is not looked at. *)
CheckIgnoringResult(t) ==
  /\ At(t, "check")
  /\ exec' = Goto(t, CASE flag[t] -> "cancel"
                       [] ~flag[t] /\ exec[t].k = 4 -> "lookup"
                       [] ~flag[t] /\ exec[t].k = 6 /\ exec[t].res = "none" -> "begin"
                       [] OTHER -> "step")
  /\ UNCHANGED <<table, flag, active, modes, client, bounds, sent, canceled>>

(* if (canceled()) { onCanceled(); return; } and what comes after it. *)
Check(t) ==
  /\ At(t, "check")
  /\ exec' = Goto(t, CASE flag[t] -> "cancel"
                       [] ~flag[t] /\ exec[t].res = "err" -> "fail"
                       [] ~flag[t] /\ exec[t].k = 4 -> "lookup"
                       [] ~flag[t] /\ exec[t].k = 6 /\ exec[t].res = "none" -> "begin"
                       [] OTHER -> "step")
  /\ UNCHANGED <<table, flag, active, modes, client, bounds, sent, canceled>>

(* The firmware of the task is in the store, or not. *)
Lookup(t) ==
  /\ At(t, "lookup")
  /\ \E pc \in {"step", "fail"} : exec' = Goto(t, pc)
  /\ UNCHANGED <<table, flag, active, modes, client, bounds, sent, canceled>>

(* updateState to Chain[k]; an invalid transition leaves copy and row as   *)
(* they are and the executor goes on.                                      *)
Moved(t, to) == IF CanTransition(exec[t].copy, to) THEN to ELSE exec[t].copy
SavedMove(t, to) == IF CanTransition(exec[t].copy, to) THEN Saves(t, to) ELSE {table}

(* Mutant: an invalid transition is tried again. *)
StepAgain(t) ==
  LET k == exec[t].k IN
  /\ At(t, "step")
  /\ table' \in SavedMove(t, Chain[k])
  /\ exec' = Put(t, [exec[t] EXCEPT !.copy = Moved(t, Chain[k]),
                                    !.k = IF k = 11 \/ ~CanTransition(exec[t].copy, Chain[k]) THEN k ELSE k + 1,
                                    !.pc = IF k = 11 THEN "leave" ELSE "check"])
  /\ flag' = IF k = 11 THEN [flag EXCEPT ![t] = FALSE] ELSE flag
  /\ UNCHANGED <<active, modes, client, bounds, sent, canceled>>

Step(t) ==
  LET k == exec[t].k IN
  /\ At(t, "step")
  /\ table' \in SavedMove(t, Chain[k])
  /\ exec' = Put(t, [exec[t] EXCEPT !.copy = Moved(t, Chain[k]),
                                    !.k = IF k = 11 THEN 11 ELSE k + 1,
                                    !.pc = IF k = 11 THEN "leave" ELSE "check"])
  /\ flag' = IF k = 11 THEN [flag EXCEPT ![t] = FALSE] ELSE flag
  /\ UNCHANGED <<active, modes, client, bounds, sent, canceled>>

(* otaMuteBusiness, otaLockTransport, read the image. *)
Begin(t) ==
  /\ At(t, "begin")
  /\ muted' = muted \cup {DeviceOf[t]}
  /\ \E pc \in {"transfer", "fail"} : exec' = Goto(t, pc)
  /\ UNCHANGED <<table, flag, active, inOta, client, bounds, sent, canceled>>

(* The progress callback saves TRANSFERRING again. *)
Progress(t) ==
  /\ At(t, "transfer")
  /\ exec' = Put(t, [exec[t] EXCEPT !.copy = Moved(t, "TRANSFERRING")])
  /\ table' \in SavedMove(t, "TRANSFERRING")
  /\ UNCHANGED <<flag, active, modes, client, bounds, sent, canceled>>

(* The adapter returns; once the gateway stops its senders only fail. *)
EndTransfer(t) ==
  /\ At(t, "transfer")
  /\ \E r \in {"ok", "err"} :
       /\ stopping => r = "err"
       /\ exec' = Put(t, [exec[t] EXCEPT !.pc = "check", !.res = r])
       /\ sent' = [sent EXCEPT ![t] = @ \/ r = "ok"]
  /\ UNCHANGED <<table, flag, active, modes, client, bounds, canceled>>

(* mgr.fail: no transition is checked. *)
Fail(t) ==
  /\ At(t, "fail")
  /\ table' \in Saves(t, "FAILED")
  /\ exec' = Put(t, [exec[t] EXCEPT !.pc = "leave", !.copy = "FAILED"])
  /\ flag' = [flag EXCEPT ![t] = FALSE]
  /\ UNCHANGED <<active, modes, client, bounds, sent, canceled>>

(* onCanceled *)
OnCanceled(t) ==
  /\ At(t, "cancel")
  /\ table' \in SavedMove(t, "CANCELED")
  /\ exec' = Put(t, [exec[t] EXCEPT !.pc = "leave", !.copy = Moved(t, "CANCELED")])
  /\ flag' = [flag EXCEPT ![t] = FALSE]
  /\ UNCHANGED <<active, modes, client, bounds, sent, canceled>>

(* Mutant: no guard unmutes the device. *)
LeaveMuted(t) ==
  /\ At(t, "leave")
  /\ inOta' = inOta \ {DeviceOf[t]}
  /\ active' = active - 1
  /\ exec' = Put(t, Ended)
  /\ UNCHANGED <<table, flag, muted, client, bounds, sent, canceled>>

(* The guards' destructors: the device leaves the OTA mode and is unmuted  *)
(* whoever else works on it.                                               *)
Leave(t) ==
  /\ At(t, "leave")
  /\ inOta' = inOta \ {DeviceOf[t]} /\ muted' = muted \ {DeviceOf[t]}
  /\ active' = active - 1
  /\ exec' = Put(t, Ended)
  /\ UNCHANGED <<table, flag, client, bounds, sent, canceled>>

(* Every step of the executor but the progress reports. *)
ExecStep(t) ==
  \/ Admit(t) \/ TurnAway(t) \/ Reject(t) \/ Open(t) \/ Enter(t) \/ Check(t) \/ Lookup(t)
  \/ Step(t) \/ Begin(t) \/ EndTransfer(t) \/ Fail(t) \/ OnCanceled(t) \/ Leave(t)

(***************************************************************************)
(* Requests                                                                *)
(***************************************************************************)

(* Mutant: a task nobody created is not refused. *)
RequestUnknown(c, op, t) ==
  /\ client[c].pc = "idle"
  /\ requests < MaxRequests
  /\ requests' = requests + 1
  /\ client' = [client EXCEPT ![c] = [op |-> op, task |-> t, copy |-> table[t], pc |-> "save"]]
  /\ UNCHANGED <<table, exec, flag, active, modes, stopping, restarts, sent, canceled>>

(* A request constructs its manager: the row is read. *)
Request(c, op, t) ==
  /\ client[c].pc = "idle"
  /\ requests < MaxRequests
  /\ table[t] # "none"
  /\ requests' = requests + 1
  /\ client' = [client EXCEPT ![c] = [op |-> op, task |-> t, copy |-> table[t], pc |-> "save"]]
  /\ UNCHANGED <<table, exec, flag, active, modes, stopping, restarts, sent, canceled>>

Done(c) == [client EXCEPT ![c] = NoRequest]

(* OtaTaskManager::cancel; the HTTP thread then sets the flag, otactl, a   *)
(* process of its own, cannot.                                             *)
SaveCancel(c) ==
  LET t == client[c].task IN
  /\ client[c].op = "cancel" /\ client[c].pc = "save"
  /\ CanTransition(client[c].copy, "CANCELED")
  /\ table' \in Saves(t, "CANCELED")
  /\ client' = IF c = "http" /\ table' = [table EXCEPT ![t] = "CANCELED"]
               THEN [client EXCEPT ![c].pc = "flag"] ELSE Done(c)
  /\ UNCHANGED <<exec, flag, active, modes, bounds, sent, canceled>>

SetFlag(c) ==
  LET t == client[c].task IN
  /\ client[c].pc = "flag"
  /\ flag' = [flag EXCEPT ![t] = TRUE]
  /\ canceled' = [canceled EXCEPT ![t] = exec[t].pc \in Running /\ exec[t].res = "none"]
  /\ client' = Done(c)
  /\ UNCHANGED <<table, exec, active, modes, bounds, sent>>

(* OtaTaskManager::retry: the row is CREATED again; nothing is launched. *)
SaveRetry(c) ==
  LET t == client[c].task IN
  /\ client[c].op = "retry" /\ client[c].pc = "save"
  /\ IF client[c].copy \in {"FAILED", "CANCELED"}
     THEN /\ table' \in Saves(t, "CREATED")
          /\ canceled' = [canceled EXCEPT ![t] = FALSE]
     ELSE UNCHANGED <<table, canceled>>
  /\ client' = Done(c)
  /\ UNCHANGED <<exec, flag, active, modes, bounds, sent>>

ClientStep(c) == SaveCancel(c) \/ SetFlag(c) \/ SaveRetry(c)

(***************************************************************************)
(* The process                                                             *)
(***************************************************************************)

(* AppController::stop: cancelActiveOtaTasks, then waitForOtaTasks. *)
Stop ==
  /\ ~stopping
  /\ restarts < MaxRestarts
  /\ restarts' = restarts + 1
  /\ stopping' = TRUE
  /\ flag' = [t \in Tasks |-> flag[t] \/ exec[t].pc \notin {"none", "ended"}]
  /\ UNCHANGED <<table, exec, active, modes, client, requests, sent, canceled>>

(* Only the table outlives the process. *)
Restarted ==
  /\ exec' = [t \in Tasks |-> IF exec[t].pc = "none" THEN NoExec ELSE Ended]
  /\ flag' = [t \in Tasks |-> FALSE]
  /\ active' = 0
  /\ inOta' = {} /\ muted' = {}
  /\ client' = Done("http")
  /\ stopping' = FALSE

StartAgain ==
  /\ stopping
  /\ \A t \in Tasks : exec[t].pc \in {"none", "ended"}
  /\ client["http"].pc = "idle"
  /\ Restarted
  /\ UNCHANGED <<table, requests, restarts, sent, canceled>>

Crash ==
  /\ restarts < MaxRestarts
  /\ restarts' = restarts + 1
  /\ Restarted
  /\ UNCHANGED <<table, requests, sent, canceled>>

Next ==
  \/ \E t \in Tasks : Create(t) \/ ExecStep(t) \/ Progress(t)
  \/ \E c \in Clients : ClientStep(c) \/ \E t \in Tasks, op \in Ops : Request(c, op, t)
  \/ Stop \/ StartAgain \/ Crash

Spec == Init /\ [][Next]_tvars

(* Threads are scheduled and an adapter's run is bounded (OtaTransfer,     *)
(* SessionAdvances).                                                           *)
Fairness == \A t \in Tasks : WF_tvars(ExecStep(t))
LiveSpec == Spec /\ Fairness

(***************************************************************************)
(* Properties                                                              *)
(***************************************************************************)

(* Every variable stays in its range. *)
TypeOK ==
  /\ table \in [Tasks -> States \cup {"none"}]
  /\ exec \in [Tasks -> Executors]
  /\ flag \in [Tasks -> BOOLEAN]
  /\ active \in Nat
  /\ inOta \subseteq Devices /\ muted \subseteq Devices
  /\ client \in [Clients -> Requests]
  /\ stopping \in BOOLEAN
  /\ requests \in 0..MaxRequests /\ restarts \in 0..MaxRestarts
  /\ sent \in [Tasks -> BOOLEAN] /\ canceled \in [Tasks -> BOOLEAN]

Holders == {t \in Tasks : exec[t].pc \in Holding}

(* Admission: at most MaxConcurrent executors work at any time, and the    *)
(* counter is exactly the executors that hold a slot or are about to be    *)
(* turned away, so no slot leaks on any way out of executeOtaTask.         *)
SlotAccounting ==
  /\ Cardinality(Holders) <= MaxConcurrent
  /\ active = Cardinality({t \in Tasks : exec[t].pc \in Holding \cup {"turned"}})

(* A row says SUCCESS only when the transfer of that task succeeded, in    *)
(* spite of the stale copies executors and requests overwrite it with.     *)
SuccessMeansSent == \A t \in Tasks : table[t] = "SUCCESS" => sent[t]

(* A device is in OTA mode, muted and its transport locked only while an   *)
(* executor works on it: no way out of executeOtaTask leaves it so.        *)
MutedOnlyDuringTask == \A d \in inOta \cup muted : \E t \in Holders : DeviceOf[t] = d

(* An executor ends: no way through executeOtaTask waits for ever, whatever *)
(* requests, failing writes and stops change under it.  (Its row need not  *)
(* be in a terminal state then: a busy table keeps the old one.)           *)
ExecutorEnds == \A t \in Tasks : At(t, "launched") ~> At(t, "ended")

(* ota_fault_injection.md, scenario 4: a task cancelled before completion  *)
(* goes to CANCELED.  A cancel whose flag is set while the executor runs   *)
(* and before its transfer is over keeps the row from SUCCESS, although    *)
(* the executor's copy does not know the CANCELED of the row.  (A flag set *)
(* before Enter is wiped by it, and such a task may end as a SUCCESS.)     *)
CancelHonoured ==
  \A t \in Tasks : canceled[t] /\ At(t, "ended") => table[t] # "SUCCESS"
==============================================================================
