---------------------------- MODULE OtaTaskProofs ----------------------------
(***************************************************************************)
(* Proofs about OtaTask for any number of tasks, devices, requests and     *)
(* restarts: its types, that the admission counter never leaks a slot,     *)
(* that a row says SUCCESS only after a successful transfer, and that a    *)
(* cancel in time has its effect.                                          *)
(***************************************************************************)
EXTENDS OtaTask, FiniteSetTheorems, TLAPS

(* The states of a task whose transfer is over. *)
Late == {"VERIFYING", "COMMITTING", "REBOOTING", "VERSION_CHECK", "HEALTH_CONFIRM", "SUCCESS"}

(* The executors the admission counter counts. *)
Counted == {t \in Tasks : exec[t].pc \in Holding \cup {"turned"}}

(* Why a row in a late state had its transfer: the executor passes the     *)
(* check at k = 6 only with the result "ok", its copy is late only after   *)
(* that, and rows are late only by such copies.                            *)
Justified(x, row, done) ==
  /\ row = "none" => x.pc = "none"
  /\ row \in Late => done
  /\ x.copy \in Late => done
  /\ x.res = "ok" => done
  /\ x.pc = "check" /\ x.k > 6 => x.res = "ok"
  /\ x.pc = "step" /\ x.k >= 6 => x.res = "ok"
  /\ x.pc = "lookup" => x.k = 4
  /\ x.pc \in {"begin", "transfer"} => x.k = 6

TaskInv == \A t \in Tasks : Justified(exec[t], table[t], sent[t])

(* The inductive invariant. *)
IInv == TypeOK /\ TaskInv /\ SlotAccounting

(* The eleven states of the chain: late from the sixth on. *)
LEMMA ChainStates ==
  /\ \A k \in 1..11 : Chain[k] \in States
  /\ \A k \in 1..5 : Chain[k] \notin Late
  /\ \A k \in 1..11 : Chain[k] \in Late => k >= 6
  /\ "SUCCESS" \in Late /\ "CREATED" \in States /\ "TRANSFERRING" \in States
  /\ "TRANSFERRING" \notin Late /\ "CREATED" \notin Late
  /\ ErrorStates \subseteq States /\ ErrorStates \cap Late = {}
  /\ "none" \notin Late /\ "none" \notin States
<1>1. \A k \in 1..11 : k = 1 \/ k = 2 \/ k = 3 \/ k = 4 \/ k = 5 \/ k = 6 \/ k = 7
                       \/ k = 8 \/ k = 9 \/ k = 10 \/ k = 11
  OBVIOUS
<1>2. \A k \in 1..5 : k = 1 \/ k = 2 \/ k = 3 \/ k = 4 \/ k = 5
  OBVIOUS
<1>3. /\ Chain[1] = "CREATED" /\ Chain[2] = "WAIT_DEVICE_ONLINE" /\ Chain[3] = "PRECHECK"
      /\ Chain[4] = "PREPARE_DEVICE" /\ Chain[5] = "TRANSFERRING" /\ Chain[6] = "VERIFYING"
      /\ Chain[7] = "COMMITTING" /\ Chain[8] = "REBOOTING" /\ Chain[9] = "VERSION_CHECK"
      /\ Chain[10] = "HEALTH_CONFIRM" /\ Chain[11] = "SUCCESS"
  BY DEF Chain
<1>4. \A k \in 1..11 : Chain[k] \in States
  BY DEF States
<1>5. \A k \in 1..5 : Chain[k] \notin Late
  BY <1>2, <1>3 DEF Late
<1>6. \A k \in 1..11 : Chain[k] \in Late => k >= 6
  BY <1>1, <1>3 DEF Late
<1>7. "CREATED" \in States /\ "TRANSFERRING" \in States
  <2>1. Chain[1] \in States /\ Chain[5] \in States
    BY <1>4
  <2> QED BY <2>1, <1>3
<1>8. "none" \notin States
  <2>1. \A k \in 1..11 : Chain[k] # "none"
    BY <1>1, <1>3
  <2> QED BY <2>1 DEF States, ErrorStates
<1> QED BY <1>4, <1>5, <1>6, <1>7, <1>8 DEF Late, ErrorStates, States

(* A busy or a successful write: at most the row of the task changes. *)
LEMMA SavesRow ==
  ASSUME TypeOK, NEW t \in Tasks, NEW s \in States, NEW tab, tab \in Saves(t, s)
  PROVE  /\ tab \in [Tasks -> States \cup {"none"}]
         /\ \A u \in Tasks : u # t => tab[u] = table[u]
         /\ tab[t] = s \/ tab[t] = table[t]
<1>1. tab = [table EXCEPT ![t] = s] \/ tab = table
  BY DEF Saves
<1> QED BY <1>1 DEF TypeOK

(* updateState: the copy moves to the state asked for or stays. *)
LEMMA MoveRow ==
  ASSUME TypeOK, NEW t \in Tasks, NEW s \in States, NEW tab, tab \in SavedMove(t, s)
  PROVE  /\ tab \in [Tasks -> States \cup {"none"}]
         /\ \A u \in Tasks : u # t => tab[u] = table[u]
         /\ tab[t] = s \/ tab[t] = table[t]
         /\ Moved(t, s) \in States \cup {"none"}
         /\ Moved(t, s) = s \/ Moved(t, s) = exec[t].copy
<1>1. CASE CanTransition(exec[t].copy, s)
  BY <1>1, SavesRow DEF SavedMove, Moved
<1>2. CASE ~CanTransition(exec[t].copy, s)
  BY <1>2 DEF SavedMove, Moved, TypeOK, Executors
<1> QED BY <1>1, <1>2
(* A step of one executor changes its own record only. *)
LEMMA PutRow ==
  ASSUME TypeOK, NEW t \in Tasks, NEW e \in Executors
  PROVE  /\ Put(t, e) \in [Tasks -> Executors]
         /\ Put(t, e)[t] = e
         /\ \A u \in Tasks : u # t => Put(t, e)[u] = exec[u]
BY DEF TypeOK, Put

LEMMA ExecFields ==
  ASSUME TypeOK, NEW t \in Tasks
  PROVE  /\ exec[t] \in Executors
         /\ exec[t].pc \in ExecPlaces /\ exec[t].k \in 1..11
         /\ exec[t].copy \in States \cup {"none"} /\ exec[t].res \in {"none", "ok", "err"}
         /\ exec[t] = [pc |-> exec[t].pc, k |-> exec[t].k, copy |-> exec[t].copy, res |-> exec[t].res]
BY DEF TypeOK, Executors

LEMMA Places ==
  /\ Holding \subseteq ExecPlaces
  /\ {"none", "launched", "turned", "rejected", "ended"} \subseteq ExecPlaces
  /\ {"none", "launched", "turned", "rejected", "ended"} \cap Holding = {}
  /\ {"open", "enter", "check", "lookup", "step", "begin", "transfer", "fail", "cancel", "leave"}
       \subseteq Holding
BY DEF ExecPlaces, Holding

(* An executor's record with new values in its fields. *)
Placed(x, p, k) == [x EXCEPT !.pc = p, !.k = k]
Moving(x, c, k, p) == [x EXCEPT !.copy = c, !.k = k, !.pc = p]

LEMMA ExecPlaced ==
  ASSUME NEW x \in Executors, NEW p \in ExecPlaces, NEW k \in 1..11
  PROVE  /\ Placed(x, p, k) \in Executors
         /\ Placed(x, p, k).pc = p /\ Placed(x, p, k).k = k
         /\ Placed(x, p, k).copy = x.copy /\ Placed(x, p, k).res = x.res
BY DEF Executors, Placed

LEMMA EndedRow == Ended \in Executors /\ Ended = [pc |-> "ended", k |-> 1, copy |-> "none", res |-> "none"]
BY DEF Ended, NoExec, Executors, ExecPlaces

(* The invariant on late rows after a step of executor t. *)
LEMMA TaskPut ==
  ASSUME TypeOK, TaskInv, NEW t \in Tasks, NEW e \in Executors, exec' = Put(t, e),
         \A u \in Tasks : u # t => table'[u] = table[u],
         \A u \in Tasks : u # t => sent'[u] = sent[u],
         Justified(e, table'[t], sent'[t])
  PROVE  TaskInv'
<1> SUFFICES ASSUME NEW u \in Tasks PROVE Justified(exec'[u], table'[u], sent'[u])
  BY DEF TaskInv
<1>1. CASE u = t
  BY <1>1, PutRow
<1>2. CASE u # t
  <2>1. exec'[u] = exec[u] /\ table'[u] = table[u] /\ sent'[u] = sent[u]
    BY <1>2, PutRow
  <2> QED BY <2>1 DEF TaskInv
<1> QED BY <1>1, <1>2

-----------------------------------------------------------------------------
(* Admission. *)

LEMMA CountedFinite ==
  /\ IsFiniteSet(Counted) /\ IsFiniteSet(Holders)
  /\ Cardinality(Counted) \in Nat /\ Cardinality(Holders) \in Nat
  /\ Cardinality(Holders) <= Cardinality(Counted)
<1>1. IsFiniteSet(Counted) /\ IsFiniteSet(Holders)
  BY TaskAssumption, FS_Subset DEF Counted, Holders
<1>2. Holders \subseteq Counted
  BY DEF Counted, Holders
<1> QED BY <1>1, <1>2, FS_Subset, FS_CardinalityType

(* A step that neither takes nor gives back a slot. *)
LEMMA SlotSame ==
  ASSUME TypeOK, SlotAccounting, active' = active,
         \A t \in Tasks : /\ exec'[t].pc \in Holding <=> exec[t].pc \in Holding
                          /\ exec'[t].pc = "turned" <=> exec[t].pc = "turned"
  PROVE  SlotAccounting'
<1>1. Holders' = Holders /\ Counted' = Counted
  BY DEF Holders, Counted
<1> QED BY <1>1 DEF SlotAccounting, Counted

LEMMA SlotSamePut ==
  ASSUME TypeOK, SlotAccounting, active' = active, NEW t \in Tasks, NEW e \in Executors,
         exec' = Put(t, e),
         e.pc \in Holding <=> exec[t].pc \in Holding,
         e.pc = "turned" <=> exec[t].pc = "turned"
  PROVE  SlotAccounting'
<1>1. ASSUME NEW u \in Tasks
      PROVE  /\ exec'[u].pc \in Holding <=> exec[u].pc \in Holding
             /\ exec'[u].pc = "turned" <=> exec[u].pc = "turned"
  <2>1. CASE u = t
    BY <2>1, PutRow
  <2>2. CASE u # t
    BY <2>2, PutRow
  <2> QED BY <2>1, <2>2
<1> QED BY <1>1, SlotSame

(* Admit: the counter was below its limit, or the executor is turned away. *)
LEMMA SlotTaken ==
  ASSUME TypeOK, SlotAccounting, active' = active + 1, NEW t \in Tasks, NEW e \in Executors,
         exec' = Put(t, e), exec[t].pc \notin Holding \cup {"turned"},
         e.pc \in Holding \cup {"turned"},
         e.pc \in Holding => active < MaxConcurrent
  PROVE  SlotAccounting'
<1>1. Counted' = Counted \cup {t} /\ t \notin Counted
  BY PutRow DEF Counted
<1>2. Cardinality(Counted') = Cardinality(Counted) + 1
  BY <1>1, CountedFinite, FS_AddElement
<1>3. Cardinality(Holders') <= MaxConcurrent
  <2>1. CASE e.pc \in Holding
    <3>1. Holders' = Holders \cup {t} /\ t \notin Holders
      BY <2>1, PutRow DEF Holders
    <3>2. Cardinality(Holders') = Cardinality(Holders) + 1
      BY <3>1, CountedFinite, FS_AddElement
    <3>3. Cardinality(Holders) <= active
      BY CountedFinite DEF SlotAccounting, Counted
    <3> QED BY <2>1, <3>2, <3>3, CountedFinite, TaskAssumption DEF TypeOK
  <2>2. CASE e.pc = "turned"
    <3>1. "turned" \notin Holding
      BY DEF Holding
    <3>2. \A u \in Tasks : exec'[u].pc \in Holding <=> exec[u].pc \in Holding
      <4>1. exec'[t].pc \notin Holding /\ exec[t].pc \notin Holding
        BY <2>2, <3>1, PutRow
      <4>2. \A u \in Tasks : u # t => exec'[u] = exec[u]
        BY PutRow
      <4> QED BY <4>1, <4>2
    <3>3. Holders' = Holders
      BY <3>2 DEF Holders
    <3> QED BY <3>3 DEF SlotAccounting
  <2> QED BY <2>1, <2>2
<1>4. active' = Cardinality(Counted')
  BY <1>2 DEF SlotAccounting, Counted
<1> QED BY <1>3, <1>4 DEF SlotAccounting, Counted

(* TurnAway and Leave. *)
LEMMA SlotReleased ==
  ASSUME TypeOK, SlotAccounting, active' = active - 1, NEW t \in Tasks, NEW e \in Executors,
         exec' = Put(t, e), exec[t].pc \in Holding \cup {"turned"},
         e.pc \notin Holding \cup {"turned"}
  PROVE  SlotAccounting' /\ active' \in Nat
<1>1. Counted' = Counted \ {t} /\ t \in Counted
  BY PutRow DEF Counted
<1>2. Cardinality(Counted') = Cardinality(Counted) - 1
  BY <1>1, CountedFinite, FS_RemoveElement
<1>3. Holders' \subseteq Holders
  <2>1. exec'[t].pc \notin Holding
    BY PutRow
  <2>2. \A u \in Tasks : u # t => exec'[u] = exec[u]
    BY PutRow
  <2> QED BY <2>1, <2>2 DEF Holders
<1>4. Cardinality(Holders') <= Cardinality(Holders) /\ Cardinality(Holders') \in Nat
  BY <1>3, CountedFinite, FS_Subset, FS_CardinalityType
<1>5. Cardinality(Holders') <= MaxConcurrent
  BY <1>4, CountedFinite, TaskAssumption DEF SlotAccounting
<1>6. active' = Cardinality(Counted') /\ Cardinality(Counted') \in Nat
  <2>1. IsFiniteSet(Counted')
    BY <1>1, CountedFinite, FS_Subset
  <2> QED BY <2>1, <1>2, FS_CardinalityType DEF SlotAccounting, Counted
<1> QED BY <1>5, <1>6 DEF SlotAccounting, Counted

-----------------------------------------------------------------------------
(* Preservation by the executor. *)

(* How the place of an executor and the counter change together. *)
SlotEffect(t, e) ==
  \/ /\ active' = active
     /\ e.pc \in Holding <=> exec[t].pc \in Holding
     /\ e.pc = "turned" <=> exec[t].pc = "turned"
  \/ /\ active' = active + 1
     /\ exec[t].pc \notin Holding \cup {"turned"}
     /\ e.pc \in Holding \cup {"turned"}
     /\ e.pc \in Holding => active < MaxConcurrent
  \/ /\ active' = active - 1
     /\ exec[t].pc \in Holding \cup {"turned"}
     /\ e.pc \notin Holding \cup {"turned"}

(* What is left to show of a step of executor t that makes its record e. *)
LEMMA ExecFinish ==
  ASSUME IInv, NEW t \in Tasks, NEW e \in Executors, exec' = Put(t, e),
         table' \in [Tasks -> States \cup {"none"}],
         \A u \in Tasks : u # t => table'[u] = table[u],
         flag' \in [Tasks -> BOOLEAN], inOta' \subseteq Devices, muted' \subseteq Devices,
         sent' \in [Tasks -> BOOLEAN], \A u \in Tasks : u # t => sent'[u] = sent[u],
         UNCHANGED <<client, bounds, canceled>>,
         Justified(e, table'[t], sent'[t]),
         SlotEffect(t, e)
  PROVE  IInv'
<1> USE DEF IInv
<1>1. TaskInv'
  BY TaskPut
<1>2. SlotAccounting' /\ active' \in Nat
  <2>1. CASE active' = active /\ (e.pc \in Holding <=> exec[t].pc \in Holding)
             /\ (e.pc = "turned" <=> exec[t].pc = "turned")
    BY <2>1, SlotSamePut DEF TypeOK
  <2>2. CASE active' = active + 1 /\ exec[t].pc \notin Holding \cup {"turned"}
             /\ e.pc \in Holding \cup {"turned"} /\ (e.pc \in Holding => active < MaxConcurrent)
    <3>1. SlotAccounting'
      BY <2>2, SlotTaken
    <3> QED BY <2>2, <3>1 DEF TypeOK
  <2>3. CASE active' = active - 1 /\ exec[t].pc \in Holding \cup {"turned"}
             /\ e.pc \notin Holding \cup {"turned"}
    BY <2>3, SlotReleased
  <2> QED BY <2>1, <2>2, <2>3 DEF SlotEffect
<1>3. TypeOK'
  BY <1>2, PutRow DEF TypeOK, bounds, modes
<1> QED BY <1>1, <1>2, <1>3

(* A Goto keeps everything but the place. *)
LEMMA GotoRow ==
  ASSUME TypeOK, NEW t \in Tasks, NEW p \in ExecPlaces
  PROVE  \E e \in Executors :
           /\ Goto(t, p) = Put(t, e)
           /\ e.pc = p /\ e.k = exec[t].k /\ e.copy = exec[t].copy /\ e.res = exec[t].res
<1> DEFINE e == [exec[t] EXCEPT !.pc = p]
<1>1. e \in Executors /\ Goto(t, p) = Put(t, e)
  BY ExecFields DEF Executors, Goto
<1>2. e.pc = p /\ e.k = exec[t].k /\ e.copy = exec[t].copy /\ e.res = exec[t].res
  BY ExecFields
<1> QED BY <1>1, <1>2

LEMMA ExecPreserves ==
  ASSUME IInv, NEW t \in Tasks, ExecStep(t) \/ Create(t) \/ Progress(t)
  PROVE  IInv'
<1>a. /\ TypeOK /\ exec[t].k \in 1..11 /\ exec[t].copy \in States \cup {"none"}
      /\ exec[t].res \in {"none", "ok", "err"}
      /\ table \in [Tasks -> States \cup {"none"}] /\ flag \in [Tasks -> BOOLEAN]
      /\ inOta \subseteq Devices /\ muted \subseteq Devices /\ sent \in [Tasks -> BOOLEAN] /\ active \in Nat
  BY ExecFields DEF IInv, TypeOK
<1>j. Justified(exec[t], table[t], sent[t])
  BY DEF IInv, TaskInv
<1>s. /\ "FAILED" \in States \ Late /\ "CANCELED" \in States \ Late /\ "none" \notin Late
      /\ "CREATED" \in States \ Late /\ "TRANSFERRING" \in States \ Late
      /\ "none" \notin States
  BY ChainStates DEF ErrorStates
<1>d. DeviceOf[t] \in Devices
  BY DEF Devices
<1>1. CASE Create(t)
  <2>1. PICK e \in Executors :
           exec' = Put(t, e) /\ e.pc = "launched" /\ e.copy = exec[t].copy /\ e.res = exec[t].res
    BY <1>1, <1>a, GotoRow, Places DEF Create
  <2>2. /\ table' \in [Tasks -> States \cup {"none"}] /\ table'[t] = "CREATED"
        /\ \A u \in Tasks : u # t => table'[u] = table[u]
    BY <1>1, <1>a, <1>s DEF Create
  <2>3. Justified(e, table'[t], sent'[t])
    BY <1>1, <1>j, <1>s, <2>1, <2>2 DEF Create, Justified
  <2>4. SlotEffect(t, e)
    BY <1>1, <1>j, <2>1, Places DEF Create, SlotEffect, Justified
  <2> QED BY <1>1, <1>a, <2>1, <2>2, <2>3, <2>4, ExecFinish DEF Create, bounds, modes
<1>2. CASE Admit(t)
  <2>1. "turned" \in ExecPlaces /\ "open" \in ExecPlaces
    BY Places
  <2>2. PICK e \in Executors :
           /\ exec' = Put(t, e) /\ e.copy = exec[t].copy /\ e.res = exec[t].res
           /\ e.pc = IF active >= MaxConcurrent THEN "turned" ELSE "open"
    BY <1>2, <1>a, <2>1, GotoRow DEF Admit
  <2>3. Justified(e, table'[t], sent'[t])
    BY <1>2, <1>j, <2>2 DEF Admit, At, Justified
  <2>4. SlotEffect(t, e)
    BY <1>2, <1>a, <2>2, TaskAssumption DEF Admit, At, SlotEffect, Holding
  <2> QED BY <1>2, <1>a, <2>2, <2>3, <2>4, ExecFinish DEF Admit, bounds, modes
<1>3. CASE TurnAway(t)
  <2>1. PICK e \in Executors :
           /\ exec' = Put(t, e) /\ e.pc = "rejected" /\ e.copy = exec[t].copy /\ e.res = exec[t].res
    BY <1>3, <1>a, GotoRow, Places DEF TurnAway
  <2>2. Justified(e, table'[t], sent'[t])
    BY <1>3, <1>j, <2>1 DEF TurnAway, At, Justified
  <2>3. SlotEffect(t, e)
    BY <1>3, <2>1 DEF TurnAway, At, SlotEffect, Holding
  <2> QED BY <1>3, <1>a, <2>1, <2>2, <2>3, ExecFinish DEF TurnAway, bounds, modes
<1>4. CASE Reject(t)
  <2>1. /\ table' \in [Tasks -> States \cup {"none"}] /\ flag' \in [Tasks -> BOOLEAN]
        /\ \A u \in Tasks : u # t => table'[u] = table[u]
        /\ table'[t] = "FAILED" \/ table'[t] = table[t]
    BY <1>4, <1>a, <1>s, SavesRow DEF Reject
  <2>2. Justified(Ended, table'[t], sent'[t])
    BY <1>4, <1>j, <1>s, <2>1, EndedRow DEF Reject, At, Justified
  <2>3. SlotEffect(t, Ended)
    BY <1>4, EndedRow DEF Reject, At, SlotEffect, Holding
  <2> QED BY <1>4, <1>a, <2>1, <2>2, <2>3, EndedRow, ExecFinish DEF Reject, bounds, modes
<1>5. CASE Open(t)
  <2> DEFINE e == [exec[t] EXCEPT !.pc = "enter", !.copy = table[t]]
  <2>1. e \in Executors /\ e.pc = "enter" /\ e.copy = table[t] /\ e.res = exec[t].res
    BY <1>a, Places, ExecFields DEF Executors
  <2>2. Justified(e, table'[t], sent'[t])
    BY <1>5, <1>j, <2>1 DEF Open, At, Justified
  <2>3. SlotEffect(t, e)
    BY <1>5, <2>1 DEF Open, At, SlotEffect, Holding
  <2>4. exec' = Put(t, e)
    BY <1>5 DEF Open
  <2> HIDE DEF e
  <2> QED BY <1>5, <1>a, <2>1, <2>2, <2>3, <2>4, ExecFinish DEF Open, bounds, modes
<1>6. CASE Enter(t)
  <2> DEFINE e == Placed(exec[t], "check", 2)
  <2>1. e \in Executors /\ e.pc = "check" /\ e.k = 2 /\ e.copy = exec[t].copy /\ e.res = exec[t].res
    <3>1. exec[t] \in Executors /\ "check" \in ExecPlaces
      BY <1>a, Places, ExecFields
    <3>2. 2 \in 1..11
      OBVIOUS
    <3>3. e \in Executors
      BY <3>1, <3>2, ExecPlaced, ZenonT(60)
    <3>4. e.pc = "check" /\ e.copy = exec[t].copy /\ e.res = exec[t].res
      BY <3>1, <3>2, ExecPlaced, ZenonT(60)
    <3>5. e.k = 2
      BY <3>1, <3>2, ExecPlaced, ZenonT(60)
    <3> QED BY <3>3, <3>4, <3>5
  <2>2. Justified(e, table'[t], sent'[t])
    BY <1>6, <1>j, <2>1 DEF Enter, At, Justified
  <2>3. SlotEffect(t, e)
    BY <1>6, <2>1 DEF Enter, At, SlotEffect, Holding
  <2>4. exec' = Put(t, e) /\ flag' \in [Tasks -> BOOLEAN] /\ inOta' \subseteq Devices
    BY <1>6, <1>a, <1>d DEF Enter, Placed
  <2> HIDE DEF e
  <2> QED BY <1>6, <1>a, <2>1, <2>2, <2>3, <2>4, ExecFinish DEF Enter, bounds, modes
<1>7. CASE Check(t)
  <2>1. PICK p \in {"cancel", "fail", "lookup", "begin", "step"} :
          /\ exec' = Goto(t, p)
          /\ p = "lookup" => exec[t].k = 4
          /\ p = "begin" => exec[t].k = 6
          /\ p = "step" => exec[t].res # "err" /\ ~(exec[t].k = 6 /\ exec[t].res = "none")
    BY <1>7, <1>a DEF Check
  <2>2. PICK e \in Executors :
           /\ exec' = Put(t, e) /\ e.pc = p /\ e.k = exec[t].k /\ e.copy = exec[t].copy
           /\ e.res = exec[t].res
    BY <2>1, <1>a, GotoRow DEF ExecPlaces, Holding
  <2>3. Justified(e, table'[t], sent'[t])
    BY <1>7, <1>a, <1>j, <2>1, <2>2 DEF Check, At, Justified
  <2>4. SlotEffect(t, e)
    BY <1>7, <2>2 DEF Check, At, SlotEffect, Holding
  <2> QED BY <1>7, <1>a, <2>2, <2>3, <2>4, ExecFinish DEF Check, bounds, modes
<1>8. CASE Lookup(t)
  <2>1. PICK e \in Executors, p \in {"step", "fail"} :
           /\ exec' = Put(t, e) /\ e.pc = p /\ e.k = exec[t].k /\ e.copy = exec[t].copy
           /\ e.res = exec[t].res
    BY <1>8, <1>a, GotoRow DEF Lookup, ExecPlaces, Holding
  <2>2. Justified(e, table'[t], sent'[t])
    BY <1>8, <1>j, <2>1 DEF Lookup, At, Justified
  <2>3. SlotEffect(t, e)
    BY <1>8, <2>1 DEF Lookup, At, SlotEffect, Holding
  <2> QED BY <1>8, <1>a, <2>1, <2>2, <2>3, ExecFinish DEF Lookup, bounds, modes
<1>9. CASE Step(t)
  <2> DEFINE k == exec[t].k
             c == Moved(t, Chain[k])
             kk == IF k = 11 THEN 11 ELSE k + 1
             pp == IF k = 11 THEN "leave" ELSE "check"
             e == Moving(exec[t], c, kk, pp)
  <2>1. Chain[k] \in States /\ (Chain[k] \in Late => k >= 6) /\ k \in 1..11
    BY <1>a, ChainStates
  <2>2. /\ table' \in [Tasks -> States \cup {"none"}]
        /\ \A u \in Tasks : u # t => table'[u] = table[u]
        /\ table'[t] = Chain[k] \/ table'[t] = table[t]
        /\ c \in States \cup {"none"}
        /\ c = Chain[k] \/ c = exec[t].copy
    BY <1>9, <1>a, <2>1, MoveRow DEF Step
  <2> HIDE DEF c
  <2>3. /\ e \in Executors /\ e.copy = c /\ e.res = exec[t].res
        /\ e.pc = IF k = 11 THEN "leave" ELSE "check"
        /\ e.k = IF k = 11 THEN 11 ELSE k + 1
    <3>1. exec[t] \in Executors
      BY <1>a, ExecFields
    <3>2. (IF k = 11 THEN "leave" ELSE "check") \in ExecPlaces
      BY Places
    <3>3. (IF k = 11 THEN 11 ELSE k + 1) \in 1..11
      BY <2>1
    <3>5. kk \in 1..11 /\ pp \in ExecPlaces
      BY <3>2, <3>3
    <3>6. PICK n \in 1..11, p \in ExecPlaces : n = kk /\ p = pp
      BY <3>5
    <3>4. PICK d \in States \cup {"none"} : d = c
      BY <2>2
    <3>7. PICK x \in Executors : x = exec[t]
      BY <3>1
    <3>8. /\ Moving(x, d, n, p) \in Executors
          /\ Moving(x, d, n, p).copy = d /\ Moving(x, d, n, p).res = x.res
          /\ Moving(x, d, n, p).pc = p /\ Moving(x, d, n, p).k = n
      BY DEF Moving, Executors
    <3>9. e = Moving(x, d, n, p)
      BY <3>4, <3>6, <3>7
    <3> HIDE DEF e
    <3> QED BY <3>4, <3>6, <3>7, <3>8, <3>9
  <2>4. Justified(e, table'[t], sent'[t])
    BY <1>9, <1>a, <1>j, <1>s, <2>1, <2>2, <2>3 DEF Step, At, Justified
  <2>5. SlotEffect(t, e)
    BY <1>9, <2>3 DEF Step, At, SlotEffect, Holding
  <2>6. exec' = Put(t, e) /\ flag' \in [Tasks -> BOOLEAN]
    BY <1>9, <1>a DEF Step, c, Moving
  <2> HIDE DEF e, k
  <2> QED BY <1>9, <1>a, <2>2, <2>3, <2>4, <2>5, <2>6, ExecFinish DEF Step, bounds, modes
<1>10. CASE Begin(t)
  <2>1. PICK e \in Executors, p \in {"transfer", "fail"} :
           /\ exec' = Put(t, e) /\ e.pc = p /\ e.k = exec[t].k /\ e.copy = exec[t].copy
           /\ e.res = exec[t].res
    BY <1>10, <1>a, GotoRow DEF Begin, ExecPlaces, Holding
  <2>2. Justified(e, table'[t], sent'[t])
    BY <1>10, <1>j, <2>1 DEF Begin, At, Justified
  <2>3. SlotEffect(t, e)
    BY <1>10, <2>1 DEF Begin, At, SlotEffect, Holding
  <2>4. muted' \subseteq Devices
    BY <1>10, <1>a, <1>d DEF Begin
  <2> QED BY <1>10, <1>a, <2>1, <2>2, <2>3, <2>4, ExecFinish DEF Begin, bounds, modes
<1>11. CASE Progress(t)
  <2> DEFINE c == Moved(t, "TRANSFERRING")
             e == [exec[t] EXCEPT !.copy = c]
  <2>1. /\ table' \in [Tasks -> States \cup {"none"}]
        /\ \A u \in Tasks : u # t => table'[u] = table[u]
        /\ table'[t] = "TRANSFERRING" \/ table'[t] = table[t]
        /\ c \in States \cup {"none"}
        /\ c = "TRANSFERRING" \/ c = exec[t].copy
    BY <1>11, <1>a, <1>s, MoveRow DEF Progress
  <2>2. exec' = Put(t, e)
    BY <1>11 DEF Progress
  <2> HIDE DEF c
  <2>3. e \in Executors /\ e.copy = c /\ e.res = exec[t].res /\ e.pc = exec[t].pc /\ e.k = exec[t].k
    BY <1>a, <2>1, ExecFields DEF Executors
  <2>4. Justified(e, table'[t], sent'[t])
    BY <1>11, <1>j, <1>s, <2>1, <2>3 DEF Progress, At, Justified
  <2>5. SlotEffect(t, e)
    BY <1>11, <2>3 DEF Progress, SlotEffect
  <2> HIDE DEF e
  <2> QED BY <1>11, <1>a, <2>1, <2>2, <2>3, <2>4, <2>5, ExecFinish DEF Progress, bounds, modes
<1>12. CASE EndTransfer(t)
  <2>1. PICK r \in {"ok", "err"} :
          /\ exec' = Put(t, [exec[t] EXCEPT !.pc = "check", !.res = r])
          /\ sent' = [sent EXCEPT ![t] = @ \/ r = "ok"]
    BY <1>12 DEF EndTransfer
  <2> DEFINE e == [exec[t] EXCEPT !.pc = "check", !.res = r]
  <2>2. e \in Executors /\ e.pc = "check" /\ e.res = r /\ e.copy = exec[t].copy /\ e.k = exec[t].k
    BY <1>a, Places, ExecFields DEF Executors
  <2>3. /\ sent' \in [Tasks -> BOOLEAN] /\ sent'[t] = (sent[t] \/ r = "ok")
        /\ \A u \in Tasks : u # t => sent'[u] = sent[u]
    BY <1>a, <2>1
  <2>4. Justified(e, table'[t], sent'[t])
    <3>1. exec[t].pc = "transfer" /\ table' = table
      BY <1>12 DEF EndTransfer, At
    <3>2. /\ table[t] = "none" => FALSE
          /\ exec[t].k = 6
          /\ table[t] \in Late => sent[t]
          /\ exec[t].copy \in Late => sent[t]
      BY <1>j, <3>1 DEF Justified
    <3>3. sent[t] => sent'[t]
      BY <2>3
    <3>4. r = "ok" => sent'[t]
      BY <2>3
    <3> HIDE DEF e
    <3> QED BY <2>2, <3>1, <3>2, <3>3, <3>4 DEF Justified
  <2>5. SlotEffect(t, e)
    BY <1>12, <2>2 DEF EndTransfer, At, SlotEffect, Holding
  <2>6. exec' = Put(t, e)
    BY <2>1
  <2> HIDE DEF e
  <2> QED BY <1>12, <1>a, <2>2, <2>3, <2>4, <2>5, <2>6, ExecFinish DEF EndTransfer, bounds, modes
<1>13. CASE Fail(t)
  <2> DEFINE e == [exec[t] EXCEPT !.pc = "leave", !.copy = "FAILED"]
  <2>1. /\ table' \in [Tasks -> States \cup {"none"}] /\ flag' \in [Tasks -> BOOLEAN]
        /\ \A u \in Tasks : u # t => table'[u] = table[u]
        /\ table'[t] = "FAILED" \/ table'[t] = table[t]
    BY <1>13, <1>a, <1>s, SavesRow DEF Fail
  <2>2. e \in Executors /\ e.pc = "leave" /\ e.copy = "FAILED" /\ e.res = exec[t].res
    BY <1>a, <1>s, Places, ExecFields DEF Executors
  <2>3. Justified(e, table'[t], sent'[t])
    BY <1>13, <1>j, <1>s, <2>1, <2>2 DEF Fail, At, Justified
  <2>4. SlotEffect(t, e)
    BY <1>13, <2>2 DEF Fail, At, SlotEffect, Holding
  <2>5. exec' = Put(t, e)
    BY <1>13 DEF Fail
  <2> HIDE DEF e
  <2> QED BY <1>13, <1>a, <2>1, <2>2, <2>3, <2>4, <2>5, ExecFinish DEF Fail, bounds, modes
<1>14. CASE OnCanceled(t)
  <2> DEFINE c == Moved(t, "CANCELED")
             e == [exec[t] EXCEPT !.pc = "leave", !.copy = c]
  <2>1. /\ table' \in [Tasks -> States \cup {"none"}] /\ flag' \in [Tasks -> BOOLEAN]
        /\ \A u \in Tasks : u # t => table'[u] = table[u]
        /\ table'[t] = "CANCELED" \/ table'[t] = table[t]
        /\ c \in States \cup {"none"}
        /\ c = "CANCELED" \/ c = exec[t].copy
    BY <1>14, <1>a, <1>s, MoveRow DEF OnCanceled
  <2>2. exec' = Put(t, e)
    BY <1>14 DEF OnCanceled
  <2> HIDE DEF c
  <2>3. e \in Executors /\ e.copy = c /\ e.res = exec[t].res /\ e.pc = "leave"
    BY <1>a, <2>1, Places, ExecFields DEF Executors
  <2>4. Justified(e, table'[t], sent'[t])
    BY <1>14, <1>j, <1>s, <2>1, <2>3 DEF OnCanceled, At, Justified
  <2>5. SlotEffect(t, e)
    BY <1>14, <2>3 DEF OnCanceled, At, SlotEffect, Holding
  <2> HIDE DEF e
  <2> QED BY <1>14, <1>a, <2>1, <2>2, <2>3, <2>4, <2>5, ExecFinish DEF OnCanceled, bounds, modes
<1>15. CASE Leave(t)
  <2>1. Justified(Ended, table'[t], sent'[t])
    BY <1>15, <1>j, <1>s, EndedRow DEF Leave, At, Justified
  <2>2. SlotEffect(t, Ended)
    BY <1>15, EndedRow DEF Leave, At, SlotEffect, Holding
  <2>3. inOta' \subseteq Devices /\ muted' \subseteq Devices
    BY <1>15, <1>a DEF Leave
  <2> QED BY <1>15, <1>a, <2>1, <2>2, <2>3, EndedRow, ExecFinish DEF Leave, bounds, modes
<1> QED BY <1>1, <1>2, <1>3, <1>4, <1>5, <1>6, <1>7, <1>8, <1>9, <1>10, <1>11, <1>12, <1>13,
           <1>14, <1>15 DEF ExecStep

-----------------------------------------------------------------------------
(* Preservation by requests and by the process. *)

LEMMA InitIInv == Init => IInv
<1> SUFFICES ASSUME Init PROVE IInv
  OBVIOUS
<1>1. NoExec \in Executors /\ NoExec = [pc |-> "none", k |-> 1, copy |-> "none", res |-> "none"]
  BY DEF NoExec, Executors, ExecPlaces
<1>2. exec \in [Tasks -> Executors] /\ table \in [Tasks -> States \cup {"none"}]
  BY <1>1 DEF Init
<1>3. client \in [Clients -> Requests]
  BY DEF Init, Requests
<1>4. TypeOK
  <2>1. 0 \in 0..MaxRequests /\ 0 \in 0..MaxRestarts /\ 0 \in Nat
    BY TaskAssumption
  <2>2. [t \in Tasks |-> FALSE] \in [Tasks -> BOOLEAN]
    OBVIOUS
  <2>3. flag \in [Tasks -> BOOLEAN] /\ sent \in [Tasks -> BOOLEAN] /\ canceled \in [Tasks -> BOOLEAN]
    BY <2>2 DEF Init
  <2>4. active \in Nat /\ inOta \subseteq Devices /\ muted \subseteq Devices /\ stopping \in BOOLEAN
        /\ requests \in 0..MaxRequests /\ restarts \in 0..MaxRestarts
    BY <2>1 DEF Init
  <2> QED BY <1>2, <1>3, <2>3, <2>4 DEF TypeOK
<1>5. TaskInv
  BY <1>1, ChainStates DEF Init, TaskInv, Justified
<1>6. Holders = {} /\ Counted = {}
  BY <1>1 DEF Init, Holders, Counted, Holding
<1>7. SlotAccounting
  <2>1. Cardinality(Holders) = 0 /\ Cardinality(Counted) = 0
    BY <1>6, FS_EmptySet, ZenonT(30)
  <2>2. active = 0
    BY DEF Init
  <2>3. 0 <= MaxConcurrent
    BY TaskAssumption, SMTT(30)
  <2> QED BY <2>1, <2>2, <2>3, SMTT(30) DEF SlotAccounting, Counted
<1> QED BY <1>4, <1>5, <1>7 DEF IInv

(* A request that is worked on is about a task that exists. *)
LEMMA RequestFields ==
  ASSUME TypeOK, NEW c \in Clients, client[c].pc \in {"save", "flag"}
  PROVE  client[c].task \in Tasks /\ client[c].copy \in States
BY DEF TypeOK, Requests, NoRequest

LEMMA DoneType ==
  ASSUME TypeOK, NEW c \in Clients
  PROVE  Done(c) \in [Clients -> Requests]
BY DEF TypeOK, Done, Requests

(* A row a request overwrites is not in a late state and does exist. *)
LEMMA TaskRow ==
  ASSUME TaskInv, NEW t \in Tasks, exec' = exec, sent' = sent,
         \A u \in Tasks : u # t => table'[u] = table[u],
         \/ table'[t] = table[t]
         \/ table'[t] \in States \ Late
  PROVE  TaskInv'
<1>1. "none" \notin States
  BY ChainStates
<1> QED BY <1>1 DEF TaskInv, Justified

LEMMA ClientPreserves ==
  ASSUME IInv, NEW c \in Clients,
         ClientStep(c) \/ \E t \in Tasks, op \in Ops : Request(c, op, t)
  PROVE  IInv'
<1>a. TypeOK /\ TaskInv /\ SlotAccounting
  BY DEF IInv
<1>s. "CANCELED" \in States \ Late /\ "CREATED" \in States \ Late
  BY ChainStates DEF ErrorStates
<1>1. CASE SaveCancel(c)
  <2> DEFINE t == client[c].task
  <2>1. t \in Tasks
    BY <1>1, <1>a, RequestFields DEF SaveCancel
  <2> HIDE DEF t
  <2>2. /\ table' \in [Tasks -> States \cup {"none"}]
        /\ \A u \in Tasks : u # t => table'[u] = table[u]
        /\ table'[t] = "CANCELED" \/ table'[t] = table[t]
    BY <1>1, <1>a, <1>s, <2>1, SavesRow DEF SaveCancel, t
  <2>3. client' \in [Clients -> Requests]
    <3>1. CASE client' = Done(c)
      BY <3>1, <1>a, DoneType
    <3>2. CASE client' = [client EXCEPT ![c].pc = "flag"]
      <4>1. client[c] \in [op : {"cancel", "retry"}, task : Tasks, copy : States, pc : {"save", "flag"}]
        BY <1>1, <1>a DEF SaveCancel, TypeOK, Requests, NoRequest
      <4>2. [client[c] EXCEPT !.pc = "flag"] \in Requests
        BY <4>1 DEF Requests
      <4> QED BY <3>2, <4>2, <1>a DEF TypeOK
    <3> QED BY <1>1, <3>1, <3>2 DEF SaveCancel
  <2>4. TypeOK'
    BY <1>1, <1>a, <2>2, <2>3 DEF SaveCancel, TypeOK, bounds, modes
  <2>5. TaskInv'
    BY <1>1, <1>a, <1>s, <2>1, <2>2, TaskRow DEF SaveCancel
  <2>6. SlotAccounting'
    BY <1>1, <1>a, SlotSame DEF SaveCancel
  <2> QED BY <2>4, <2>5, <2>6 DEF IInv
<1>2. CASE SetFlag(c)
  <2>1. client[c].task \in Tasks
    BY <1>2, <1>a, RequestFields DEF SetFlag
  <2>2. TypeOK'
    BY <1>2, <1>a, <2>1, DoneType DEF SetFlag, TypeOK, bounds, modes
  <2>3. TaskInv'
    BY <1>2, <1>a DEF SetFlag, TaskInv
  <2>4. SlotAccounting'
    BY <1>2, <1>a, SlotSame DEF SetFlag
  <2> QED BY <2>2, <2>3, <2>4 DEF IInv
<1>3. CASE SaveRetry(c)
  <2> DEFINE t == client[c].task
  <2>1. t \in Tasks
    BY <1>3, <1>a, RequestFields DEF SaveRetry
  <2> HIDE DEF t
  <2>2. /\ table' \in [Tasks -> States \cup {"none"}]
        /\ \A u \in Tasks : u # t => table'[u] = table[u]
        /\ table'[t] = "CREATED" \/ table'[t] = table[t]
        /\ canceled' \in [Tasks -> BOOLEAN]
    <3>1. CASE table' \in Saves(t, "CREATED") /\ canceled' = [canceled EXCEPT ![t] = FALSE]
      BY <3>1, <1>a, <1>s, <2>1, SavesRow DEF TypeOK
    <3>2. CASE UNCHANGED <<table, canceled>>
      BY <3>2, <1>a DEF TypeOK
    <3> QED BY <1>3, <3>1, <3>2 DEF SaveRetry, t
  <2>3. TypeOK'
    BY <1>3, <1>a, <2>2, DoneType DEF SaveRetry, TypeOK, bounds, modes
  <2>4. TaskInv'
    BY <1>3, <1>a, <1>s, <2>1, <2>2, TaskRow DEF SaveRetry
  <2>5. SlotAccounting'
    BY <1>3, <1>a, SlotSame DEF SaveRetry
  <2> QED BY <2>3, <2>4, <2>5 DEF IInv
<1>4. CASE \E t \in Tasks, op \in Ops : Request(c, op, t)
  <2>1. PICK t \in Tasks, op \in Ops : Request(c, op, t)
    BY <1>4
  <2>2. op \in {"cancel", "retry"} /\ table[t] \in States
    BY <2>1, <1>a, TaskAssumption DEF Request, TypeOK
  <2>3. [op |-> op, task |-> t, copy |-> table[t], pc |-> "save"] \in Requests
    BY <2>2 DEF Requests
  <2>4. client' \in [Clients -> Requests]
    BY <2>1, <2>3, <1>a DEF Request, TypeOK
  <2>5. requests' \in 0..MaxRequests
    BY <2>1, <1>a, TaskAssumption DEF Request, TypeOK
  <2>6. TypeOK'
    BY <2>1, <2>4, <2>5, <1>a DEF Request, TypeOK, modes
  <2>7. TaskInv'
    BY <2>1, <1>a DEF Request, TaskInv
  <2>8. SlotAccounting'
    BY <2>1, <1>a, SlotSame DEF Request
  <2> QED BY <2>6, <2>7, <2>8 DEF IInv
<1> QED BY <1>1, <1>2, <1>3, <1>4 DEF ClientStep

(* After a restart nobody holds a slot and every counter is zero. *)
LEMMA RestartPreserves ==
  ASSUME IInv, Restarted, table' = table, sent' = sent, canceled' = canceled,
         requests' = requests, restarts' \in 0..MaxRestarts
  PROVE  IInv'
<1>a. TypeOK /\ TaskInv
  BY DEF IInv
<1>1. NoExec \in Executors /\ NoExec = [pc |-> "none", k |-> 1, copy |-> "none", res |-> "none"]
  BY DEF NoExec, Executors, ExecPlaces
<1>2. /\ exec' \in [Tasks -> Executors]
      /\ \A t \in Tasks : exec'[t] = IF exec[t].pc = "none" THEN NoExec ELSE Ended
  BY <1>1, EndedRow DEF Restarted
<1>3. client' \in [Clients -> Requests]
  BY <1>a, DoneType DEF Restarted, Clients
<1>4. TypeOK'
  BY <1>a, <1>2, <1>3 DEF TypeOK, Restarted
<1>5. TaskInv'
  <2> SUFFICES ASSUME NEW t \in Tasks PROVE Justified(exec'[t], table'[t], sent'[t])
    BY DEF TaskInv
  <2>1. Justified(exec[t], table[t], sent[t])
    BY <1>a DEF TaskInv
  <2> QED BY <2>1, <1>1, <1>2, EndedRow, ChainStates DEF Justified
<1>6. \A t \in Tasks : exec'[t].pc \notin Holding \cup {"turned"}
  BY <1>1, <1>2, EndedRow DEF Holding
<1>7. Holders' = {} /\ Counted' = {}
  BY <1>6 DEF Holders, Counted
<1>8. SlotAccounting'
  <2>1. Cardinality(Holders') = 0 /\ Cardinality(Counted') = 0
    BY <1>7, FS_EmptySet
  <2>2. active' = 0
    BY DEF Restarted
  <2>3. Cardinality(Holders') <= MaxConcurrent
    BY <2>1, TaskAssumption
  <2> QED BY <2>1, <2>2, <2>3 DEF SlotAccounting, Counted
<1> QED BY <1>4, <1>5, <1>8 DEF IInv

LEMMA ProcessPreserves ==
  ASSUME IInv, Stop \/ StartAgain \/ Crash
  PROVE  IInv'
<1>a. TypeOK /\ TaskInv /\ SlotAccounting
  BY DEF IInv
<1>1. CASE Stop
  <2>1. TypeOK'
    BY <1>1, <1>a, TaskAssumption DEF Stop, TypeOK, modes
  <2>2. TaskInv'
    BY <1>1, <1>a DEF Stop, TaskInv
  <2>3. SlotAccounting'
    BY <1>1, <1>a, SlotSame DEF Stop
  <2> QED BY <2>1, <2>2, <2>3 DEF IInv
<1>2. CASE StartAgain
  BY <1>2, <1>a, RestartPreserves DEF StartAgain, TypeOK
<1>3. CASE Crash
  <2>1. restarts' \in 0..MaxRestarts
    BY <1>3, <1>a, TaskAssumption DEF Crash, TypeOK
  <2> QED BY <1>3, <2>1, RestartPreserves DEF Crash
<1> QED BY <1>1, <1>2, <1>3

LEMMA StutterPreserves == IInv /\ UNCHANGED tvars => IInv'
<1> SUFFICES ASSUME IInv, UNCHANGED tvars PROVE IInv'
  OBVIOUS
<1>1. TypeOK'
  BY DEF IInv, TypeOK, tvars
<1>2. TaskInv'
  BY DEF IInv, TaskInv, tvars
<1>3. SlotAccounting'
  <2>1. exec' = exec /\ active' = active
    BY DEF tvars
  <2>2. \A t \in Tasks : /\ exec'[t].pc \in Holding <=> exec[t].pc \in Holding
                         /\ exec'[t].pc = "turned" <=> exec[t].pc = "turned"
    BY <2>1
  <2> QED BY <2>1, <2>2, SlotSame DEF IInv
<1> QED BY <1>1, <1>2, <1>3 DEF IInv

(* The inductive invariant holds in every state of the gateway, whatever   *)
(* executors, requests, stops and crashes do.                              *)
THEOREM Invariant == Spec => []IInv
<1>1. Init => IInv
  BY InitIInv
<1>2. IInv /\ [Next]_tvars => IInv'
  BY ExecPreserves, ClientPreserves, ProcessPreserves, StutterPreserves DEF Next
<1> QED BY <1>1, <1>2, PTL DEF Spec

(* Every variable of the task life cycle keeps its type. *)
THEOREM TypeCorrect == Spec => []TypeOK
BY Invariant, PTL DEF IInv

(* Admission in executeOtaTask: never more than MaxConcurrent executors,   *)
(* and no way out of it leaks a slot.                                      *)
THEOREM AdmissionSafe == Spec => []SlotAccounting
BY Invariant, PTL DEF IInv

(* A row says SUCCESS only after its transfer was successful, although     *)
(* executors and requests overwrite rows from stale copies of them.        *)
THEOREM SuccessSound == Spec => []SuccessMeansSent
<1>1. IInv => SuccessMeansSent
  BY DEF IInv, TaskInv, Justified, SuccessMeansSent, Late
<1> QED BY <1>1, Invariant, PTL

-----------------------------------------------------------------------------
(* The OTA mode of the devices. *)

(* Only Leave makes an executor give up its slot. *)
LEMMA HoldersKept ==
  ASSUME IInv, NEW t \in Tasks, ExecStep(t) \/ Create(t) \/ Progress(t), ~Leave(t)
  PROVE  Holders \subseteq Holders'
<1>a. TypeOK /\ Justified(exec[t], table[t], sent[t])
  BY DEF IInv, TaskInv
<1>1. PICK e : exec' = Put(t, e) /\ (exec[t].pc \in Holding => e.pc \in Holding)
  <2>1. CASE Create(t)
    BY <2>1, <1>a DEF Create, Goto, Justified, Holding
  <2>2. CASE Admit(t) \/ TurnAway(t) \/ Reject(t)
    <3>1. exec[t].pc \notin Holding
      BY <2>2 DEF Admit, TurnAway, Reject, At, Holding
    <3> QED BY <2>2, <3>1 DEF Admit, TurnAway, Reject, Goto
  <2>3. CASE Open(t) \/ Enter(t) \/ EndTransfer(t) \/ Fail(t) \/ OnCanceled(t)
    <3>1. PICK e \in {[exec[t] EXCEPT !.pc = "enter", !.copy = table[t]],
                      [exec[t] EXCEPT !.pc = "check", !.k = 2],
                      [exec[t] EXCEPT !.pc = "check", !.res = "ok"],
                      [exec[t] EXCEPT !.pc = "check", !.res = "err"],
                      [exec[t] EXCEPT !.pc = "leave", !.copy = "FAILED"],
                      [exec[t] EXCEPT !.pc = "leave", !.copy = Moved(t, "CANCELED")]} :
            exec' = Put(t, e)
      BY <2>3 DEF Open, Enter, EndTransfer, Fail, OnCanceled
    <3>2. e.pc \in {"enter", "check", "leave"}
      BY <3>1, <1>a, ExecFields DEF Executors
    <3> QED BY <3>1, <3>2 DEF Holding
  <2>4. CASE Check(t) \/ Lookup(t) \/ Begin(t)
    <3>1. PICK p \in {"cancel", "fail", "lookup", "begin", "step", "transfer"} : exec' = Goto(t, p)
      BY <2>4 DEF Check, Lookup, Begin
    <3>2. PICK e \in Executors : Goto(t, p) = Put(t, e) /\ e.pc = p
      BY <1>a, GotoRow DEF ExecPlaces, Holding
    <3> QED BY <3>1, <3>2 DEF Holding
  <2>5. CASE Step(t)
    <3>1. PICK p \in {"leave", "check"} : \E k, c : exec' = Put(t, Moving(exec[t], c, k, p))
      BY <2>5 DEF Step, Moving
    <3>3. PICK k, c : exec' = Put(t, Moving(exec[t], c, k, p))
      BY <3>1
    <3>2. Moving(exec[t], c, k, p).pc = p
      BY <1>a, ExecFields DEF Moving, Executors
    <3> QED BY <3>3, <3>2 DEF Holding
  <2>6. CASE Progress(t)
    <3>1. PICK c : exec' = Put(t, [exec[t] EXCEPT !.copy = c])
      BY <2>6 DEF Progress
    <3>2. [exec[t] EXCEPT !.copy = c].pc = exec[t].pc
      BY <1>a, ExecFields DEF Executors
    <3> QED BY <3>1, <3>2
  <2> QED BY <2>1, <2>2, <2>3, <2>4, <2>5, <2>6 DEF ExecStep
<1>2. exec'[t] = e /\ \A u \in Tasks : u # t => exec'[u] = exec[u]
  BY <1>1, <1>a DEF Put, TypeOK
<1> QED BY <1>1, <1>2 DEF Holders

LEMMA ModeExec ==
  ASSUME IInv, MutedOnlyDuringTask, NEW t \in Tasks, ExecStep(t) \/ Create(t) \/ Progress(t)
  PROVE  MutedOnlyDuringTask'
<1>a. TypeOK
  BY DEF IInv
<1>1. CASE Leave(t)
  <2> SUFFICES ASSUME NEW d \in inOta' \cup muted'
               PROVE  \E u \in Holders' : DeviceOf[u] = d
    BY DEF MutedOnlyDuringTask
  <2>1. d \in inOta \cup muted /\ d # DeviceOf[t]
    BY <1>1 DEF Leave
  <2>2. PICK u \in Holders : DeviceOf[u] = d
    BY <2>1 DEF MutedOnlyDuringTask
  <2>3. u # t /\ u \in Tasks
    BY <2>1, <2>2 DEF Holders
  <2>4. exec'[u] = exec[u]
    BY <1>1, <1>a, <2>3, EndedRow, PutRow DEF Leave
  <2> QED BY <2>2, <2>3, <2>4 DEF Holders
<1>2. CASE ~Leave(t)
  <2>1. Holders \subseteq Holders'
    BY <1>2, HoldersKept
  <2>2. inOta' \cup muted' \subseteq inOta \cup muted \cup {DeviceOf[t]}
    BY <1>2 DEF ExecStep, Create, Progress, Admit, TurnAway, Reject, Open, Enter, Check, Lookup,
                Step, Begin, EndTransfer, Fail, OnCanceled, modes
  <2>3. CASE Enter(t) \/ Begin(t)
    <3>1. t \in Holders
      BY <2>3 DEF Enter, Begin, At, Holders, Holding
    <3> QED BY <2>1, <2>2, <3>1 DEF MutedOnlyDuringTask
  <2>4. CASE ~(Enter(t) \/ Begin(t))
    <3>1. inOta' = inOta /\ muted' = muted
      BY <1>2, <2>4 DEF ExecStep, Create, Progress, Admit, TurnAway, Reject, Open, Check, Lookup,
                        Step, EndTransfer, Fail, OnCanceled, modes
    <3> QED BY <2>1, <3>1 DEF MutedOnlyDuringTask
  <2> QED BY <2>3, <2>4
<1> QED BY <1>1, <1>2

LEMMA ModeOther ==
  ASSUME IInv, MutedOnlyDuringTask,
         \/ \E c \in Clients : ClientStep(c) \/ \E t \in Tasks, op \in Ops : Request(c, op, t)
         \/ Stop \/ StartAgain \/ Crash \/ UNCHANGED tvars
  PROVE  MutedOnlyDuringTask'
<1>1. CASE StartAgain \/ Crash
  BY <1>1 DEF StartAgain, Crash, Restarted, MutedOnlyDuringTask
<1>2. CASE ~(StartAgain \/ Crash)
  <2>1. exec' = exec /\ inOta' = inOta /\ muted' = muted
    BY <1>2 DEF ClientStep, SaveCancel, SetFlag, SaveRetry, Request, Stop, modes, tvars
  <2> QED BY <2>1 DEF MutedOnlyDuringTask, Holders
<1> QED BY <1>1, <1>2

(* The guards of executeOtaTask: a device is in OTA mode or muted only     *)
(* while an executor works on it, although the destructors of one executor *)
(* may clear the mode another one on the same device relies on.            *)
THEOREM ModeSound == Spec => []MutedOnlyDuringTask
<1>1. Init => MutedOnlyDuringTask
  BY DEF Init, MutedOnlyDuringTask
<1>2. IInv /\ MutedOnlyDuringTask /\ [Next]_tvars => MutedOnlyDuringTask'
  BY ModeExec, ModeOther DEF Next
<1> QED BY <1>1, <1>2, Invariant, PTL DEF Spec

-----------------------------------------------------------------------------
(* Cancel requests. *)

(* Why a task that was cancelled in time is no success: its flag stays up  *)
(* until the executor has turned to onCanceled or mgr.fail, no place it    *)
(* can be at on the way there writes a late state, and no row is late      *)
(* before the transfer is over.                                            *)
InTime(x, row, up, wanted) ==
  /\ x.pc # "ended" /\ x.res # "ok" => row \notin Late
  /\ x.pc \in {"none", "begin", "transfer"} => x.res = "none"
  /\ wanted => /\ row \notin Late
               /\ x.pc \in Running \cup {"ended"}
               /\ x.pc \in {"check", "lookup", "step", "begin", "transfer"} => up
               /\ x.pc \in {"lookup", "step"} => x.res # "ok"

CancelInv == \A t \in Tasks : InTime(exec[t], table[t], flag[t], canceled[t])

LEMMA RunningPlaces ==
  Running = {"check", "lookup", "step", "begin", "transfer", "fail", "cancel", "leave"}
BY DEF Running, Holding

LEMMA CancelPut ==
  ASSUME TypeOK, CancelInv, NEW t \in Tasks, NEW e, exec' = Put(t, e), canceled' = canceled,
         \A u \in Tasks : u # t => table'[u] = table[u] /\ flag'[u] = flag[u],
         InTime(e, table'[t], flag'[t], canceled[t])
  PROVE  CancelInv'
<1> SUFFICES ASSUME NEW u \in Tasks PROVE InTime(exec'[u], table'[u], flag'[u], canceled[u])
  BY DEF CancelInv
<1>1. CASE u = t
  BY <1>1 DEF Put, TypeOK
<1>2. CASE u # t
  BY <1>2 DEF Put, TypeOK, CancelInv
<1> QED BY <1>1, <1>2

LEMMA CancelExec ==
  ASSUME IInv, CancelInv, NEW t \in Tasks, ExecStep(t) \/ Create(t) \/ Progress(t)
  PROVE  CancelInv'
<1>a. TypeOK /\ Justified(exec[t], table[t], sent[t]) /\ InTime(exec[t], table[t], flag[t], canceled[t])
      /\ flag \in [Tasks -> BOOLEAN]
  BY DEF IInv, TaskInv, CancelInv, TypeOK
<1>x. /\ exec[t].pc \in ExecPlaces /\ exec[t].k \in 1..11 /\ exec[t].res \in {"none", "ok", "err"}
      /\ exec[t] \in Executors
  BY <1>a, ExecFields
<1> USE RunningPlaces
<1>1. CASE Create(t)
  <2>1. table[t] = "none" /\ exec[t].pc = "none"
    BY <1>1, <1>a DEF Create, Justified
  <2> DEFINE e == [exec[t] EXCEPT !.pc = "launched"]
  <2>2. exec' = Put(t, e) /\ e.pc = "launched" /\ canceled' = canceled /\ flag' = flag
    BY <1>1, <1>x DEF Create, Goto, Executors
  <2>3. table' = [table EXCEPT ![t] = "CREATED"]
    BY <1>1 DEF Create
  <2>4. InTime(e, table'[t], flag'[t], canceled[t])
    BY <1>a, <2>1, <2>2, <2>3, ChainStates DEF InTime, TypeOK
  <2> HIDE DEF e
  <2> QED BY <1>a, <2>2, <2>3, <2>4, CancelPut DEF TypeOK
<1>2. CASE Admit(t) \/ TurnAway(t) \/ Lookup(t) \/ Begin(t)
  <2>1. PICK p \in {"turned", "open", "rejected", "step", "fail", "transfer"} :
          /\ exec' = Goto(t, p) /\ UNCHANGED <<table, flag, canceled>>
          /\ p \in {"turned", "open", "rejected"} => exec[t].pc \in {"launched", "turned"}
          /\ p = "step" => exec[t].pc = "lookup"
          /\ p = "fail" => exec[t].pc \in {"lookup", "begin"}
          /\ p = "transfer" => exec[t].pc = "begin"
    BY <1>2 DEF Admit, TurnAway, Lookup, Begin, At
  <2> DEFINE e == [exec[t] EXCEPT !.pc = p]
  <2>2. exec' = Put(t, e) /\ e.pc = p /\ e.res = exec[t].res
    BY <2>1, <1>x DEF Goto, Executors
  <2>3. InTime(e, table[t], flag[t], canceled[t])
    BY <1>a, <2>1, <2>2 DEF InTime
  <2> HIDE DEF e
  <2> QED BY <1>a, <2>1, <2>2, <2>3, CancelPut
<1>3. CASE Reject(t) \/ Leave(t)
  <2>1. exec' = Put(t, Ended) /\ canceled' = canceled
        /\ (\A u \in Tasks : u # t => table'[u] = table[u] /\ flag'[u] = flag[u])
        /\ table'[t] \in {table[t], "FAILED"}
    <3>1. CASE Reject(t)
      BY <3>1, <1>a, ChainStates, SavesRow DEF Reject, ErrorStates
    <3>2. CASE Leave(t)
      BY <3>2 DEF Leave
    <3> QED BY <1>3, <3>1, <3>2 DEF Reject, Leave
  <2>2. InTime(Ended, table'[t], flag'[t], canceled[t])
    <3>1. Ended.pc = "ended" /\ Ended.res = "none"
      BY EndedRow
    <3>2. table'[t] \in Late => table[t] \in Late
      <4>1. "FAILED" \notin Late
        BY DEF Late
      <4> QED BY <2>1, <4>1
    <3> QED BY <1>a, <3>1, <3>2 DEF InTime
  <2> QED BY <1>a, <2>1, <2>2, CancelPut
<1>4. CASE Open(t)
  <2> DEFINE e == [exec[t] EXCEPT !.pc = "enter", !.copy = table[t]]
  <2>1. exec' = Put(t, e) /\ e.pc = "enter" /\ e.res = exec[t].res /\ exec[t].pc = "open"
        /\ UNCHANGED <<table, flag, canceled>>
    BY <1>4, <1>x DEF Open, At, Executors
  <2>2. InTime(e, table[t], flag[t], canceled[t])
    BY <1>a, <2>1 DEF InTime
  <2> HIDE DEF e
  <2> QED BY <1>a, <2>1, <2>2, CancelPut
<1>5. CASE Enter(t)
  <2> DEFINE e == [exec[t] EXCEPT !.pc = "check", !.k = 2]
  <2>1. exec' = Put(t, e) /\ e.pc = "check" /\ e.res = exec[t].res /\ exec[t].pc = "enter"
        /\ UNCHANGED <<table, canceled>> /\ flag' = [flag EXCEPT ![t] = FALSE]
    BY <1>5, <1>x DEF Enter, At, Executors
  <2>2. InTime(e, table[t], flag'[t], canceled[t])
    BY <1>a, <2>1 DEF InTime
  <2> HIDE DEF e
  <2> QED BY <1>a, <2>1, <2>2, CancelPut
<1>6. CASE Check(t)
  <2> DEFINE p == CASE flag[t] -> "cancel"
                    [] ~flag[t] /\ exec[t].res = "err" -> "fail"
                    [] ~flag[t] /\ exec[t].k = 4 -> "lookup"
                    [] ~flag[t] /\ exec[t].k = 6 /\ exec[t].res = "none" -> "begin"
                    [] OTHER -> "step"
             e == [exec[t] EXCEPT !.pc = p]
  <2>1. exec' = Put(t, e) /\ exec[t].pc = "check" /\ UNCHANGED <<table, flag, canceled>>
    BY <1>6 DEF Check, At, Goto
  <2>2. p \in {"cancel", "fail", "lookup", "begin", "step"}
        /\ (flag[t] => p = "cancel") /\ (p = "begin" => exec[t].res = "none")
    BY <1>a
  <2> HIDE DEF p
  <2>3. e.pc = p /\ e.res = exec[t].res
    BY <1>x DEF Executors
  <2>4. InTime(e, table[t], flag[t], canceled[t])
    BY <1>a, <2>1, <2>2, <2>3 DEF InTime
  <2> HIDE DEF e
  <2> QED BY <1>a, <2>1, <2>4, CancelPut
<1>7. CASE Step(t)
  <2> DEFINE k == exec[t].k
             e == [exec[t] EXCEPT !.copy = Moved(t, Chain[k]), !.k = IF k = 11 THEN 11 ELSE k + 1,
                                  !.pc = IF k = 11 THEN "leave" ELSE "check"]
  <2>1. exec' = Put(t, e) /\ exec[t].pc = "step" /\ canceled' = canceled
        /\ table' \in SavedMove(t, Chain[k])
        /\ flag' = IF k = 11 THEN [flag EXCEPT ![t] = FALSE] ELSE flag
    BY <1>7 DEF Step, At
  <2>2. e.pc = (IF k = 11 THEN "leave" ELSE "check") /\ e.res = exec[t].res
    BY <1>x DEF Executors
  <2>3. (\A u \in Tasks : u # t => table'[u] = table[u]) /\ table'[t] \in {Chain[k], table[t]}
    BY <2>1, <1>a, <1>x, ChainStates, MoveRow
  <2>4. exec[t].res # "ok" => k \in 1..5
    BY <1>a, <1>x, <2>1, SMT DEF Justified
  <2>5. exec[t].res # "ok" => Chain[k] \notin Late
    BY <2>4, ChainStates
  <2>6. InTime(e, table'[t], flag'[t], canceled[t])
    <3>1. k = 11 => exec[t].res = "ok"
      BY <2>4
    <3>2. exec[t].res # "ok" => table'[t] \notin Late /\ e.pc = "check" /\ flag'[t] = flag[t]
      <4> SUFFICES ASSUME exec[t].res # "ok"
                   PROVE  table'[t] \notin Late /\ e.pc = "check" /\ flag'[t] = flag[t]
        OBVIOUS
      <4>1. table[t] \notin Late
        BY <1>a, <2>1 DEF InTime
      <4>2. k # 11
        BY <3>1
      <4> HIDE DEF e, k
      <4> QED BY <4>1, <4>2, <2>1, <2>2, <2>3, <2>5
    <3> HIDE DEF e, k
    <3>3. e.pc \in {"leave", "check"}
      BY <2>2
    <3> QED BY <1>a, <2>1, <2>2, <3>2, <3>3 DEF InTime
  <2>7. \A u \in Tasks : u # t => flag'[u] = flag[u]
    BY <2>1
  <2> HIDE DEF e, k
  <2> QED BY <1>a, <2>1, <2>3, <2>6, <2>7, CancelPut
<1>8. CASE Progress(t)
  <2> DEFINE e == [exec[t] EXCEPT !.copy = Moved(t, "TRANSFERRING")]
  <2>1. exec' = Put(t, e) /\ exec[t].pc = "transfer" /\ UNCHANGED <<flag, canceled>>
        /\ table' \in SavedMove(t, "TRANSFERRING")
    BY <1>8 DEF Progress, At
  <2>2. e.pc = "transfer" /\ e.res = exec[t].res
    BY <2>1, <1>x DEF Executors
  <2>3. (\A u \in Tasks : u # t => table'[u] = table[u]) /\ table'[t] \in {"TRANSFERRING", table[t]}
    BY <2>1, <1>a, ChainStates, MoveRow
  <2>4. InTime(e, table'[t], flag[t], canceled[t])
    BY <1>a, <2>1, <2>2, <2>3, ChainStates DEF InTime
  <2> HIDE DEF e
  <2> QED BY <1>a, <2>1, <2>3, <2>4, CancelPut
<1>9. CASE EndTransfer(t)
  <2>1. PICK r \in {"ok", "err"} : exec' = Put(t, [exec[t] EXCEPT !.pc = "check", !.res = r])
    BY <1>9 DEF EndTransfer
  <2> DEFINE e == [exec[t] EXCEPT !.pc = "check", !.res = r]
  <2>2. e.pc = "check" /\ exec[t].pc = "transfer" /\ UNCHANGED <<table, flag, canceled>>
    BY <1>9, <1>x DEF EndTransfer, At, Executors
  <2>3. InTime(e, table[t], flag[t], canceled[t])
    BY <1>a, <2>2 DEF InTime
  <2> HIDE DEF e
  <2> QED BY <1>a, <2>1, <2>2, <2>3, CancelPut DEF e
<1>10. CASE Fail(t) \/ OnCanceled(t)
  <2>1. PICK c : exec' = Put(t, [exec[t] EXCEPT !.pc = "leave", !.copy = c])
    BY <1>10 DEF Fail, OnCanceled
  <2> DEFINE e == [exec[t] EXCEPT !.pc = "leave", !.copy = c]
  <2>2. e.pc = "leave" /\ e.res = exec[t].res /\ exec[t].pc \in {"fail", "cancel"}
        /\ canceled' = canceled /\ flag' = [flag EXCEPT ![t] = FALSE]
    BY <1>10, <1>x DEF Fail, OnCanceled, At, Executors
  <2>3. (\A u \in Tasks : u # t => table'[u] = table[u])
        /\ table'[t] \in {"FAILED", "CANCELED", table[t]}
    BY <1>10, <1>a, ChainStates, MoveRow, SavesRow DEF Fail, OnCanceled, ErrorStates
  <2>4. InTime(e, table'[t], flag'[t], canceled[t])
    BY <1>a, <2>2, <2>3 DEF InTime, Late
  <2> HIDE DEF e
  <2> QED BY <1>a, <2>1, <2>2, <2>3, <2>4, CancelPut DEF e
<1> QED BY <1>1, <1>2, <1>3, <1>4, <1>5, <1>6, <1>7, <1>8, <1>9, <1>10 DEF ExecStep

(* A request overwrites a row with CANCELED or CREATED, and only one that  *)
(* is in time is counted as wanted.                                        *)
LEMMA CancelClient ==
  ASSUME IInv, CancelInv, NEW c \in Clients,
         ClientStep(c) \/ \E t \in Tasks, op \in Ops : Request(c, op, t)
  PROVE  CancelInv'
<1>a. TypeOK /\ exec' = exec
  BY DEF IInv, ClientStep, SaveCancel, SetFlag, SaveRetry, Request
<1> SUFFICES ASSUME NEW u \in Tasks PROVE InTime(exec[u], table'[u], flag'[u], canceled'[u])
  BY <1>a DEF CancelInv
<1>b. InTime(exec[u], table[u], flag[u], canceled[u]) /\ flag[u] \in BOOLEAN
  BY <1>a DEF CancelInv, TypeOK
<1>1. CASE SaveCancel(c) \/ SaveRetry(c)
  <2>1. client[c].task \in Tasks
    BY <1>1, <1>a, RequestFields DEF SaveCancel, SaveRetry
  <2>2. table'[u] \in {"CANCELED", "CREATED", table[u]} /\ flag' = flag
    BY <1>1, <1>a, <2>1 DEF SaveCancel, SaveRetry, Saves, TypeOK
  <2>3. canceled'[u] => canceled[u]
    BY <1>1, <1>a, <2>1 DEF SaveCancel, SaveRetry, TypeOK
  <2> QED BY <1>b, <2>2, <2>3 DEF InTime, Late
<1>2. CASE SetFlag(c)
  <2> DEFINE t == client[c].task
  <2>1. t \in Tasks
    BY <1>2, <1>a, RequestFields DEF SetFlag
  <2>2. table' = table /\ flag' = [flag EXCEPT ![t] = TRUE]
        /\ canceled' = [canceled EXCEPT ![t] = exec[t].pc \in Running /\ exec[t].res = "none"]
    BY <1>2 DEF SetFlag
  <2> HIDE DEF t
  <2>3. CASE u # t
    BY <1>a, <1>b, <2>1, <2>2, <2>3 DEF TypeOK
  <2>4. CASE u = t
    BY <1>a, <1>b, <2>1, <2>2, <2>4, RunningPlaces DEF TypeOK, InTime
  <2> QED BY <2>3, <2>4
<1>3. CASE \E t \in Tasks, op \in Ops : Request(c, op, t)
  BY <1>3, <1>b DEF Request
<1> QED BY <1>1, <1>2, <1>3 DEF ClientStep

LEMMA CancelProcess ==
  ASSUME IInv, CancelInv, Stop \/ StartAgain \/ Crash \/ UNCHANGED tvars
  PROVE  CancelInv'
<1> SUFFICES ASSUME NEW t \in Tasks PROVE InTime(exec'[t], table'[t], flag'[t], canceled'[t])
  BY DEF CancelInv
<1>a. TypeOK /\ InTime(exec[t], table[t], flag[t], canceled[t])
  BY DEF IInv, CancelInv
<1>1. CASE StartAgain \/ Crash
  <2>1. table' = table /\ canceled' = canceled /\ exec'[t] = IF exec[t].pc = "none" THEN NoExec ELSE Ended
    BY <1>1 DEF StartAgain, Crash, Restarted
  <2>2. NoExec.pc = "none" /\ NoExec.res = "none"
    BY DEF NoExec
  <2>3. CASE exec[t].pc = "none"
    <3>1. ~canceled[t]
      BY <1>a, <2>3, RunningPlaces DEF InTime
    <3>2. table[t] \notin Late
      BY <1>a, <2>3 DEF InTime
    <3> QED BY <2>1, <2>2, <2>3, <3>1, <3>2 DEF InTime
  <2>4. CASE exec[t].pc # "none"
    BY <1>a, <2>1, <2>4, EndedRow DEF InTime
  <2> QED BY <2>3, <2>4
<1>2. CASE Stop
  BY <1>2, <1>a DEF Stop, InTime, TypeOK
<1>3. CASE UNCHANGED tvars
  BY <1>3, <1>a DEF tvars
<1> QED BY <1>1, <1>2, <1>3

(* onCanceled: a cancel whose flag is up while the executor runs keeps the *)
(* row from SUCCESS, whatever stale copies, busy tables, retries and       *)
(* restarts come between.                                                  *)
THEOREM CancelSound == Spec => []CancelHonoured
<1>1. Init => CancelInv
  <2> SUFFICES ASSUME Init, NEW t \in Tasks PROVE InTime(exec[t], table[t], flag[t], canceled[t])
    BY DEF CancelInv
  <2>1. exec[t].pc = "none" /\ exec[t].res = "none" /\ table[t] = "none" /\ ~canceled[t]
    BY DEF Init, NoExec
  <2> QED BY <2>1, ChainStates DEF InTime
<1>2. IInv /\ CancelInv /\ [Next]_tvars => CancelInv'
  BY CancelExec, CancelClient, CancelProcess DEF Next
<1>3. CancelInv => CancelHonoured
  BY DEF CancelInv, InTime, CancelHonoured, Late
<1> QED BY <1>1, <1>2, <1>3, Invariant, PTL DEF Spec
=============================================================================
