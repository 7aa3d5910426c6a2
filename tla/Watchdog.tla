------------------------------ MODULE Watchdog -------------------------------
(***************************************************************************)
(* The software watchdog of the STM32 (1_App/app_watchdog.c): tasks kick,  *)
(* the watchdog task looks at all of them and resets the chip when one was *)
(* silent for too long, and the gateway task confirms a new image only     *)
(* when all tasks are fresh (app_gateway.c).                               *)
(*                                                                         *)
(* Times are millisecond ticks in unsigned words of 2^32 = Ticks values.   *)
(* The watchdog task has priority 2: tasks of a higher priority, and those *)
(* of its own, may run between any two of its steps, a task of a lower     *)
(* priority (the LED) only while it sleeps.                                *)
(***************************************************************************)
EXTENDS Naturals, Sequences

CONSTANTS
  Order,         \* the entries of g_wd: a sequence of tasks
  Lower,         \* tasks of a lower priority than the watchdog task
  Gateway,       \* the task that confirms the image
  Timeout,       \* timeout_ms of each task
  Pace,          \* a task that is not stuck kicks at least so often
  Ticks,         \* 2^32
  Period,        \* the watchdog task's delay: 200 ms
  Latency,       \* how long the watchdog task may want the CPU until it sleeps again
  IwdgTimeout,   \* of the hardware watchdog: 6 s
  ConfirmDelay   \* GW_APP_CONFIRM_DELAY_MS

Tasks == {Order[k] : k \in DOMAIN Order}

ASSUME WatchdogAssumption ==
  /\ Order \in Seq(Tasks) /\ Lower \subseteq Tasks /\ Gateway \in Tasks \ Lower
  /\ Timeout \in [Tasks -> Nat] /\ Pace \in [Tasks -> Nat]
  /\ Ticks \in Nat /\ IwdgTimeout \in Nat
  /\ Period \in Nat /\ Latency \in Nat /\ ConfirmDelay \in Nat
  /\ \A t \in Tasks : /\ 0 < Pace[t] /\ Pace[t] <= Timeout[t]
                      /\ Timeout[t] + Period + 2 * Latency + IwdgTimeout < Ticks
  /\ Period + 2 * Latency < IwdgTimeout

VARIABLES
  tick,        \* xTaskGetTickCount() * portTICK_PERIOD_MS
  lastKick,    \* last_kick_ms
  stuck,       \* tasks that will not run again
  wd,          \* the watchdog task: place, entry it looks at, its copy of the time
  wait,        \* ticks until its delay is over
  late,        \* bound: ticks since then
  runs,        \* the watchdog task is not stuck itself
  iwdg,        \* g_iwdg_enabled, of the build
  unfed,       \* ticks since the hardware watchdog was fed
  uptime,      \* ticks since the start, up to ConfirmDelay
  confirmed,   \* g_app_confirm_sent
  dead,        \* backup register BKP_IDX_LAST_DEAD_TASK
  silence      \* history: true time since the last kick, up to Ticks

kicks == <<lastKick, silence>>
clock == <<tick, wait, late, unfed, uptime>>
wvars == <<kicks, clock, stuck, wd, runs, iwdg, confirmed, dead>>

(* The difference and the successor of words that wrap. *)
Since(now, then) == IF then <= now THEN now - then ELSE now + Ticks - then
NextTick(n) == IF n + 1 = Ticks THEN 0 ELSE n + 1

AllAt(n) == [t \in Tasks |-> n]
Sleep == [pc |-> "sleep", k |-> 1, now |-> 0]

WInit ==
  /\ tick = 0 /\ uptime = 0 /\ unfed = 0 /\ wait = 0 /\ late = 0
  /\ lastKick = AllAt(0) /\ silence = AllAt(0)
  /\ stuck = {} /\ runs = TRUE
  /\ wd = Sleep
  /\ confirmed = FALSE
  /\ iwdg \in BOOLEAN /\ dead = Order[1]

(* Any reset, up to main(), which fills the table and starts the           *)
(* scheduler: only the backup register and the build survive.              *)
Restart ==
  /\ tick' = 0 /\ uptime' = 0 /\ unfed' = 0 /\ wait' = 0 /\ late' = 0
  /\ lastKick' = AllAt(0) /\ silence' = AllAt(0)
  /\ stuck' = {} /\ runs' = TRUE
  /\ wd' = Sleep
  /\ confirmed' = FALSE
  /\ UNCHANGED <<iwdg, dead>>

Ready == wd.pc = "look" \/ (wd.pc = "sleep" /\ wait = 0)

Capped(n, bound) == IF n < bound THEN n + 1 ELSE bound

(* SysTick.  Tasks that are not stuck are in time, the watchdog task gets  *)
(* the CPU in time, and the hardware resets the chip in time.              *)
Tick ==
  /\ wd.pc # "dead"
  /\ \A t \in Tasks \ stuck : silence[t] < Pace[t]
  /\ runs /\ Ready => late < Latency
  /\ iwdg => unfed < IwdgTimeout
  /\ tick' = NextTick(tick)
  /\ silence' = [t \in Tasks |-> Capped(silence[t], Ticks)]
  /\ wait' = IF wait = 0 THEN 0 ELSE wait - 1
  /\ late' = IF runs /\ Ready THEN late + 1 ELSE late
  /\ unfed' = IF iwdg THEN unfed + 1 ELSE 0
  /\ uptime' = Capped(uptime, ConfirmDelay)
  /\ UNCHANGED <<lastKick, stuck, wd, runs, iwdg, confirmed, dead>>

MayRun(t) == t \notin stuck /\ (t \in Lower => ~(runs /\ Ready))

(* Watchdog_Kick, at the head of each task's loop. *)
Kick(t) ==
  /\ MayRun(t)
  /\ lastKick' = [lastKick EXCEPT ![t] = tick]
  /\ silence' = [silence EXCEPT ![t] = 0]
  /\ UNCHANGED <<clock, stuck, wd, runs, iwdg, confirmed, dead>>

(* Task t hangs, or the watchdog task.  The latter without a hardware      *)
(* watchdog is left out: nothing watches it then.                          *)
Hang(t) ==
  /\ stuck' = stuck \cup {t}
  /\ UNCHANGED <<kicks, clock, wd, runs, iwdg, confirmed, dead>>

HangWatchdog ==
  /\ iwdg /\ wd.pc # "dead"
  /\ runs' = FALSE
  /\ UNCHANGED <<kicks, clock, stuck, wd, iwdg, confirmed, dead>>

(***************************************************************************)
(* WatchdogTask                                                            *)
(***************************************************************************)

(* The time is read once, before the entries are looked at. *)
Wake ==
  /\ runs /\ wd.pc = "sleep" /\ wait = 0
  /\ wd' = [pc |-> "look", k |-> 1, now |-> tick]
  /\ UNCHANGED <<kicks, clock, stuck, runs, iwdg, confirmed, dead>>

(* Mutant: twice the time-out. *)
StaleTwice(now, t) == Since(now, lastKick[t]) > 2 * Timeout[t]

(* Mutant: the time of the kick is taken for its age. *)
StaleByKick(now, t) == lastKick[t] > Timeout[t]

Stale(now, t) == Since(now, lastKick[t]) > Timeout[t]

Last == wd.k = Len(Order)

(* One iteration of the scan: the first stale entry ends it, behind the    *)
(* last one the hardware watchdog is fed.                                  *)
Look ==
  LET t == Order[wd.k] IN
  /\ runs /\ wd.pc = "look"
  /\ \/ /\ Stale(wd.now, t)
        /\ dead' = t
        /\ wd' = [wd EXCEPT !.pc = "dead"]
        /\ UNCHANGED <<wait, late, unfed>>
     \/ /\ ~Stale(wd.now, t)
        /\ ~Last
        /\ wd' = [wd EXCEPT !.k = wd.k + 1]
        /\ UNCHANGED <<wait, late, unfed, dead>>
     \/ /\ ~Stale(wd.now, t)
        /\ Last
        /\ wd' = Sleep
        /\ wait' = Period /\ late' = 0 /\ unfed' = 0
        /\ UNCHANGED dead
  /\ UNCHANGED <<kicks, tick, uptime, stuck, runs, iwdg, confirmed>>

(* Mutant: the reset is left to the hardware watchdog. *)
SystemResetByIwdg ==
  /\ iwdg /\ wd.pc = "dead"
  /\ Restart

(* NVIC_SystemReset *)
SystemReset ==
  /\ wd.pc = "dead"
  /\ Restart

(* The hardware watchdog was not fed. *)
IwdgReset ==
  /\ iwdg /\ unfed = IwdgTimeout
  /\ Restart

(***************************************************************************)
(* The gateway task: gw_can_confirm_slot, Gateway_ConfirmSlotEarly         *)
(***************************************************************************)

(* Watchdog_IsTaskFresh: reads the time itself, and nothing preempts the   *)
(* gateway task between its two reads.                                     *)
Fresh(t) == Since(tick, lastKick[t]) <= Timeout[t]

(* Mutant: the tasks of a lower priority are not asked. *)
CanConfirmHigh == \A t \in Tasks \ Lower : Fresh(t)

CanConfirm == \A t \in Tasks : Fresh(t)

(* Whether the sensor is valid is left open. *)
Confirm ==
  /\ Gateway \notin stuck
  /\ ~confirmed /\ uptime = ConfirmDelay
  /\ CanConfirm
  /\ confirmed' = TRUE
  /\ UNCHANGED <<kicks, clock, stuck, wd, runs, iwdg, dead>>

WNext ==
  \/ Tick
  \/ \E t \in Tasks : Kick(t) \/ Hang(t)
  \/ HangWatchdog
  \/ Wake \/ Look \/ SystemReset \/ IwdgReset
  \/ Confirm

(* Time passes, tasks that are not stuck and the watchdog task run.        *)
WFairness ==
  /\ WF_wvars(Tick)
  /\ WF_wvars(Wake) /\ WF_wvars(Look) /\ WF_wvars(SystemReset) /\ WF_wvars(IwdgReset)
  /\ \A t \in Tasks : SF_wvars(Kick(t) /\ silence[t] > 0)

WSpec == WInit /\ [][WNext]_wvars /\ WFairness

(***************************************************************************)
(* Properties                                                              *)
(***************************************************************************)

(* Times are words, the watchdog task is at an entry of its table. *)
WTypeOK ==
  /\ tick \in 0..(Ticks - 1)
  /\ lastKick \in [Tasks -> 0..(Ticks - 1)] /\ silence \in [Tasks -> 0..Ticks]
  /\ stuck \subseteq Tasks /\ dead \in Tasks
  /\ wd \in [pc : {"sleep", "look", "dead"}, k : DOMAIN Order, now : 0..(Ticks - 1)]
  /\ wait \in 0..Period /\ late \in 0..Latency
  /\ runs \in BOOLEAN /\ iwdg \in BOOLEAN /\ confirmed \in BOOLEAN
  /\ unfed \in 0..IwdgTimeout /\ uptime \in 0..ConfirmDelay

(* A task that hangs is noticed in time: however the scan and the kicks    *)
(* interleave and wherever the clock wraps, while the watchdog task runs   *)
(* no task is silent for longer than its time-out, one delay and two       *)
(* latencies.                                                              *)
SilenceBounded ==
  runs => \A t \in Tasks : silence[t] <= Timeout[t] + Period + 2 * Latency

(* Watchdog_IsTaskFresh compares words that wrap: a task silent for a      *)
(* whole turn of the clock would look fresh again.  The reset by either    *)
(* watchdog keeps that from happening, so an image is confirmed only when  *)
(* every task did run lately.                                              *)
ConfirmsOnlyAlive ==
  [][~confirmed /\ confirmed' =>
       \A t \in Tasks : silence[t] <= Timeout[t]]_wvars

(* A task is blamed because it was silent for too long, or because it      *)
(* kicked after the watchdog task had read the time.                       *)
BlameExplained ==
  wd.pc = "dead" =>
    \/ silence[dead] > Timeout[dead]
    \/ silence[dead] < Since(tick, wd.now)

(* A hang ends with a reset, also when the watchdog task hangs as well and *)
(* the hardware has to do it.                                              *)
HangEndsInReset ==
  /\ \A t \in Tasks : t \in stuck ~> stuck = {}
  /\ ~runs ~> runs
==============================================================================
