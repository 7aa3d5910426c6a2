--------------------------- MODULE WatchdogProofs ----------------------------
(***************************************************************************)
(* Safety of the software watchdog for any number of tasks, time-outs and  *)
(* any width of the clock.  The history variable silence is the true time  *)
(* since a kick; the argument shows that it never reaches a whole turn of  *)
(* the clock, so that the difference of two words is the true time, and    *)
(* how far each place of the scan lets it grow.                            *)
(***************************************************************************)
EXTENDS Watchdog, TLAPS

Words == 0..(Ticks - 1)
Limit(t) == Timeout[t] + Period + 2 * Latency

(* The hardware watchdog runs when the watchdog task is hung; a dead one   *)
(* is about to reset the chip.                                             *)
Guarded == /\ ~runs => iwdg
           /\ wd.pc = "dead" => runs

(* No task was silent for a whole turn of the clock. *)
TimesTrue == \A t \in Tasks : silence[t] < Ticks /\ Since(tick, lastKick[t]) = silence[t]

(* Tasks that are not stuck are in time. *)
InTime == \A t \in Tasks \ stuck : silence[t] <= Pace[t]

(* The copy of the time is as old as the scan at most. *)
ScanRecent == runs /\ wd.pc = "look" => Since(tick, wd.now) <= late

(* How far silence may have grown at each place of the watchdog task. *)
Asleep == \A t \in Tasks : silence[t] <= Timeout[t] + Latency + (Period - wait) + late
Awake == \A t \in Tasks : silence[t] <= Timeout[t] + Latency + Period + late
Looked == \A k \in 1..(wd.k - 1) : silence[Order[k]] <= Timeout[Order[k]] + late
Dead == \A t \in Tasks : silence[t] <= Limit(t)
Unwatched == \A t \in Tasks : silence[t] <= Limit(t) + unfed

SilenceInv ==
  /\ ~runs => Unwatched
  /\ runs /\ wd.pc = "sleep" => Asleep
  /\ runs /\ wd.pc = "look" => Awake /\ Looked
  /\ wd.pc = "dead" => Dead

WInv ==
  /\ WTypeOK /\ Guarded /\ TimesTrue /\ InTime /\ ScanRecent /\ SilenceInv
  /\ BlameExplained

(***************************************************************************)
(* Words                                                                   *)
(***************************************************************************)
LEMMA TicksLarge ==
  /\ Ticks \in Nat /\ Period \in Nat /\ Latency \in Nat /\ IwdgTimeout \in Nat /\ ConfirmDelay \in Nat
  /\ Tasks # {} /\ Ticks > 0
  /\ \A t \in Tasks : /\ Timeout[t] \in Nat /\ Pace[t] \in Nat /\ Pace[t] <= Timeout[t]
                      /\ Limit(t) + IwdgTimeout < Ticks /\ Limit(t) \in Nat
  /\ Period + 2 * Latency + IwdgTimeout < Ticks
  BY WatchdogAssumption, SMT DEF Limit

LEMMA OrderOfTasks ==
  /\ Len(Order) \in Nat \ {0} /\ DOMAIN Order = 1..Len(Order)
  /\ \A k \in 1..Len(Order) : Order[k] \in Tasks
  /\ \A t \in Tasks : \E k \in 1..Len(Order) : t = Order[k]
<1>1. Order \in Seq(Tasks) /\ Tasks # {}
  BY WatchdogAssumption
<1>2. Len(Order) \in Nat /\ DOMAIN Order = 1..Len(Order)
  BY <1>1
<1>3. Len(Order) # 0
  <2> SUFFICES ASSUME Len(Order) = 0 PROVE FALSE
    OBVIOUS
  <2>1. 1..Len(Order) = {}
    BY SMT
  <2> QED
    BY <2>1, <1>1, <1>2 DEF Tasks
<1> QED
  BY <1>2, <1>3 DEF Tasks

LEMMA SinceWord ==
  ASSUME NEW a \in Words, NEW b \in Words
  PROVE  Since(a, b) \in Words /\ Since(a, a) = 0
  BY TicksLarge, SMT DEF Words, Since

(* Time goes on. *)
LEMMA SinceNext ==
  ASSUME NEW a \in Words, NEW b \in Words, Since(a, b) + 1 < Ticks
  PROVE  NextTick(a) \in Words /\ Since(NextTick(a), b) = Since(a, b) + 1
  BY TicksLarge, SMT DEF Words, Since, NextTick

(* The age of a kick, seen from a copy of the time that is e old. *)
LEMMA SinceCopy ==
  ASSUME NEW now \in Words, NEW copy \in Words, NEW kick \in Words
  PROVE  Since(copy, kick) = IF Since(now, copy) <= Since(now, kick)
                             THEN Since(now, kick) - Since(now, copy)
                             ELSE Since(now, kick) + Ticks - Since(now, copy)
  BY TicksLarge, SMT DEF Words, Since

(***************************************************************************)
(* Steps                                                                   *)
(***************************************************************************)
LEMMA InitInv == WInit => WInv
<1> SUFFICES ASSUME WInit PROVE WInv
  OBVIOUS
<1>1. WTypeOK
  <2>1. 1 \in DOMAIN Order /\ Order[1] \in Tasks
    <3>1. 1 \in 1..Len(Order)
      BY OrderOfTasks, SMT
    <3> QED
      BY <3>1, OrderOfTasks
  <2>2. Sleep \in [pc : {"sleep", "look", "dead"}, k : DOMAIN Order, now : 0..(Ticks - 1)]
    <3>1. 0 \in 0..(Ticks - 1)
      BY TicksLarge, SMT
    <3> QED
      BY <2>1, <3>1 DEF Sleep
  <2>3. 0 \in 0..(Ticks - 1) /\ 0 \in 0..Ticks /\ 0 \in 0..Period /\ 0 \in 0..Latency
        /\ 0 \in 0..IwdgTimeout /\ 0 \in 0..ConfirmDelay
    BY TicksLarge, SMT
  <2> QED
    BY <2>1, <2>2, <2>3 DEF WInit, WTypeOK, AllAt
<1>2. TimesTrue
  BY TicksLarge, SMT DEF WInit, TimesTrue, AllAt, Since
<1>3. InTime /\ Guarded /\ ScanRecent /\ BlameExplained
  BY TicksLarge, SMT DEF WInit, InTime, Guarded, ScanRecent, BlameExplained, AllAt, Sleep
<1>4. SilenceInv
  BY TicksLarge, SMT DEF WInit, SilenceInv, Asleep, AllAt, Sleep
<1> QED
  BY <1>1, <1>2, <1>3, <1>4 DEF WInv

LEMMA RestartKeeps == ASSUME WTypeOK, dead' \in Tasks, Restart PROVE WInv'
<1>1. WTypeOK'
  <2>1. 1 \in DOMAIN Order /\ Order[1] \in Tasks
    <3>1. 1 \in 1..Len(Order)
      BY OrderOfTasks, SMT
    <3> QED
      BY <3>1, OrderOfTasks
  <2>2. Sleep \in [pc : {"sleep", "look", "dead"}, k : DOMAIN Order, now : 0..(Ticks - 1)]
    <3>1. 0 \in 0..(Ticks - 1)
      BY TicksLarge, SMT
    <3> QED
      BY <2>1, <3>1 DEF Sleep
  <2>3. 0 \in 0..(Ticks - 1) /\ 0 \in 0..Ticks /\ 0 \in 0..Period /\ 0 \in 0..Latency
        /\ 0 \in 0..IwdgTimeout /\ 0 \in 0..ConfirmDelay
    BY TicksLarge, SMT
  <2> QED
    BY <2>1, <2>2, <2>3 DEF Restart, WTypeOK, AllAt
<1>2. TimesTrue'
  BY TicksLarge, SMT DEF Restart, TimesTrue, AllAt, Since
<1>3. InTime' /\ Guarded' /\ ScanRecent' /\ BlameExplained'
  BY TicksLarge, SMT DEF Restart, InTime, Guarded, ScanRecent, BlameExplained, AllAt, Sleep
<1>4. SilenceInv'
  BY TicksLarge, SMT DEF Restart, SilenceInv, Asleep, AllAt, Sleep
<1> QED
  BY <1>1, <1>2, <1>3, <1>4 DEF WInv

LEMMA TickKeeps == ASSUME WInv, Tick PROVE WInv'
<1> USE TicksLarge DEF WInv
<1>1. silence' = [t \in Tasks |-> silence[t] + 1]
  BY SMT DEF Tick, Capped, TimesTrue, WTypeOK
<1>2. \A t \in Tasks : silence'[t] < Ticks
  <2> SUFFICES ASSUME NEW t \in Tasks PROVE silence[t] + 1 < Ticks
    BY <1>1
  <2>1. CASE ~runs
    BY <2>1, SMT DEF Tick, SilenceInv, Unwatched, Guarded, WTypeOK
  <2>2. CASE runs
    BY <2>2, SMT DEF Tick, SilenceInv, Asleep, Awake, Limit, Ready, WTypeOK
  <2> QED
    BY <2>1, <2>2
<1>3. TimesTrue'
  <2> SUFFICES ASSUME NEW t \in Tasks PROVE Since(NextTick(tick), lastKick[t]) = silence[t] + 1
    BY <1>1, <1>2, SMT DEF TimesTrue, Tick
  <2>1. tick \in Words /\ lastKick[t] \in Words /\ Since(tick, lastKick[t]) + 1 < Ticks
    BY <1>1, <1>2, SMT DEF WTypeOK, TimesTrue, Words
  <2> QED
    BY <2>1, SinceNext, SMT DEF TimesTrue
<1>4. WTypeOK'
  <2>1. tick' \in 0..(Ticks - 1)
    BY SMT DEF Tick, WTypeOK, NextTick
  <2>2. wait' \in 0..Period /\ late' \in 0..Latency /\ unfed' \in 0..IwdgTimeout /\ uptime' \in 0..ConfirmDelay
    BY SMT DEF Tick, WTypeOK, Capped
  <2>3. silence' \in [Tasks -> 0..Ticks]
    BY <1>1, <1>2, SMT DEF WTypeOK
  <2> QED
    BY <2>1, <2>2, <2>3 DEF Tick, WTypeOK
<1>5. InTime'
  BY <1>1, SMT DEF InTime, Tick, WTypeOK
<1>6. Guarded'
  BY DEF Guarded, Tick
<1>7. ScanRecent'
  <2> SUFFICES ASSUME runs, wd.pc = "look" PROVE Since(NextTick(tick), wd.now) <= late + 1
    BY SMT DEF ScanRecent, Tick, Ready
  <2>1. tick \in Words /\ wd.now \in Words /\ Since(tick, wd.now) + 1 < Ticks
    <3>1. tick \in Words /\ wd.now \in Words
      BY DEF WTypeOK, Words
    <3>a. Since(tick, wd.now) \in Words
      BY <3>1, SinceWord
    <3>2. Since(tick, wd.now) \in Nat
      BY <3>a, TicksLarge, SMT DEF Words
    <3>3. Since(tick, wd.now) <= late /\ late < Latency
      BY DEF ScanRecent, Tick, Ready
    <3> QED
      BY <3>1, <3>2, <3>3, SMT DEF WTypeOK
  <2> QED
    BY <2>1, SinceNext, SinceWord, SMT DEF ScanRecent, WTypeOK, Words
<1>8. SilenceInv'
  <2>1. ~runs' => Unwatched'
    BY <1>1, SMT DEF SilenceInv, Unwatched, Tick, Guarded, WTypeOK, Limit
  <2>2. runs' /\ wd'.pc = "sleep" => Asleep'
    BY <1>1, SMT DEF SilenceInv, Asleep, Tick, Ready, WTypeOK
  <2>3. runs' /\ wd'.pc = "look" => Awake' /\ Looked'
    <3> SUFFICES ASSUME runs, wd.pc = "look" PROVE Awake' /\ Looked'
      BY DEF Tick
    <3>1. late' = late + 1 /\ wd' = wd
      BY DEF Tick, Ready
    <3>2. Awake'
      BY <1>1, <3>1, SMT DEF SilenceInv, Awake, WTypeOK
    <3>3. ASSUME NEW k \in 1..(wd.k - 1) PROVE silence'[Order[k]] <= Timeout[Order[k]] + late'
      <4>1. Order[k] \in Tasks
        <5>1. wd.k \in 1..Len(Order)
          BY OrderOfTasks DEF WTypeOK
        <5>2. k \in 1..Len(Order)
          BY <5>1, OrderOfTasks, SMT
        <5> QED
          BY <5>2, OrderOfTasks
      <4> QED
        BY <4>1, <1>1, <3>1, SMT DEF SilenceInv, Looked, WTypeOK
    <3> QED
      BY <3>1, <3>2, <3>3 DEF Looked
  <2>4. wd'.pc = "dead" => Dead'
    BY DEF Tick
  <2> QED
    BY <2>1, <2>2, <2>3, <2>4 DEF SilenceInv
<1>9. BlameExplained'
  BY DEF Tick, BlameExplained
<1> QED
  BY <1>3, <1>4, <1>5, <1>6, <1>7, <1>8, <1>9

LEMMA KickKeeps == ASSUME WInv, NEW t \in Tasks, Kick(t) PROVE WInv'
<1> USE TicksLarge DEF WInv
<1>1. WTypeOK'
  BY SMT DEF Kick, WTypeOK, clock
<1>2. TimesTrue'
  <2> SUFFICES ASSUME NEW s \in Tasks
               PROVE  silence'[s] < Ticks /\ Since(tick, lastKick'[s]) = silence'[s]
    BY DEF Kick, clock, TimesTrue, Since
  <2>1. CASE s = t
    <3>1. Since(tick, tick) = 0
      BY SinceWord DEF WTypeOK, Words
    <3> QED
      BY <2>1, <3>1 DEF Kick, WTypeOK
  <2>2. CASE s # t
    BY <2>2 DEF Kick, WTypeOK, TimesTrue
  <2> QED
    BY <2>1, <2>2
<1>3. InTime' /\ Guarded' /\ ScanRecent'
  BY SMT DEF Kick, InTime, Guarded, ScanRecent, WTypeOK, clock
<1>4. \A s \in Tasks : silence'[s] <= silence[s]
  BY SMT DEF Kick, WTypeOK
<1>5. SilenceInv'
  <2>1. ~runs' => Unwatched'
    BY <1>4, <1>1, SMT DEF Kick, SilenceInv, Unwatched, WTypeOK, clock, Limit
  <2>2. runs' /\ wd'.pc = "sleep" => Asleep'
    BY <1>4, <1>1, SMT DEF Kick, SilenceInv, Asleep, WTypeOK, clock
  <2>3. runs' /\ wd'.pc = "look" => Awake' /\ Looked'
    <3> SUFFICES ASSUME runs, wd.pc = "look" PROVE Awake' /\ Looked'
      BY DEF Kick
    <3>1. late' = late /\ wd' = wd
      BY DEF Kick, clock
    <3>2. Awake'
      BY <1>4, <1>1, <3>1, SMT DEF SilenceInv, Awake, WTypeOK
    <3>3. ASSUME NEW k \in 1..(wd.k - 1) PROVE silence'[Order[k]] <= Timeout[Order[k]] + late'
      <4>1. Order[k] \in Tasks
        <5>1. wd.k \in 1..Len(Order)
          BY OrderOfTasks DEF WTypeOK
        <5>2. k \in 1..Len(Order)
          BY <5>1, OrderOfTasks, SMT
        <5> QED
          BY <5>2, OrderOfTasks
      <4> QED
        BY <4>1, <1>4, <1>1, <3>1, SMT DEF SilenceInv, Looked, WTypeOK
    <3> QED
      BY <3>1, <3>2, <3>3 DEF Looked
  <2>4. wd'.pc = "dead" => Dead'
    BY <1>4, <1>1, SMT DEF Kick, SilenceInv, Dead, WTypeOK, clock
  <2> QED
    BY <2>1, <2>2, <2>3, <2>4 DEF SilenceInv
<1>6. BlameExplained'
  <2> SUFFICES ASSUME wd.pc = "dead"
               PROVE  silence'[dead] > Timeout[dead] \/ silence'[dead] < Since(tick, wd.now)
    BY DEF Kick, clock, BlameExplained, Since
  <2>1. CASE dead = t
    <3>1. silence[t] <= Timeout[t] /\ silence'[t] <= silence[t] /\ silence'[t] \in Nat
      BY <1>4, <1>1, SMT DEF Kick, MayRun, InTime, WTypeOK
    <3>2. Since(tick, wd.now) \in Nat
      BY SinceWord, SMT DEF WTypeOK, Words
    <3> QED
      BY <2>1, <3>1, <3>2, SMT DEF BlameExplained, WTypeOK
  <2>2. CASE dead # t
    BY <2>2 DEF Kick, BlameExplained, WTypeOK
  <2> QED
    BY <2>1, <2>2
<1> QED
  BY <1>1, <1>2, <1>3, <1>5, <1>6

LEMMA HangKeeps == ASSUME WInv, (\E t \in Tasks : Hang(t)) \/ HangWatchdog PROVE WInv'
<1> USE TicksLarge DEF WInv
<1>a. stuck \subseteq stuck' /\ stuck' \subseteq Tasks
  BY DEF Hang, HangWatchdog, WTypeOK
<1>1. UNCHANGED <<kicks, clock, wd, iwdg, confirmed, dead>> /\ (runs' => runs)
      /\ (runs' # runs => iwdg /\ wd.pc # "dead") /\ runs' \in BOOLEAN
  <2>1. CASE \E t \in Tasks : Hang(t)
    BY <2>1 DEF Hang, WTypeOK
  <2>2. CASE HangWatchdog
    BY <2>2 DEF HangWatchdog, WTypeOK
  <2> QED
    BY <2>1, <2>2
<1>2. WTypeOK' /\ TimesTrue' /\ InTime' /\ Guarded' /\ ScanRecent' /\ BlameExplained'
  BY <1>a, <1>1 DEF WTypeOK, TimesTrue, InTime, Guarded, ScanRecent, BlameExplained, kicks, clock, Since
<1>3. SilenceInv'
  <2>1. CASE runs /\ ~runs'
    <3>1. Asleep \/ Awake
      BY <2>1, <1>1 DEF SilenceInv, WTypeOK
    <3>2. ASSUME NEW t \in Tasks PROVE silence[t] <= Limit(t) + unfed
      BY <3>1, SMT DEF Asleep, Awake, WTypeOK, Limit
    <3> QED
      BY <2>1, <1>1, <3>2 DEF SilenceInv, Unwatched, kicks, clock, Limit
  <2>2. CASE runs' = runs
    BY <2>2, <1>1 DEF SilenceInv, Unwatched, Asleep, Awake, Looked, Dead, kicks, clock
  <2> QED
    BY <2>1, <2>2, <1>1 DEF WTypeOK
<1> QED
  BY <1>2, <1>3

LEMMA WakeKeeps == ASSUME WInv, Wake PROVE WInv'
<1> USE TicksLarge DEF WInv
<1>1. 1 \in DOMAIN Order
  <2>1. 1 \in 1..Len(Order)
    BY OrderOfTasks, SMT
  <2> QED
    BY <2>1, OrderOfTasks
<1>2. WTypeOK'
  BY <1>1 DEF Wake, WTypeOK, kicks, clock
<1>3. TimesTrue' /\ InTime' /\ Guarded' /\ BlameExplained'
  BY DEF Wake, TimesTrue, InTime, Guarded, BlameExplained, kicks, clock, Since
<1>4. ScanRecent'
  <2>1. Since(tick, tick) = 0
    BY SinceWord DEF WTypeOK, Words
  <2>2. 0 <= late
    BY SMT DEF WTypeOK
  <2> QED
    BY <2>1, <2>2 DEF Wake, ScanRecent, kicks, clock, Since
<1>5. SilenceInv'
  <2>1. \A t \in Tasks : silence[t] <= Timeout[t] + Latency + Period + late
    BY SMT DEF Wake, SilenceInv, Asleep, WTypeOK
  <2>2. 1..(wd'.k - 1) = {}
    <3>1. wd'.k = 1
      BY DEF Wake
    <3> QED
      BY <3>1, SMT
  <2> QED
    BY <2>1, <2>2 DEF Wake, SilenceInv, Awake, Looked, kicks, clock
<1> QED
  BY <1>2, <1>3, <1>4, <1>5

(* What a look at entry t finds, whatever ran since the time was read. *)
LEMMA LookFinds ==
  ASSUME WInv, runs, wd.pc = "look", NEW t \in Tasks
  PROVE  /\ Stale(wd.now, t) => silence[t] > Timeout[t] \/ silence[t] < Since(tick, wd.now)
         /\ ~Stale(wd.now, t) => silence[t] <= Timeout[t] + late
<1> DEFINE e == Since(tick, wd.now)
<1>1. tick \in Words /\ wd.now \in Words /\ lastKick[t] \in Words
  BY DEF WInv, WTypeOK, Words
<1>2. e \in Nat /\ e <= late /\ late \in Nat /\ late <= Latency
  <2>1. e \in Words
    BY <1>1, SinceWord
  <2>2. e \in Nat
    BY <2>1, TicksLarge, SMT DEF Words
  <2> QED
    BY <2>2, TicksLarge, SMT DEF WInv, ScanRecent, WTypeOK
<1>3. Since(tick, lastKick[t]) = silence[t] /\ silence[t] \in Nat
  BY TicksLarge, SMT DEF WInv, TimesTrue, WTypeOK
<1>4. Since(wd.now, lastKick[t]) = IF e <= silence[t] THEN silence[t] - e ELSE silence[t] + Ticks - e
  BY <1>1, <1>3, SinceCopy
<1>5. Timeout[t] + Latency < Ticks /\ Timeout[t] \in Nat /\ Ticks \in Nat
  BY TicksLarge, SMT DEF Limit
<1> HIDE DEF e
<1>6. Stale(wd.now, t) <=> Since(wd.now, lastKick[t]) > Timeout[t]
  BY DEF Stale
<1> QED
  BY <1>2, <1>3, <1>4, <1>5, <1>6, SMT DEF e

LEMMA LookKeeps == ASSUME WInv, Look PROVE WInv'
<1> DEFINE t == Order[wd.k]
<1>1. wd.k \in 1..Len(Order) /\ Len(Order) \in Nat /\ t \in Tasks
  BY OrderOfTasks DEF WInv, WTypeOK
<1>2. runs /\ wd.pc = "look" /\ UNCHANGED <<kicks, tick, uptime, stuck, runs, iwdg, confirmed>>
  BY DEF Look
<1>3. TimesTrue' /\ InTime'
  BY <1>2 DEF WInv, TimesTrue, InTime, kicks, Since
<1>4. Guarded'
  BY <1>2 DEF WInv, Guarded
<1>5. Awake /\ Looked
  BY <1>2 DEF WInv, SilenceInv
<1>6. CASE Stale(wd.now, t)
  <2>1. dead' = t /\ wd' = [wd EXCEPT !.pc = "dead"] /\ UNCHANGED <<wait, late, unfed>>
    BY <1>6 DEF Look
  <2>2. WTypeOK'
    BY <2>1, <1>1, <1>2 DEF WInv, WTypeOK, kicks
  <2>3. ScanRecent'
    BY <2>1 DEF WInv, WTypeOK, ScanRecent
  <2>4. BlameExplained'
    BY <2>1, <1>1, <1>2, <1>6, LookFinds DEF WInv, WTypeOK, BlameExplained, kicks, Since
  <2>5. SilenceInv'
    <3>1. \A s \in Tasks : silence[s] <= Limit(s)
      BY <1>5, TicksLarge, SMT DEF WInv, Awake, WTypeOK, Limit
    <3> QED
      BY <2>1, <1>2, <3>1 DEF WInv, WTypeOK, SilenceInv, Dead, kicks, Limit
  <2> QED
    BY <1>3, <1>4, <2>2, <2>3, <2>4, <2>5 DEF WInv
<1>7. CASE ~Stale(wd.now, t)
  <2>1. silence[t] <= Timeout[t] + late
    BY <1>7, <1>1, <1>2, LookFinds
  <2>2. \A j \in 1..wd.k : silence[Order[j]] <= Timeout[Order[j]] + late
    <3> SUFFICES ASSUME NEW j \in 1..wd.k PROVE silence[Order[j]] <= Timeout[Order[j]] + late
      OBVIOUS
    <3>1. j = wd.k \/ j \in 1..(wd.k - 1)
      BY <1>1, SMT
    <3> QED
      BY <3>1, <2>1, <1>5 DEF Looked
  <2>3. CASE ~Last
    <3>1. wd' = [wd EXCEPT !.k = wd.k + 1] /\ UNCHANGED <<wait, late, unfed, dead>>
      BY <1>7, <2>3 DEF Look
    <3>2. wd.k + 1 \in 1..Len(Order) /\ (wd.k + 1) - 1 = wd.k
      BY <1>1, <2>3, SMT DEF Last
    <3>3. wd'.k = wd.k + 1 /\ wd'.pc = "look" /\ wd'.now = wd.now
      BY <3>1, <1>2 DEF WInv, WTypeOK
    <3>4. WTypeOK'
      BY <3>1, <3>2, <1>2, OrderOfTasks DEF WInv, WTypeOK, kicks
    <3>5. ScanRecent' /\ BlameExplained'
      BY <3>1, <3>3, <1>2 DEF WInv, ScanRecent, BlameExplained, kicks, Since
    <3>6. SilenceInv'
      BY <3>1, <3>2, <3>3, <1>2, <1>5, <2>2 DEF WInv, SilenceInv, Awake, Looked, kicks
    <3> QED
      BY <1>3, <1>4, <3>4, <3>5, <3>6 DEF WInv
  <2>4. CASE Last
    <3>1. wd' = Sleep /\ wait' = Period /\ late' = 0 /\ unfed' = 0 /\ dead' = dead
      BY <1>7, <2>4 DEF Look
    <3>2. 0 \in 0..Latency /\ 0 \in 0..IwdgTimeout /\ Period \in 0..Period /\ 0 \in 0..(Ticks - 1)
          /\ 1 \in 1..Len(Order)
      BY TicksLarge, <1>1, SMT
    <3>3. WTypeOK'
      BY <3>1, <3>2, <1>2, OrderOfTasks DEF WInv, WTypeOK, Sleep, kicks
    <3>4. ScanRecent' /\ BlameExplained'
      BY <3>1 DEF Sleep, ScanRecent, BlameExplained
    <3>5. SilenceInv'
      <4>1. ASSUME NEW s \in Tasks PROVE silence[s] <= Timeout[s] + Latency + (Period - Period) + 0
        <5>1. silence[s] <= Timeout[s] + late
          <6>1. PICK k \in 1..Len(Order) : s = Order[k]
            BY OrderOfTasks
          <6> QED
            BY <6>1, <2>2, <2>4 DEF Last
        <5> QED
          BY <5>1, TicksLarge, SMT DEF WInv, WTypeOK
      <4> QED
        BY <4>1, <3>1, <1>2 DEF SilenceInv, Asleep, Sleep, kicks
    <3> QED
      BY <1>3, <1>4, <3>3, <3>4, <3>5 DEF WInv
  <2> QED
    BY <2>3, <2>4
<1> QED
  BY <1>6, <1>7

LEMMA ConfirmKeeps == ASSUME WInv, Confirm \/ UNCHANGED wvars PROVE WInv'
<1>1. UNCHANGED <<kicks, clock, stuck, wd, runs, iwdg, dead>> /\ confirmed' \in BOOLEAN
  BY DEF WInv, WTypeOK, Confirm, wvars
<1> QED
  BY <1>1 DEF WInv, WTypeOK, Guarded, TimesTrue, InTime, ScanRecent, SilenceInv, Asleep, Awake, Looked, Dead,
              Unwatched, BlameExplained, kicks, clock, Since

LEMMA StepKeeps == ASSUME WInv, [WNext]_wvars PROVE WInv'
<1>1. ASSUME SystemReset \/ IwdgReset PROVE WInv'
  BY <1>1, RestartKeeps DEF SystemReset, IwdgReset, Restart, WInv, WTypeOK
<1> QED
  BY <1>1, TickKeeps, KickKeeps, HangKeeps, WakeKeeps, LookKeeps, ConfirmKeeps DEF WNext

(* Everything at once: what the table, the scan and the kicks keep. *)
THEOREM WAlways == WSpec => []WInv
  BY InitInv, StepKeeps, PTL DEF WSpec

(***************************************************************************)
(* Results                                                                 *)
(***************************************************************************)

(* WatchdogTask's place in the table, its times and the words of the clock *)
(* stay in range.                                                          *)
THEOREM WTypes == WSpec => []WTypeOK
  BY WAlways, PTL DEF WInv

LEMMA InvBounds == WInv => SilenceBounded
<1> SUFFICES ASSUME WInv, runs, NEW t \in Tasks
             PROVE  silence[t] <= Timeout[t] + Period + 2 * Latency
  BY DEF SilenceBounded
<1>1. CASE wd.pc = "sleep"
  BY <1>1, TicksLarge, SMT DEF WInv, WTypeOK, SilenceInv, Asleep
<1>2. CASE wd.pc = "look"
  BY <1>2, TicksLarge, SMT DEF WInv, WTypeOK, SilenceInv, Awake
<1>3. CASE wd.pc = "dead"
  BY <1>3, TicksLarge, SMT DEF WInv, SilenceInv, Dead, Limit
<1> QED
  BY <1>1, <1>2, <1>3 DEF WInv, WTypeOK

(* While the watchdog task runs, its scan notices a task that does not     *)
(* kick within time-out, delay and two latencies, for every table and      *)
(* every width of the clock.                                               *)
THEOREM SilenceIsBounded == WSpec => []SilenceBounded
  BY WAlways, InvBounds, PTL

(* The task the scan blames was too silent, or kicked after the scan had   *)
(* read the time: nothing else makes the unsigned difference large.        *)
THEOREM BlameIsExplained == WSpec => []BlameExplained
  BY WAlways, PTL DEF WInv

LEMMA StepConfirms ==
  ASSUME WInv, [WNext]_wvars, ~confirmed, confirmed'
  PROVE  \A t \in Tasks : silence[t] <= Timeout[t]
<1>1. Confirm
  BY DEF WNext, wvars, Tick, Kick, Hang, HangWatchdog, Wake, Look, SystemReset, IwdgReset, Restart
<1>2. \A t \in Tasks : Since(tick, lastKick[t]) <= Timeout[t]
  BY <1>1 DEF Confirm, CanConfirm, Fresh
<1> QED
  BY <1>2 DEF WInv, TimesTrue

(* gw_can_confirm_slot compares words that wrap, yet the image is          *)
(* confirmed only when every task was heard within its time-out.           *)
THEOREM ConfirmedWhenAlive == WSpec => ConfirmsOnlyAlive
<1>1. WInv /\ [WNext]_wvars
      => [~confirmed /\ confirmed' => \A t \in Tasks : silence[t] <= Timeout[t]]_wvars
  BY StepConfirms
<1> QED
  BY <1>1, WAlways, PTL DEF WSpec, ConfirmsOnlyAlive
==============================================================================
