# EdgeLink in TLA+

This directory is the verification development of EdgeLink: an STM32 sensor
node with a two-slot bootloader (`src/SmartHome`), an ESP32 bridge
(`src/esp32_comm_adapter`), a Linux gateway (`src/serial-gateway`) and the
services around them. It holds TLA+ models of the parts where order, loss and
resets matter, TLC configurations that check them on small instances, and
proofs for TLAPS.

Contents: 1 inventory, 2 modules and code, 3 runs, 4 fairness and deadlock,
5 proofs, 6 what the models found, 7 what is left out, 8 plan.

To check a run: `tlc -config MCBootloader.cfg MCBootloader` (module and cfg of
every run are in the table of section 3). To check a proof: `tlapm BootloaderProofs.tla`.

## 1. Inventory

### 1.1 Components

| component | state it keeps | operations | talks to |
|---|---|---|---|
| **STM32 bootloader** (`bootloader/*.c`) | metadata journal (flash sector 4), two application slots, boot-to-bootloader flag (backup register), OTA session `g_ctx` (RAM) | scan journal, choose slot, count attempts, roll back, fall back, handle HELLO / PREPARE / DATA / VERIFY / COMMIT / ABORT, idle time-out | gateway (frames through the bridge), application (metadata, flag) |
| **Slot confirmation** (`app_gateway.c` 292-506) | the same journal, `g_app_confirm_sent` | load and commit metadata, confirm the running slot once the subsystems are healthy, reboot into the bootloader | bootloader |
| **STM32 gateway task** (`app_gateway.c`) | `g_report_seq`, pending table, replay state, UART rings | send sensor reports, time out, handle acknowledgements, replay the cache, commands, heartbeats | Linux gateway, offline cache |
| **STM32 offline cache** (`app_storage.c`) | cache region and event log in SPI flash, head/tail/count in RAM, message queue | scan, append, erase, peek, mark acknowledged | storage task and gateway task, without a lock |
| **STM32 watchdog** (`app_watchdog.c`) | last kick per task, in ticks that wrap | register, kick, scan, reset, feed IWDG, `Watchdog_IsTaskFresh` | all tasks; slot confirmation |
| **Gateway OTA transfer** (`stm32_ota_adapter.cpp`, `app_controller.cpp` 1120-1511) | session, static cache of answers, frame queue per device (64) | wait for HELLO, PREPARE, DATA..., VERIFY, COMMIT, retry, cancel | bootloader |
| **Gateway OTA task lifecycle** (`ota_task_manager.cpp`, `ota_state_machine.cpp`, `sqlite_store.cpp`, `app_controller.cpp`) | rows in SQLite, one copy per manager, cancel flags, admission counter, OTA-mode / mute / lock sets | create, admit, move, fail, cancel, retry, stop, restart | HTTP API, `otactl`, transfer |
| **Gateway cached uploader** (`cached_uploader.cpp`) | cache file and its `.tmp` | upload, flush, append, rewrite, enforce limit | inner TCP/MQTT uploader; uploader, statistics, heartbeat and OTA threads |
| **Gateway runtime queue and link threads** (`thread_safe_queue.hpp`, `app_controller.cpp` 2328-2453, 2730-2887, 3362-3581, 3990-4222) | two bounded FIFOs, TCP sessions, bound descriptors, active transport per device | push (waits), pop, stop; read, acknowledge, accept, bind, clear | serial line, ESP32 sessions, MQTT; OTA executors (mute, lock); uploader |
| **Gateway device registry** (`device_registry.cpp`) | mutex-protected map of devices | update on event, time out, transport up/down | parser, heartbeat, HTTP |
| **Gateway command routing** (`app_controller.cpp` 2469-2650, 2936-3232, 5254-5363) | pending commands by device and 16-bit wrapping id | register, reserve, send, wait, complete | console, HTTP, upstream MQTT, devices |
| **Gateway frame parser** (`frame_parser.cpp`, `crc16.cpp`) | byte buffer | feed, resynchronise | serial and TCP readers |
| **ESP32 communication adapter** (`esp32_comm_adapter.ino`) | two tasks, frame queue that drops the oldest, OTA-bridge mode | forward, prioritise acknowledgements, enter/leave bridge mode | STM32 UART, gateway TCP |
| **ESP32 node** (`esp32_node_new.ino`), **ESP32 OTA** (`esp32_ota_adapter.cpp`) | node state, HTTP update | report, command, update | gateway |
| **AI assistant** (`gateway_ai_assistant`) | approvals, batch-OTA workflow, reports in SQLite | approve, start, poll, stop a batch | gateway HTTP |
| firmware store, configuration, history, metrics, Qt monitor, tools, drivers, vendored libraries | files, counters | I/O | — |

### 1.2 How they interact

* **Update path.** The HTTP API creates a row and a thread; the thread is
  admitted, puts the device in OTA mode, waits for the device's HELLO and runs
  the transfer frame by frame through the bridge; the bootloader erases the
  inactive slot, programs it, verifies it and appends a PENDING record; after a
  reset it starts the new image and counts the attempt; the application confirms
  or the bootloader rolls back.
* **Telemetry path.** The STM32 numbers reports and keeps them in a table until
  they are acknowledged; abnormal ones that are not go to the SPI flash and are
  replayed. The gateway acknowledges each report when it is parsed and hands it
  to the uploader thread, whose uploader keeps what it cannot deliver in a file.
* **Command path.** A console, the HTTP monitor or the upstream MQTT client puts
  an entry into the pending table, sends the command over the active transport
  and waits; the answer comes through the same queues as the reports and the
  uploader thread completes the entry.
* **Shared state.** The metadata journal (two programs), the cache pointers and
  the SPI bus (two tasks, no lock), the static answer cache of the OTA adapter
  (all executors), the OTA table (executors, HTTP thread, `otactl` processes),
  the cache file (four kinds of thread), the transport table (uploader, TCP, MQTT
  and OTA threads), the pending table (requesters and the uploader thread).

### 1.3 What is hard, and what correct means

| component | hard behaviour | properties |
|---|---|---|
| bootloader | power loss between any two flash steps, torn records, wrapping sequence numbers, frames of broken-off sessions | a running image is complete; the confirmed image stays bootable and untouched; records coherent; the scan finds the newest; the anti-rollback floor never falls; a bad image is not started for ever |
| transfer | loss, late answers, retries, device resets, cancel | only a complete image for its slot is committed; a session comes nearer to its end with every step |
| task lifecycle | stale copies that overwrite rows, busy database, crash, two tasks for one device | SUCCESS is true; slots do not leak; OTA mode is released; a cancel has its effect; an executor ends |
| uploader | unlocked threads on one file, crash between replay and rewrite | nothing is lost; order; bound |
| report path | two tasks on one chip without a lock, resets, time-outs racing late answers, numbers that start again | one copy in flight; unacknowledged records stay; pointers and count agree; an acknowledgement takes out nothing the gateway has not received |
| runtime queue and links | full queues, sessions that end while their reports wait, three writers of the transport table, OTA lock, stop while blocked | reports of a link come through once and in order until the stop; commands go to an open session; no step down from a better link; the stop ends |
| commands | late answers, ids that wrap or are taken over, time-out races | an answer completes its own command, and in time; no entry without a waiter |
| watchdog | ticks that wrap, a scan that is interrupted, a hung watchdog | a hung task is noticed in time and ends in a reset; an image is confirmed only when all tasks live; whom it blames |

Every hazard with its line and the property that covers it is listed in
`PROJECT.json` under `hazards`.

## 2. Modules and code

```
OtaMetadata <- BootloaderOta <- Bootloader <-+- BootAttempts  <- MCBootAttempts (with MCBootloader)
                                             +- OtaTransfer  <-+- StaleAnswers <-+- MCOtaTransfer
                                             |                 +- MCStaleAnswers +- TransferProofs
                                             +- BootloaderProofs
OtaTask <-+- MCOtaTask                       OfflineCache <- ReportPath <-+- MCReportPath
          +- OtaTaskProofs                                                +- ReportProofs
Commands <-+- MCCommands                     Watchdog <-+- MCWatchdog
           +- CommandsProofs                            +- WatchdogProofs
ReportChannel <= GatewayLinks <-+- MCGatewayLinks
                                +- GatewayLinksProofs
CachedUploader <-+- MCCachedUploader
                 +- UploaderProofs
```

(`<-` is EXTENDS, `<=` an INSTANCE with a refinement mapping. TransferProofs also
extends BootloaderProofs.)

Which line each definition stands for is in `PROJECT.json` under `map`.
Definitions whose comment begins with "Mutant" are deliberate faults; no
specification uses them.

**OtaMetadata** — a metadata record, the order on wrapping 16-bit sequence
numbers, the loop body of the scan (`ScanBest`) and an independent definition of
the newest record (`Latest`). A record is valid or torn; the CRC is what tells
the two apart.

**BootloaderOta** — the frame handlers of `bootloader_ota.c` as functions of the
session context, the RAM copy of the metadata and the frame. Sizes are counted
in blocks of one DATA frame; a cell of a slot is erased, block n of image i whole
or half programmed, or junk.

**Bootloader** — the device. `pc` is the place in `main()`, in the OTA loop, in
`bl_metadata_commit` or in the application; flash and the backup register
survive `Reset`, which may follow any step. With `FlashFaults` an erase or a
program may stop half way. The application's copies of the metadata functions
(`app_gateway.c` 292-399) are the same actions with `commit.ret = "app"`.
`BootAttempts` adds a history variable that counts starts of a pending image.

**OtaTransfer** — `executeOtaTask`'s tcp_binary branch and
`Stm32OtaAdapter::run` against the device of Bootloader: two lossy FIFO lines,
retries, time-outs, the static cache of answers that outlives sessions, the
cancel flag, HELLO. Device steps are those of Bootloader, with frames that now
come from the line. `StaleAnswers` adds history variables that mark the frames on
the line and the cached answers that belong to an earlier session, and note
(`misled`) when a session takes one of their acknowledgements for its own; it
restricts nothing (`HistoryWatches`).

**OtaTask** — rows of the table, an executor per task with its stale copy,
cancel flags, the admission counter, OTA-mode and mute sets, requests by HTTP
and `otactl`, stop, crash and restart. The transfer is one place that takes a
while and succeeds or not.

**CachedUploader** — calls of several threads on one file, at the level of
inodes: open with truncation, read whole, append, write `.tmp`, rename.

**OfflineCache, ReportPath** — the cache region in units (a record's first unit
is its header), the storage task cut into its flash accesses and the load and
store of `cache_backlog++`, and the gateway task (higher priority, never waits
inside an operation) as whole actions between those steps. An access of the
gateway task ends in one of three `Ways`: well, *refused* (the HAL driver is
locked by the open transfer of the storage task, which the chip-select edge
spoils), or *blind* (the chip is busy and answers nothing, and
`W25QXX_Read` does not wait).

**Watchdog** — entries kicked by their tasks, the watchdog task cut into its read
of the time and one step per entry, the two resets, and the freshness test of
the gateway task. Time is a word that wraps after `Ticks`; `silence` is the true
time and only the properties read it. Priorities decide who may run between the
steps of the scan: a task of the watchdog's priority or above (`Lower` names the
others, in the code the LED). `Pace` and `Latency` say what a healthy board does:
tasks kick within their time-out, and the watchdog task gets the processor in
time; without them nothing could be said of an overloaded board.

**ReportChannel, GatewayLinks** — the runtime of the Linux gateway.
`GatewayLinks` has one place (`pc`) per thread: serial reader, parser, TCP loop,
MQTT callback, uploader, an OTA executor's guards and the thread that calls
`stop()`. A step is a critical section. `ReportChannel` is what it promises of
reports: a line per link that delivers in order, may refuse a single report, and
gives reports up only when it is closing. `ImplementsChannel` states the
refinement: the line of a link is what the uploader, the data queue, the parser,
the raw queue and the reader hold of it, in that order.

**Commands** — the pending table of one device (its key is device and id, and
ids of different devices do not meet), its requesters, commands and answers
under way, which may be lost or late. Consoles track (overwrite), clients of
`executeControlCommand` use an id of their own (refused while it is used) or
reserve the next one.

Abstractions worth knowing:
* a report time-out may hit any set of table entries at any report, so every
  order of time-outs and answers is covered;
* all cached records have one length; a torn payload counts as one whose frame
  does not parse (the code looks at four bytes of it and lets the gateway's CRC
  refuse the rest);
* the region is wrapped in two steps (pointers, then count) where the code has
  three stores;
* acknowledgements under way when the node resets are lost: the UART is not
  read during the restart;
* one access of the gateway task is blind or not as a whole;
* frames are never damaged and delivered: a CRC-16 makes damage a loss;
* the links of `GatewayLinks` are serial, MQTT and the binary TCP sessions; the
  JSON WiFi server (`wifiDeviceServerLoop`) is a loop of the same shape and is
  left out, and so are the threads `stop()` joins that use no queue (statistics,
  heartbeat, console, monitor, upstream control);
* in the transport table the look at the OTA lock and the access to the map are
  one step, although two mutexes protect them;
* a wait for an answer may end at any moment: its length is left open.

## 3. Runs

| run | module / cfg | states | what it shows |
|---|---|---|---|
| `bootloader` | MCBootloader / MCBootloader.cfg | 1.4 M, 2 min | with any frames, resets and failing flash: `RunningImageIntact` (what runs is complete), `MetadataCoherent` (active, confirmed and pending agree in every record), `ConfirmedBootable`, `ScanFindsLatest`, `ActiveSlotUntouched`, `AppendAtomic`, `FloorMonotone`; `EventuallyGivesUp`: an image that is never confirmed is not started for ever. |
| `boot_attempts` | MCBootAttempts / MCBootAttempts.cfg | counterexample | the documented limit on starts is not kept (section 6.1). |
| `transfer` | MCOtaTransfer / MCOtaTransfer.cfg | 5.8 M, 2 min | `VerifiedUnlessMisled` and `SessionAdvances` over two sessions with losses, late answers and a reset. |
| `transfer_stale` | MCStaleAnswers / MCStaleAnswers.cfg | counterexample | a session misled by answers of earlier ones commits an incomplete image (6.4). |
| `task` | MCOtaTask / MCOtaTask.cfg | 1.7 M, 170 s | `SlotAccounting`, `SuccessMeansSent`, `MutedOnlyDuringTask`, `CancelHonoured`, `ExecutorEnds` with requests, a restart and a busy table. |
| `uploader` | MCCachedUploader / MCCachedUploader.cfg | 985 k, 8 s | without overlapping calls nothing is lost, the order is kept and only a crash repeats a record; with them the file stays bounded. |
| `uploader_loss` | MCCachedUploader / MCCachedUploaderLoss.cfg | counterexample | overlapping calls lose a record (6.2). |
| `reports` | MCReportPath / MCReportPath.cfg | 1.35 M, 52 s | `OneInFlight`, `KeptUntilAcked`, `CounterExact`, `AckedWasReceived`. |
| `reports_loss` | MCReportPath / MCReportPathLoss.cfg | counterexample | a look at a busy chip forgets records (6.3). |
| `watchdog` | MCWatchdog / MCWatchdog.cfg | 149 k, 35 s | `SilenceBounded`: no task is silent for long unnoticed. `BlameExplained`: a task is blamed for silence, or for a kick during the scan. `ConfirmsOnlyAlive`, `HangEndsInReset`. |
| `gateway` | MCGatewayLinks / MCGatewayLinks.cfg | 846 k, 3 min | `ImplementsChannel` (refinement), `BoundIsOpen`, `ActiveExplained`, `NoStepDown`, `StopCompletes` (liveness). |
| `commands` | MCCommands / MCCommands.cfg | 3.5 M, 45 s | `EntryHasWaiter`, `AckIsOwn`, `InTimeIsTold`, `UniqueUnlessTracked`. |

The type invariants of OtaTransfer, CachedUploader, ReportPath and Watchdog are
definitions beside the others; a wrong value there would break a run's deeper
property or stop TLC, so no run lists them (that of Watchdog is proved, `WTypes`).

Bounds, and why they are enough for the questions asked:

* **bootloader.** Two images, one of two blocks, so that a slot can hold a mixture;
  a journal of two records, so that it fills, is erased and is written again
  several times; `SeqMod` 5 makes sequence numbers wrap and keeps the window test
  meaningful (more than twice the records of the journal); one attempt (three in
  `boot_attempts`, where the journal has six records). There is no bound on
  resets, frames, faults or updates: the state space is finite by itself. PREPAREs
  are refused for their target and chunk size; the refusal of an old version
  needs a third image version and is left to the theorem `FloorNeverLowered`.
* **transfer.** Two sessions are needed for a stale answer, two attempts for a
  retry; `LineBound` 2 lets a repeated frame travel next to the first one;
  `OtaSeqMod` 6 is the smallest that does not wrap in a session (assumed). One of
  the images was built for the other slot than it is sent to, so that VERIFY has
  something to refuse. In these bounds a session can be misled; that it takes
  harm needs the third session, the longer image and the longer line of
  `transfer_stale`, whose `Script` leaves steps out to make the search short.
* **task.** Two tasks for one device with one slot: overshoot and turn-away; with
  two slots: two executors at once. One request, one restart.
* **uploader.** Two threads, four calls, limit and batch 1 (2 in the loss run):
  overlap, rewriting and the limit all occur; threads are symmetric.
* **reports.** Region of two records over two sectors, the second record across
  the border: the third one wraps and touches both. Two pending slots and two
  numbers per start, two starts: reuse of numbers, a full table, a queue of one.
* **watchdog.** One task that can interrupt the scan and one that cannot;
  `Ticks` 12 is more than the longest time-out, delay and hardware time-out
  together (assumed, as 2^32 is), so the clock wraps at every place of the scan.
* **gateway.** One device, two descriptors (an old and a new session), queues of
  one entry, chunks of two frames: every push can find its queue full. Two
  frames and two turns (sessions, OTA tasks, presence messages): a frame waits
  while its session ends, a session ends under an OTA lock, MQTT meets TCP.
* **commands.** Two ids and four commands: ids wrap and are reused while late
  answers are under way; three requesters of both kinds.

## 4. Fairness and deadlock

* `EventuallyGivesUp` needs no fairness: it says that starts without end come
  with updates, confirmations or failing record writes without end (a flash that
  stores no more records cannot count attempts either).
* `SessionAdvances` needs none either: each step of a session lowers a rank, so
  a session ends as soon as its thread runs, for each of its waits has a
  time-out. Nothing is assumed of the device or the line.
* `ExecutorEnds` (`Fairness` of OtaTask): the operating system schedules the
  executor's thread; the transfer place ends because of `SessionAdvances`.
* `StopCompletes` (`LFairness`): every thread runs. A push that waits in a full
  queue is helped by nobody but the uploader and `stop()`; that both do so is the
  point of the property. Peers and devices owe nothing.
* `HangEndsInReset` (`WFairness`): time passes, the watchdog task and the resets
  are weakly fair; a task that is not stuck kicks again and again, which needs
  strong fairness because a scan may keep a task of low priority waiting.
* Deadlock is checked for the bootloader, the report path and the watchdog. OtaTransfer,
  OtaTask, CachedUploader and Commands come to rest when the bounded sessions, requests or
  calls are used up, which the code does too when nobody asks for anything;
  GatewayLinks ends with `stop()`.

## 5. Proofs

TLAPS proves, for every value of the constants that meets the named assumptions
(sizes and moduli are naturals, the journal is shorter than half the range of its
sequence numbers, frames offered are frames, `Tasks` is finite):

| theorem | says | of run |
|---|---|---|
| `BootloaderProofs!TypeCorrect` | `Spec => []TypeOK` | `bootloader` |
| `BootloaderProofs!RecordsCoherent` | `Spec => []MetadataCoherent` | `bootloader` |
| `BootloaderProofs!RunningIntact` | `Spec => []RunningImageIntact` | `bootloader` |
| `BootloaderProofs!ScanFindsNewest` | `Spec => []ScanFindsLatest` | `bootloader` |
| `BootloaderProofs!AlwaysBootable` | `Spec => []ConfirmedBootable` | `bootloader` |
| `BootloaderProofs!ActiveSlotNeverWritten` | `Spec => ActiveSlotUntouched` | `bootloader` |
| `BootloaderProofs!CommitAtomic` | `Spec => AppendAtomic` | `bootloader` |
| `BootloaderProofs!FloorNeverLowered` | `Spec => FloorMonotone` | `bootloader` |
| `OtaTaskProofs!TypeCorrect` | `Spec => []TypeOK` | `task` |
| `OtaTaskProofs!AdmissionSafe` | `Spec => []SlotAccounting` | `task` |
| `OtaTaskProofs!SuccessSound` | `Spec => []SuccessMeansSent` | `task` |
| `OtaTaskProofs!ModeSound` | `Spec => []MutedOnlyDuringTask` | `task` |
| `CommandsProofs!CmdTypes` | `CmdSpec => []CmdTypeOK` | `commands` |
| `CommandsProofs!EntriesHaveWaiters` | `CmdSpec => []EntryHasWaiter` | `commands` |
| `CommandsProofs!AcksAreOwn` | `CmdSpec => []AckIsOwn` | `commands` |
| `CommandsProofs!InTimeAcksAreTold` | `CmdSpec => []InTimeIsTold` | `commands` |
| `CommandsProofs!IdsAreUniqueUnlessTracked` | `CmdSpec => []UniqueUnlessTracked` | `commands` |
| `WatchdogProofs!SilenceIsBounded` | `WSpec => []SilenceBounded` | `watchdog` |
| `WatchdogProofs!BlameIsExplained` | `WSpec => []BlameExplained` | `watchdog` |
| `WatchdogProofs!ConfirmedWhenAlive` | `WSpec => ConfirmsOnlyAlive` | `watchdog` |
| `GatewayLinksProofs!LTypes` | `LSpec => []LTypeOK` | `gateway` |
| `GatewayLinksProofs!BoundToOpen` | `LSpec => []BoundIsOpen` | `gateway` |
| `GatewayLinksProofs!ActiveIsExplained` | `LSpec => []ActiveExplained` | `gateway` |
| `GatewayLinksProofs!StepsUp` | `LSpec => NoStepDown` | `gateway` |
| `OtaTaskProofs!CancelSound` | `Spec => []CancelHonoured` | `task` |
| `ReportProofs!InFlightOnce` | `RSpec => []OneInFlight` | `reports` |
| `ReportProofs!TakenWasReceived` | `RSpec => AckedWasReceived` | `reports` |
| `ReportProofs!CacheIsALog` | `RSpec => []KInv` | |
| `ReportProofs!UnackedIsKept` | `RSpec => []KeptUntilAcked` | `reports` |
| `ReportProofs!PointersAgree` | `RSpec => []CounterExact` | `reports` |
| `TransferProofs!SessionInRange` | `TSpec => []SessionOK` | `transfer` |
| `TransferProofs!SessionEnds` | `TSpec => SessionAdvances` | `transfer` |
| `TransferProofs!OrderProtects` | `HSpec => []VerifiedUnlessMisled` | `transfer` |
| `TransferProofs!HistoryWatches` | `HSpec => TSpec` | |
| `TransferProofs!DrivesBootloader` | `TSpec => Spec` (of Bootloader) | |
| `TransferProofs!DeviceStaysSafe` | `TSpec => [](RunningImageIntact /\ ConfirmedBootable)` | |
| `UploaderProofs!CacheIsBounded` | `USpec => []CacheBounded` | `uploader` |
| `UploaderProofs!NothingIsLostAlone` | `USpec => []NothingLostAlone` | `uploader` |
| `UploaderProofs!OrderIsKept` | `USpec => []CacheInOrder` | `uploader` |
| `UploaderProofs!TakenTwiceOnlyAfterCrash` | `USpec => []TwiceOnlyAfterCrash` | `uploader` |

*Bootloader.* `MetadataCoherent` is not inductive: an OTA session could commit a
record that makes the active slot pending, and a jump could follow a commit of
another record. `IInv` adds `SessionInv` (a session's target is a slot other than
the active one, and there is no session outside the loop) and `ControlInv` (what
the commit in progress will return to, and that a pending slot was valid when
its start was counted). `RunningIntact` then needs two facts: slots change only
in the OTA loop, where nothing runs, and every change of `run` is to a slot that
`SlotImageValid` accepted.

*The journal.* The other five theorems rest on `JournalInv`. Records may repeat a
sequence number and numbers wrap, so "newer" is no order on all of them; it is
one on the records of a journal, because they were written one after another and
lie less than half the range apart (`JournalOrdered`). From that, appending a
record makes `Latest` what `ScanBest` makes of the old one, which is the step the
scan needs (`ScanCorrect`). `RamCorrect` says what the RAM copy still shares with
the newest record: the active and confirmed slots and what describes their
images. `CommitCorrect` says of the record being stored that its fall-back image
is in its slot and that its floor is not lower, `AppCorrect` that the application
confirms only an image the newest record describes. `ActiveSlotUntouched` then is
a matter of the handlers' RAM copy naming the same active slot as the journal.

*OtaTask.* `SuccessMeansSent` needs to know why a row can say SUCCESS although
stale copies overwrite it: `TaskInv` ties row, copy, place and result of each
executor to the history variable (a copy is late only after a successful
transfer, and rows are late only by such copies). `SlotAccounting` is a counting
argument on finite sets: each action adds one executor to the counted set, takes
one out or leaves it. `ModeSound` rests on `IInv` and one more fact per device.

*Commands.* `CmdInv` joins the properties with what they need of numbers: a
command's number belongs to one requester or message, an entry that is "acked"
was completed by a command of its id, and two open commands of one id are both
in `mixed`. Each action is a lemma; the proof is for any number of requesters
and ids, where the run has three and two.

*Cancel.* For a task whose flag went up in time `CancelInv` says that the flag
stays up until the executor has turned to `onCanceled` or `mgr.fail`, that it
does not walk on towards the late states, and that its row is in none of them.

*Watchdog.* What is compared is a difference of words that wrap. `WInv` first
shows that no task is silent for a whole turn of the clock (`TimesTrue`), so that
the difference is the true time; that in turn needs a bound on silence for each
place of the watchdog task (`SilenceInv`: asleep, scanning before and behind an
entry, resetting, hung with the hardware watchdog running). The constants have
to keep time-outs, delays and the hardware time-out together below one turn.

*GatewayLinks.* `LInv` is the types of what waits or is carried, and three facts
about the table: descriptors bound are open sessions, an active tcp_binary
without one is explained, and (`Parted`) between the two halves of a time-out
nothing is bound to the session about to be closed, because the TCP thread alone
binds.

*Report path.* `OneInFlight` is nearly inductive: every way into the table looks
at the table first. It needs that a non-empty set of places has a least one,
which is well-foundedness of `<` on the naturals. Nothing about head, tail or the
medium is needed, so it holds through rescans and refused accesses.

*The offline cache.* `KeptUntilAcked` and `CounterExact` hold until the two tasks
collide, a reset hits an erase or a program, or the region comes to its end
(`disturbed`). `KInv` says what the cache is until then: a log (`Log`: n whole
records from the start of the region, erased units behind them), of which the
storage task has counted c and the gateway task passed over j (`Counted`); all
that is owed lies in the part still counted (`OwedIn`), and `Doing` tells for each
place of the storage task how n, c, tail and the task's copies go together: after
the program there is a record more than the tail knows, after the verification
one more than the counter knows, and during the scan c walks from 0 to n. There
is a lemma for each operation of the storage task, and for acknowledgement,
replay, which finds the head whole and therefore neither skips nor rescans, and
reset, after which the whole log is counted again and holds what is owed as before.
The records are `RecUnits` apart, so the arithmetic is multiplication by a
constant the prover does not know; `RecordsApart` has it once. The theorems cover
more regions than the run: where `RecUnits` divides `Units`, the record that ends
with the region, once acknowledged, sends the head back to the start while the
tail stays at the end until the next record, and `CounterExact` says so.

*Transfer.* `Rank` weighs exchanges left, attempts left and whether the frame is
sent. Each way an exchange can end lowers it; the proof reads the steps of the
gateway off `TNext` (`SessionSteps`) and needs nothing of the device.
`DrivesBootloader` is a refinement without a mapping: the device's variables are
those of Bootloader, and every frame on the line is one that module considers
(`TInv`), so every step is a step of it or leaves it alone. All theorems of
BootloaderProofs come with it; two of them are `DeviceStaysSafe`.

*What protects COMMIT.* `VerifiedUnlessMisled` speaks of the moment of the commit,
its proof of everything that is under way towards it. `Follows`, kept until a
session is misled: the frames of the session under way travel in the order of
their exchanges behind those of earlier sessions (`Ordered`); ahead of a COMMIT on
the line, and on the whole line once the VERIFY was answered and its
acknowledgement is under way, cached or taken, nothing is left that could change
the image (`Calm`), and the image passed its checks or the device has left the
session (`Authorised`); a COMMIT of the session that the device is storing has
its number (`OwnCommit`). The history variables divide the line and the cache
into old and new: an old acknowledgement cannot pass for that of this session's
VERIFY in the proof, but it can in the code, which compares numbers only.

*Uploader.* `BaseInv` says what a thread holds at each place, and that the
temporary file is never the cache nor longer than the limit. `CountInv` is a
counting argument on the finite set `Over`: each line above the limit belongs to a
thread between its append and the rewrite that follows; after a crash no thread
is past the point where its call resets the file. Without overlap the thread that
steps is the only one in a call, and `AloneInv` says that the cache, and what a
rewrite is about to put in its place, are both the `Queue` of what was written
and neither taken nor dropped; loss and order follow from it. `OnceInv` adds that
what is still to be replayed was not taken, unless a crash came in between.

Model-checked only: the liveness properties (`EventuallyGivesUp`, `ExecutorEnds`,
`HangEndsInReset`, `StopCompletes`: fairness, ENABLED and infinitely often are out
of the prover's reach for these specifications), and the refinement of
ReportChannel, whose mapping (`SelectSeq`, flattening) is recursive by nature.
Induction over data is out of reach too; where an argument needs induction over
the naturals (the scan of a journal of any length, the least element of a set) the
invariant is stated for the index the code has reached, so that each step of the
code is a step of the induction. Some theorems have limits worth knowing:
`OrderProtects` ends where a session is misled (6.4 shows that it has to), those
of UploaderProofs about loss and order where two calls overlap (6.2), and the last
two of ReportProofs where the cache is disturbed (run `reports_loss`).

## 6. What the models found

1. **Boot attempts are not limited** (`boot_attempts`). `main()` stores the
   counted attempt with the sequence number it had; the next scan keeps the
   older record. A count sticks only when the journal is erased in between. What
   holds instead is `EventuallyGivesUp`.
2. **Overlapping uploads lose records** (`uploader_loss`). `CachedUploader` has
   no lock and four kinds of thread call it.
3. **A busy flash chip looks empty** (`reports_loss`). `Storage_PeekCache` reads
   a blank header while the storage task programs or erases, rescans, and sets
   head, tail and count to an empty cache; the next record erases the sector.
4. **A COMMIT without a VERIFY** (`transfer_stale`). The adapter's cache of
   answers is static, nothing empties it, an answer names its frame by a 16-bit
   number, and every session counts from 1. A session that is broken off leaves
   acknowledgements of repeated frames in the cache; after a reset of the device
   the next one runs ahead of it on those, so that its answers arrive during a
   third session; this one takes them for the answers to its own DATA and VERIFY,
   which were lost, and its COMMIT has the number the device expects. The device
   marks an incomplete image pending. It is never started: `bl_decide_boot` checks
   it again (`DeviceStaysSafe`). `OrderProtects` proves that a misled session is
   the only way to such a COMMIT.

Seen while modelling, without a run of their own:
* A lost COMMIT is a success: `executeOtaTask` turns "commit ack timeout" into ok
  (`app_controller.cpp:1483`), while `ota_over_esp32.md:60` says that a broken
  connection is not reported as one.
* OTA exclusivity ends early: two admitted tasks of one device share one entry of
  the OTA-mode set, and the first to leave clears it (`app_controller.cpp:1152`).
  HTTP and upstream commands do not look at the set at all (only `commandLoop`
  does, 3047 and 3129), although `README.md:409` of the gateway says that
  ordinary commands are answered `device_in_ota`.
* A healthy board can be reset: `WatchdogTask` reads the time once
  (`app_watchdog.c:94`); a task of a higher priority that kicks at a later tick,
  before its entry is looked at, makes the unsigned difference huge. This is the
  second disjunct of `BlameExplained`.
* The transport table can outlive its link (`leftover` in GatewayLinks): a frame
  that was still queued binds the device to tcp_binary again after its session
  ended (`app_controller.cpp:2833`), and a clear is refused during an OTA (3560).
  From then on the device's serial reports are acknowledged and then refused,
  while `README.md:402` keeps the serial link as the fallback.
* An old session that ends late unbinds the device of the newer one (4057, 4096),
  and an MQTT "offline" clears an active tcp_binary (3398); the next report
  repairs both.
* A report that the table refuses, or that waits in a queue at the stop, was
  acknowledged before (`app_controller.cpp:2770`).
* A tracked command takes over an id that a client waits under
  (`app_controller.cpp:5263`); whoever ends first erases the entry of both, and a
  late answer completes a later command of the same id.
* A device record dated in the future keeps its device online in the registry.
* When the full journal has been erased and power fails before the record is
  written again (`CommitErase`, then `Reset`), the confirmed slot is forgotten
  and the default metadata is used, while `stm32_ota_hardening_plan.md:3` speaks
  of atomic metadata. `ConfirmedBootable` therefore speaks of devices whose
  journal holds a record.
* A cancel that is acknowledged before the executor clears the flag
  (`app_controller.cpp:1148`) is forgotten. `CancelHonoured` speaks of flags set
  later.
* A retry puts a row back to CREATED and starts no executor
  (`app_controller.cpp:5010`); rows under way when the process crashes are never
  ended.
* After a restart the STM32 numbers from 1 again; an acknowledgement of a new
  report can take out an unsent cached record with the same number.
* A count that a collision left too high at the end of the region never comes
  back to zero, and abnormal reports are no longer cached until a reset.

## 7. Not modelled

* **ESP32 bridge** (`esp32_comm_adapter.ino`): in OtaTransfer it is the lossy,
  delaying line. Its two tasks and its queue that drops the oldest are hidden
  behind that line's loss; its bridge mode has no effect on the frames that pass.
* **ESP32 node and its HTTP update**, the ESP32 OTA adapter of the gateway: a
  chain of requests with one actor; the states it reports are rows of OtaTask.
* **Device registry**: single steps under one mutex, nothing waits on them.
* **Frame parser**: a function of bytes. What it finds in a stream would need a
  model of bytes and CRC values; the models take whole frames and losses.
* **AI assistant's approvals** and the batch OTA above OtaTask; the Qt monitor.
* **Event log records** of `app_storage.c` (one step that occupies the chip),
  heartbeats, alarms and command dispatch of `app_gateway.c`; batch creation and
  text fields of OTA tasks; a disk that fills up under the uploader; two
  transfers on one answer cache (a data race, without defined outcomes).
* That the report cache is drained in the end: its liveness would need fairness
  of the line and of acknowledgements that the code does not give.
* **Drivers, vendored libraries** (FreeRTOS, HAL, Paho MQTT), configuration,
  logging, metrics, history and the tools: I/O with little protocol state. They
  are most of the repository's lines.

## 8. Plan

What could follow, most useful first; each module with CONSTANTS and named
assumptions and without RECURSIVE operators, so that it can be proved about.

1. **Reports end to end**: ReportPath of the STM32 in front of GatewayLinks and
   CachedUploader, each behind its abstract channel, so that "acknowledged" means
   the same on both sides.
2. **Transfer under the executor**: OtaTransfer as the implementation of the
   `transfer` place of OtaTask, with two executors and their common cache once
   that cache has a lock.
3. **ESP32 bridge** between the lines of OtaTransfer, with its bridge mode.
4. **AI assistant**: approval and batch-OTA states above OtaTask.

Abstract specifications still worth stating: an A/B update with an atomic
"confirmed image" that Bootloader implements while its journal survives; a bag of
undelivered records that CachedUploader implements when calls do not overlap.

Theorems still worth proving: `GatewayLinks => ReportChannel` step by step, with
lemmas on the flattening of the queues, and the two refinements above once their
abstract specifications are stated.
