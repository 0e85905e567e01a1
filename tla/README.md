# Verification of DDGo

DDGo drives a GRBL machine tool over a serial line: it finds, opens and validates
the connection, streams G-code programs line by line, sends single commands and
macros, pauses, resumes and stops them, watches the machine's heartbeat and
recovers from alarms, lost ports and writes the operating system will not finish.
Its frontend runs several documents against the one machine and closes them
safely. This directory holds TLA+ models of that behaviour, TLC configurations
that check them, and TLAPS proofs.

Run everything from this directory:

    tlc -workers 2 -config Stop.cfg Controller.tla     (module of each .cfg: section 3)
    tlapm Controller_proofs.tla                        (and the other *_proofs.tla)

`PROJECT.json` is the index: components, runs, the source lines of every
definition, mutants, findings, hazards and theorems.

## 1. The system

### Components

| part | source (under `src/`) | state | operations | what makes it correct |
|---|---|---|---|---|
| program execution | `internal/app/controller.go` | `run` (session, generation, draining, pause token, sync epoch, machine work), `state.ProgramStatus` | StartProgram, runProgram, Pause, Resume, completion, failure | one owner of responses; no line to a paused machine; completion only on a fresh Idle; a failed run that may have moved the machine asks for recovery |
| program stop | `internal/app/program_stop.go` | `stopOperation`, `MachineReadiness` | StopProgram, executeProgramStop | always ends; Normal only after Hold, Ctrl-X, the banner that answers it and a fresh Idle without an alarm |
| realtime actions | `controller.go` (Action) | the realtime reservation | Hold, Resume, Soft Reset, Status, Jog Cancel | never two writers; never a Resume behind a paused program's back |
| event bridge | `controller.go` (runTransportEventBridge) | banner, alarm and status revisions | one critical section per transport event | only the committed generation's traffic counts; responses reach the owner they belong to |
| emergency stop, heartbeat | `estop.go`, `controller.go` | `EStopStatus`, heartbeat start | ALARM:50, watchdog, status poll | notices a dead machine in bounded time, never takes a silent one for dead, gives nothing back without a status report |
| connection | `controller.go`, `connection_handshake.go` | transition, attempt and its event queue, generation, suppressed generation | Connect, failConnectAttempt, Disconnect, loss | generations never mix; a lost port is noticed; settings are the answer to this attempt's query |
| serial transport | `internal/transport/serial_real.go` | port handle, generation, event channel | Open, Close, Write, readLoop | a write goes to the port it captured; the end of a generation is reported once; nobody waits for ever |
| admission, response ownership | `application_command.go` | reservation, response owner, foreground waiters | admissionErrorLocked, beginForegroundAdmission | one policy for everything that touches the line |
| command sessions, settings | `application_command.go`, `settings_mutation.go` | interactive and manual owners, pending mutation, snapshot | manual line, macro session, Unlock, Soft Reset | a setting is committed by its own ok; nothing outlives its owner |
| expected silence | `expected_silence.go`, `gg3_expected_silence.go` | one lease | begin, activity, progress, end | a silent command is not an emergency, a dead controller is |
| port monitor | `port_monitor.go` | last ports, suppression, retry delay | scan, automatic connect, StopPortMonitoring | connects to a lone machine in the end, never undoes the user's Disconnect |
| execution sessions | `internal/frontend/execution_session.go` | sessions, run owners, buffered states and errors, package attempts | BeginStart, AssociateRun, ApplyEvent, actions | results and events are attributed to the run they belong to, in whatever order they arrive |
| shutdown, start gate, closes | `shutdown_coordinator.go`, `program_start_gate.go`, `document_close_coordination.go` | phase, target, admissions | Begin ... Finalize, Acquire, Freeze | no program starts behind a shutdown's back, none outlives its document |
| frontend application | `frontend/miqt/application_miqt.go` | pending starts, actions, closes; result channels | timer tick, clicks, dialogs | everything that is asked for ends |
| mock machine | `internal/mockgrbl`, `cmd/mockgrbl` | planner, reported state, RX buffer, pending serial output | lines, realtime bytes, resets, hard limits, clients | accepted moves are made in order; what it shows is what it does |
| macro engine | `internal/macro` | variables, contour | M-codes, expressions | sequential |
| readers, syntax, widgets, experiments | `internal/ddpackage`, `gcode`, `grbl`, `frontend/miqt`, `experiments` | | | not concurrent, or not part of the program |

### How they interact

Every field of the controller is guarded by one lock, `Controller.mu`. Nothing
holds it across I/O: a goroutine reserves the *realtime transport*
(`realtimeWriteActive`, `realtimeWriteDone`) or owns the responses, unlocks,
writes, and locks again. The goroutines are the program's runner, a Stop
coordinator, the callers of the public methods, the status poller and the
watchdog of each connection generation, the verifier started by a recovery
reconnect, the port monitor, and the event bridge, which reads the transport's
event channel. They meet in three places: the locked record, the reservation, and
the queues (transport events, an attempt's private events, the response channel of
the session that owns responses). A run, a Stop, a command and a connection all end
from several goroutines, and each of them rechecks after its I/O that what it began
with is still there.

The frontend has one UI thread, which owns all of its state and learns what the
controller does only through a channel of events and the result channels of the
goroutines it starts for controller calls. The tick reads these queues in a fixed
order until they are empty. An event carries a state that was captured under the
controller's lock and sent after it was released, so events overtake each other
and the results of the calls that caused them.

### What is hard

The interleavings between a check under the lock, a write outside it and the
commit under the lock again; writes that outlive their caller because the
operating system holds them; events and answers of an earlier generation, attempt,
command or run that are still queued; an alarm between an Idle report and the
decision taken on it; a Stop, an emergency stop, a failure and a disconnect that
end the same run; bounded queues that join goroutines in a cycle; a lease that must
be long enough for a silent machine and short enough for a dead one; a shutdown
that meets a Start the controller has not answered. The hazards are listed line by
line in `PROJECT.json`.

## 2. The modules

| module | models | shape |
|---|---|---|
| `ControllerState` | the record under `Controller.mu` during programs and every `...Locked` function | operators from record to record; no variables |
| `MachineLink` | goroutine positions, `transport.Write`, the event channel, the machine, the shared poll for a fresh status | variables `ctl`, `pc`, queues, `port`, `dev` |
| `ProgramRun`, `ProgramStop`, `MachineAction`, `EventBridge`, `Connection` | Start, runner, draining, Pause, Resume; StopProgram; machine-wide actions; bridge, heartbeat; Connect, Disconnect, verifier | one action per critical section or channel operation |
| `Controller` | their composition, fairness and properties | `Init`, `Next`, `Spec`, `FairSpec` |
| `CommandState` | owner, pending mutation, snapshot, lease, heartbeat and their locked functions | operators from record to record |
| `CommandSessions` | manual lines, macros, Unlock, Soft Reset, poll, watchdog, bridge, machine, and time | one action per critical section, `Tick` |
| `SerialTransport` | Open, Close, readLoop, event channel | one action per send, exchange or join |
| `ConnectHandshake` | connect with its phases and its private queue, the machine's answers | EXTENDS `SerialTransport` |
| `PortMonitor` | the monitor, the operator, bridge and poller around them; properties | EXTENDS `ConnectHandshake` |
| `ExecutionSessions` | every method of the sessions' manager | operators from record to record |
| `ShutdownCoordinator` | coordinator, start gate, close decisions | operators, EXTENDS `ExecutionSessions` |
| `Frontend` | UI thread, calls, controller as the frontend sees it; properties | EXTENDS `ShutdownCoordinator` |
| `SafeExit` | what the frontend promises about closing | abstract specification, implemented by `Frontend` |
| `MockMachine` | planner, framing, debug server, terminal | one action per byte, line, request or moment of motion |
| `MCCommands`, `MCFrontend` | definitions the instances' constants are given | |
| `Controller_proofs`, `ControllerMachine_proofs`, `ControllerReadiness_proofs` | proofs about `Controller` | its locked operators, types and control safety, one lemma per action; the reservation, the stopped run's line, the paused machine; the machine at rest |
| `CommandSessions_proofs`, `PortMonitor_proofs`, `MockMachine_proofs` | proofs about those systems | |
| `ExecutionSessions_proofs`, `Frontend_proofs` | proofs about the frontend | the manager's operators; the system and `SafeExit` |

There are four systems that are checked separately, because the code separates
them: a program (`Controller`) and commands (`CommandSessions`) exclude each other
by admission; the handshake and the transport (`PortMonitor`) come before either
and are one step of `Controller`'s connection; the frontend sees the controller
only through calls and events (`Frontend`). The mock machine is a program of its
own.

A critical section of the code is one assignment `ctl' = F(G(ctl))`; `pc` says
where a goroutine is between two of them. The lock itself is therefore not
modelled: its atomicity is. What follows a section in the same call (a channel
send, an unlock, a deferred release) is in the same action only when no other
goroutine could act differently in between.

### Correspondence: programs (`Controller`)

| model | code |
|---|---|
| `ctl.conn`, `ctl.transition`, `ctl.gen` | `ConnectionStatus`, `connectionTransition`, `connectionGeneration` |
| `ctl.attempt`, `attemptErr`, `early` | `connectAttemptGeneration`, `connectAttemptErr`, `pendingDisconnectedGenerations` |
| `ctl.suppress`, `polling` | `suppressTransportDisconnectedGeneration`, `statusMonitoringGeneration` |
| `ctl.status`, `ready`, `estop`, `machine` | `ProgramStatus`, `MachineReadiness`, `EStopStatus`, `MachineState` |
| `ctl.alarmed` | `alarmRevision > recoveryAlarmBaseline` |
| `ctl.run`, `ctl.stop`, `ctl.owner` | `run`, `stopOperation`, `responseOwner` |
| `ctl.write` | the reservation: the goroutine that made `realtimeWriteDone` |
| `chan`, `job`, `aim`, `closer`, `bridge` | locals the goroutines keep across a section: `rxCh`, the `run` argument, what Pause or Disconnect captured |
| `fresh` | `statusReportRevision > baseline`, per waiting goroutine |
| `rx` | the transport's event channel; `new` is its timestamp against `resetStartedAt` |

`transport.Write` has two phases. While `pc[p]` is a *writing* label the
goroutine is inside Write; it returns with success (`Delivered`), with an error
(`WriteFails`), or the operating system holds it (`WriteStalls`) with the port
handle it captured, and it returns later, possibly when that handle is closed.
A goroutine that has reserved the transport but not entered Write has captured
nothing; `LateEntry = TRUE` lets a whole reconnect happen before it does.

The machine is outside the repository. It is modelled from what the code sends
and accepts, and from `docs/gg3-firmware-status-silence.md` and the mock machine
for what it answers: it accepts or rejects queued lines, finishes motion, holds,
resumes, resets with a banner (and ALARM:3 when the reset cuts motion short),
answers `?`, raises alarms, and restarts.

Abstractions:

* A program is a number of identical lines: no macros, no `$` line with its Idle
  barrier, no motion rewriting. Runs start from a loaded program.
* Event emission to the interface, logging, positions, error texts, revisions
  of the state, quiet-report counting and program progress are left out.
* The handshake is one step, validated or not; the answers it needs are behind
  every older event of the queue, as they are in the channel the bridge reads.
  Its phases are `ConnectHandshake`.
* A timeout is a choice the waiting goroutine may take at any time, and so is
  the watchdog's deadline (an upset, counted as a fault). `CommandSessions` has
  the clock.
* Counters that only serve identity (run, attempt, stop, pause and status
  revisions) are replaced by the identity: the goroutine, or a flag that says
  the revision has moved.
* `invalidated` of a Stop is set only in sections that also complete it, so the
  model has no field for it. The branch of `deliverResponseLocked` that reports
  `ErrCommandSessionInvariant` has no action: `OwnerIsCurrentRun` proves that it
  is unreachable.
* The end of a Write and the release of its reservation are one step, and so are
  `acquireStopWrite` and the read of its reservation: nobody else can release or
  replace that reservation between them except `Disconnect`'s forced release,
  which the owner's release then does not find.

### Correspondence: commands (`CommandSessions`)

| model | code |
|---|---|
| `ctl.owner`, `ctl.waiters`, `ctl.write` | `responseOwner`, the registered foreground admissions, the realtime reservation |
| `ctl.mutation`, `ctl.snapshot` | `pendingSettingsMutation`, `grblSettings` (0: cleared) |
| `ctl.lease` | `expectedSilence`: operation, kind, leg, age, time since the last activity, limit |
| `ctl.beat` | `heartbeatStartedAt` as an age |
| `cmd[s]` | the goroutine of a command, its session's `rxCh`, its cancelled context |
| `rx` | the transport's event channel, every line with the ticks since it was read |
| `dev` | the machine: alive, in alarm, its stored setting, what it is silent with |

A line is named by what the controller does with it: silent (`$H...`, `$L`), a
numeric setting, a settings reset, Unlock, or anything else. One setting with a
few values stands for the settings the limits are computed from; its value is also
the time homing takes, so a snapshot that is wrong gives a wrong limit. Manual and
interactive lines are written without the realtime reservation, as in the code:
ownership alone keeps them apart, and a Soft Reset may fall between the admission
of a line and its write. A macro line that needs no preparation is written without
a recheck of its owner (`controller.go:1737`).

Time is a `Tick` that happens when everything due in the last one has happened:
goroutines that can step have stepped, the poll and the watchdog have had their
turn, a machine that is not silent has answered, and a line has waited at most
`Lag` ticks for the bridge. Ages stop counting past the largest limit, so the
model has no horizon. The watchdog is sound when `Timeout` is at least `Lag`, one lost
poll and one tick together (2 s against 500 ms polls in the code); with less,
`NoFalseEmergency` fails, and the instances respect it.

Left out: a caller that cancels its context, query lines that collect their
answers (`sendLineCollectingResponses`), the full-backlog error text, and the sums
over axes of `gg3_expected_silence.go` (one number per command).

### Correspondence: connecting (`PortMonitor`)

| model | code |
|---|---|
| `port`, `opening`, `closing` | `t.port` with its generation; the `Open` that holds `t.mu`; the handle a `Close` took and whose readLoop it joins |
| `reader[g]`, `events` | the readLoop of a generation between its reads and sends; the event channel |
| `ctl.candidate`, `err`, `early`, `queue` | `connectAttemptGeneration`, `connectAttemptErr`, `pendingDisconnectedGenerations`, `connectAttemptEvents` |
| `shake` | the goroutine inside `connect`: phase, origin, machine, the generation Open returned, settings so far |
| `mon`, `policy` | the monitor goroutine and `portMonitorState` |
| `user`, `bridge`, `poller` | the operator's Disconnect; the disconnect the bridge handles; the status poller it joins |

Every blocking operation is a step that waits: Open sends `EventConnected` while it
holds the mutex that Close needs, readLoop blocks on a full channel, Close joins
readLoop, Disconnect and the bridge join the poller. `StopPortMonitoring` cancels
the context the handshake waits on. That Open returns (`Opened`) and that the
controller learns which generation it opened (`NoteOpened`) are two sections, so the
port may be lost, and the bridge may handle the loss, in between: the generation is
then in `early`, where `NoteOpened` looks for it.

Abstractions: a generation number is used again once no trace of it is left, which
stands for counting up; the startup quiet period is longer than a pause within the
machine's startup output; a line is stamped when it is read; explicit refreshes,
the order of port lists and error reports are left out. An error of Close is
modelled in `Connection` (`"close"`), not here. `markUnexpectedDisconnected` drops the
handle of a lost port without closing it; the model has no handle to leak.

### Correspondence: frontend (`Frontend`)

| model | code |
|---|---|
| `ui.sessions` | `ExecutionSessions`: sessions, `runOwners`, `pendingStates`, `pendingErrors`, `packageAttempts`, the strips |
| `ui.shutdown`, `gate` | `ShutdownCoordinator`, `ProgramStartGate` |
| `ui.open`, `unopened`, `closePending` | `DocumentRegistry` |
| `ui.admissionCloses`, `stopCloses`, approvals | `pendingAdmissionCloses`, `pendingDocumentCloses`, `DocumentCloseApprovals` |
| `ui.user`, `ui.tick` | a modal dialog opened by a click, or from within the tick, that runs a nested event loop |
| `calls` | the goroutines of StartDocumentProgram, Pause, Resume, Stop and their results |
| `unsent`, `events` | events captured and not yet sent; the event channel |
| `ctl` | the part of the controller's State the frontend reads |

The controller is its public contract here: a Start is admitted or refused, a run
runs, drains, completes, fails, is paused or stopped, and every change captures an
event. `Overtaking = FALSE` restricts a run to schedules that send an event as soon
as it is captured. Timer and native events interleave at the granularity of the
code: one queue item of the tick, one click, one answered dialog. `ui.turn` is the
place in the tick.

### Correspondence: mock (`MockMachine`)

One axis stands for three, and a move progresses and completes at any time; the
code settles by the clock, as the first thing of every call, what has happened
since the last one (`reconcile`). Every byte of the client, request of the debug
server and clearing of the terminal is an action; `report[i]` follows the output of
a hard limit from the critical section that raises the alarm to the one that queues
it and to the byte of the client it is delivered with. Left out: spindle,
coordinate systems, the texts of answers, logs, and the option that withholds
status reports.

## 3. The checks

### Runs that hold

| cfg | module | what is asked | bounds | distinct states |
|---|---|---|---|---|
| `Stop` | `Controller` | does an accepted Stop end and leave readiness right | 1 run of 1 line, 1 generation, 2 faults among held and failed Hold and Ctrl-X, ALARM, ALARM:50, restart | 97,515 |
| `Pause` | `Controller` | Pause and Resume against the runner, heartbeat, alarm, watchdog, rejection | 1 run of 2 lines, 1 client, 1 fault | 101,899 |
| `Operator` | `Controller` | two callers issue Pause, Resume, Stop and the machine-wide Hold, Resume, Soft Reset | 1 run of 1 line, 2 clients, no fault | 850,385 |
| `Reconnect` | `Controller` | loss, failed open, failed handshake, alarms over two generations | 1 run, 2 generations, 2 faults | 256,772 |
| `StopReconnect` | `Controller` | a Stop whose Ctrl-X is held, with disconnect and reconnect | 1 run, 2 generations, 1 fault | 1,175,718 |
| `Commands` | `MCCommands` | ownership of leases and settings, the snapshot, false emergencies, answers | 2 commands (manual, macro of 2 lines) of `$H`, `$L`, a setting; 1 fault (rejected line, failed write) | 622,998 |
| `Silence` | `MCCommands` | is a dead machine noticed, does every lease end | 2 commands (manual, Unlock, Soft Reset) of `$L`, `$RST`; 1 fault (failed write, death, ALARM:50, reset without an answer) | 326,924 |
| `Connecting` | `PortMonitor` | losses, settings, joins, automatic connection | 1 machine, 2 generations, channel of 2, attempt queue of 3, 1 stray line, 1 fault (open, mute, slow, unplug), 1 request of the operator | 171,079 |
| `Sessions` | `MCFrontend` | attribution and agreement while events and results overtake | 2 steps of 1 package, 2 runs, 2 Run clicks, 2 Pause, Resume or Stop clicks | 492,121 |
| `Exit` | `MCFrontend` | closing and exit: refinement of `SafeExit`, no close forgotten, everything ends | 2 documents, one opened late, 1 run, 1 fault (connection lost, emergency stop), exit and close clicks | 473,113 |
| `Mock` | `MockMachine` | planner and reported state, order of moves, output of a hard limit | axis of 1, planner of 3, 1 hard limit, one withheld and one holding kind of line | 121,844 |

`CHECK_DEADLOCK FALSE` is set where a system may rest: runs, generations, faults
and clicks are used up, and a controller or a mock rests when nobody calls it. The
two command instances have a clock that never stops, and check deadlock.

Safety:

* `ExecutingImpliesReady`, `OwnerIsCurrentRun`, `StopOwnsRun`, `LifecycleOwned`
  relate the program status to the connection, readiness, e-stop, Stop, owner
  and to the goroutines that perform transitions. They are also proved.
* `NormalMeansAtRest`: readiness Normal without an active program means that the
  connected machine neither moves nor has a line queued.
* `PausedMachineHeld`: a paused run's machine is held, and no line is on its way.
* `OneWriter`: no two goroutines are inside Write on the same open port.
* `NoLineAfterStopReset`, `ReadinessRegained`: action properties on what a line's
  arrival, and the return to Normal, may follow.
* `PreparedOwned`: a lease and a pending setting belong to the current owner.
* `SnapshotFaithful`: when nothing is under way, the snapshot is what the machine
  stored, or there is none. `OwnAnswer`: a macro's response is that of its line.
* `NoFalseEmergency`: while settings are known, only a dead machine is stopped.
  `DeadNoticedInTime`: a dead one is, within a time (`Noticed`) that counts what can
  delay the watchdog: one lease and one timeout per two commands, and one timeout per
  upset, the death included.
* `LossNoticed`, `SettingsAnswer`, `EndsOnce`: a loss of the port is never
  swallowed, neither from an attempt, whether it knows its generation yet or not, nor
  from a committed connection; the settings are complete and of this attempt; the end
  of a generation comes once and last.
* `RunAttributed`, `BlockedIsCurrent`, `SettledAgrees`: sessions name only runs
  they started; siblings know of each other's admission; once nothing is in
  flight nothing is left in a buffer and the views agree with the controller.
* `FrozenWhileShuttingDown`, `CloseTracked`: no Start is under way once a shutdown
  has chosen what to stop; a close that waits, waits for something that answers.
* `ImplementsSafeExit`: every behaviour of the frontend is one of `SafeExit`, with
  `running` the document of the controller's active program: a document stays open
  while its program runs, only an open document's program starts, and the
  application goes when nothing is open and nothing runs.
* `PlannerSound`, `KeepsAccepted`: planner, reported state and alarm agree; accepted
  moves are made in order. They are also proved, as is `PreparedOwned`.

Liveness: `StopCompletes`, `ReadinessSettles`, `PauseSettles`, `RunEnds`,
`DeadLinkNoticed`, `LeaseEnds`, `CallsReturn`, `AutoConnects`, `RequestsEnd`,
`LimitAnnounced`.

### Why these bounds

`Controller`: every property is about one run, one Stop and one transition between
two connection generations, so one run and at most two generations exercise each; a
second run matters only for the late writer, which has two. Two lines are the least
that have a line boundary for a Pause to fall on; two faults let a second failure hit
the handling of the first. Two clients are the least that race Pause with Resume or
with a machine-wide action. (`PausedMachineHeld` holds in that instance too.) `MaxRx
= 2` keeps an old event queued behind a newer one, and is what `alarm3` followed by
`banner` needs; `MaxBacklog` (64 in the code) of one or two lets it fill.

`CommandSessions`: two commands are the least of which one inherits what the other
left; two lines, that a macro's second is prepared with its first's response
pending; two values, that the stored and the known setting differ and homing
outlasts the heartbeat's timeout with its poll; a channel of two and one tick of
lag, that a line of before a lease is delivered within it.

`PortMonitor`: two generations are one that ends while the next begins; a channel
of two blocks reader, Open and bridge against each other. Three places hold a late
line, the setting and `ok`, so what the handshake asked for is never lost; banner,
stray line, error and disconnection still overflow them before the attempt knows its
generation, and with a slow attempt afterwards. With a queue of two, or with two
machines, the safety properties hold as well (478,595 and 470,886 states); with two
places `AutoConnects` fails, because a bridge that is always faster than the attempt
overflows them in every one, which 256 places rule out. A setting is lost only to a
queue of one, where a late line takes its place: the safety properties hold there too
(1,393,161 states), and `OwnSettings` proves it for every capacity.

`Frontend`: two steps of a package, or two documents, and two runs, of which the
second starts while the news of the first is on its way. `MaxPending` is the code's
32. `ExitTwoRuns.cfg` repeats the shutdown with two runs (103,740 states).

`MockMachine`: an active, a queued and an appended move; longer axes and two hard
limits give nothing new (`Travel` 2: 697,926 states; two limits: 649,860), and the
planner is proved for all.

### What the runs exclude, and why

* `RunEnds` is checked without firmware restarts (a restart loses an
  unacknowledged line, and `sendLineAndWaitOK` has no timeout: the run waits
  until it is stopped) and without the machine-wide Hold (which holds the
  machine under a running program until it is paused and resumed, or stopped).
* `PauseSettles` is checked without held writes: a client whose Hold the
  operating system holds keeps its pause transition until the write returns.
* `DeadLinkNoticed` is checked without errors of `Close`; see the findings.
* The held write of a line or of a poll is left to the configurations of the
  findings, because `OneWriter` and `StopCompletes` fail with them. A held poll
  also keeps the bridge and Disconnect waiting, which join the poller before
  they close the port.
* `Commands` is checked without Soft Reset, with which `CommitMatches` fails.
* A manual owner whose `ok` never comes (a `$RST` that resets the machine) keeps
  ownership until Soft Reset: no property says that ownership ends.
* `RequestsEnd` and `CloseTracked` have one run; with two, `NoCloseStranded` fails.

### Fairness

Nothing is assumed of users, faults and held writes anywhere. The Go scheduler and
timers justify that a goroutine that can step does (weak fairness), and that a timer
that is running fires.

* `Controller`: one condition per goroutine, except while the operating system
  holds its write; the poll timer keeps firing; the machine ends its motion and
  answers the lines it holds (strong fairness: a full event queue disables it again
  and again). A Stop coordinator's timeout is fair because a timer drives it.
* `CommandSessions`: each command's goroutine, the monitor, the bridge, a live
  machine and the clock.
* `PortMonitor`: the attempt, the monitor and its retry timer, the bridge, the
  closing goroutines, the poller's end and every readLoop. A mute machine sends
  nothing; the handshake's timeout is a step of the attempt.
* `Frontend`: the timer tick, the sending of captured events, each call's goroutine
  (strong fairness for those that answer, which compete for the controller). The
  operator answers a dialog that is open, as the code waits for it in a nested
  event loop, but has to click nothing.
* `MockMachine`: the goroutine of a request, and clients that keep polling, as the
  controller does after Open.

### Findings

`StaleAnswer.cfg` (`MCCommands`) is a run that shows a statement of the
documentation violated. The other findings are shown by configurations of the same
kind; every one is described with its lines in `PROJECT.json`.

| cfg | module | statement | what happens |
|---|---|---|---|
| `StaleAnswer` | `MCCommands` | `CommitMatches` | the ok of a line that Soft Reset took ownership from commits the setting of the next manual owner |
| `LateWriter` | `Controller` | `OneWriter` | a writer retired by a forced close releases the reservation of the next generation, because `endRealtimeWrite` is not exact |
| `LateEntry` | `Controller` | `NormalMeansAtRest` | a goroutine that reserved before a reconnect and enters Write after it writes to the replacement port |
| `StopBound` | `Controller` | `StopCompletes` | the status poll of the Stop's verification is an unbounded write |
| `DrainSync` | `Controller` | `DrainSynchronized` | a Pause and Resume between two critical sections of the runner complete the run on an Idle from before the Pause |
| `PauseRace` | `Controller` | `NoSpuriousFailure` | a Pause that commits just before a line's recheck fails the program |
| `Reconnect` with `"close"` in `Upsets` | `Controller` | `DeadLinkNoticed` | a Close that fails has already queued a disconnect event that the bridge may swallow |
| `Suppression` | `PortMonitor` | `SuppressionObeyed` | an automatic connect decided before a manual Disconnect is performed after it |
| `StripStale` | `MCFrontend` | `StripCurrent` | the strip of a package keeps showing a run that started and drained before its Start was answered |
| `StrandedClose` | `MCFrontend` | `NoCloseStranded` | a deferred close waits for a run that another document's run has replaced |
| `MotionShown` | `MockMachine` | `IdleMeansAtRest` | Jog Cancel, `$X` and Hold with Resume show Idle during an ordinary move |

`LateWriter` and `LateEntry` need an emergency stop, a forced disconnect and a
reconnect during one write or one scheduling gap; `StopBound` needs a held poll;
`PauseRace` and `DrainSync` need only an unlucky Pause; `StripStale` and
`StrandedClose` a short program and a slow Start.

Observations that contradict no statement: a Stop-and-Close that succeeds while the
exit dialog is open is handed to the shutdown, and lost when the operator answers
No; the mock's Hold does not stop its motion, and `!` and `0x85` clear its alarm
without `$X`; a client of the mock that reopens before the terminal has noticed the
last one's end gets no fresh banner; an option of the mock that withholds a
response also withholds a pending ALARM delivered with the same byte.

## 4. The proofs

Proved for every value of the constants, from the modules' named assumptions, and from
the conditions on the constants that a statement names (explained below):

| module | theorem | statement |
|---|---|---|
| `Controller_proofs` | `TypeCorrect` | `Spec => []TypeOK` |
| | `ExecutingReady` | `Spec => []ExecutingImpliesReady` |
| | `OwnerCurrent` | `Spec => []OwnerIsCurrentRun` |
| | `StopOwned` | `Spec => []StopOwnsRun` |
| | `LifecycleCorrect` | `Spec => []LifecycleOwned` |
| `ControllerMachine_proofs` | `WritesSerialised` | `Serialisable => (Spec => []OneWriter)` |
| | `NothingBehindReset` | `Serialisable => (Spec => NoLineAfterStopReset)` |
| | `PausedIsHeld` | `Serialisable => (Spec => []PausedMachineHeld)` |
| `ControllerReadiness_proofs` | `NormalIsAtRest` | `Serialisable => (Spec => []NormalMeansAtRest)` |
| | `ReadinessIsRegained` | `Serialisable => (Spec => ReadinessRegained)` |
| `CommandSessions_proofs` | `TypeCorrect` | `Spec => []TypeOK` |
| | `NothingInherited` | `Spec => []PreparedOwned` |
| | `NoFalseAlarm` | `Undisturbed /\ InTime => (Spec => NoFalseEmergency)` |
| | `SnapshotKept` | `Undisturbed /\ InTime => (Spec => []SnapshotFaithful)` |
| | `AnswersMatch` | `Undisturbed /\ InTime => (Spec => OwnAnswer)` |
| | `DeathNoticed` | `Spec => []DeadNoticedInTime` |
| `PortMonitor_proofs` | `TypeCorrect` | `Spec => []TypeOK` |
| | `EndReportedOnce` | `Spec => []EndsOnce` |
| | `NoLossSwallowed` | `Spec => []LossNoticed` |
| | `OwnSettings` | `Spec => []SettingsAnswer` |
| `Frontend_proofs` | `TypeCorrect` | `Spec => []TypeOK` |
| | `AttributionCorrect` | `Spec => []RunAttributed` |
| | `SiblingsTold` | `Spec => []BlockedIsCurrent` |
| | `StartsFrozen` | `Spec => []FrozenWhileShuttingDown` |
| | `ClosesTracked` | `Spec => []CloseTracked` |
| | `ExitIsSafe` | `Spec => ImplementsSafeExit` |
| `MockMachine_proofs` | `TypeCorrect` | `Spec => []TypeOK` |
| | `PlannerCorrect` | `Spec => []PlannerSound` |
| | `AcceptedKept` | `Spec => KeepsAccepted` |

**Controller, types.** `TypeInv` adds to `TypeOK` that a runner at a line has one
left (the line counter never goes below zero) and that the connector opens no
generation beyond `MaxGen`; it is inductive by itself. `Controller_proofs` has one
lemma per locked operator and one per action.

**Controller, safety.** None of the four invariants is inductive alone. Starting a
program preserves `ExecutingImpliesReady` only because a connection that is being
verified is not ready (`LifecycleOwned`); changing the connection preserves
`StopOwnsRun` only because no run exists during a transition
(`ExecutingImpliesReady`, `StopOwnsRun`); giving the owner away relies on the run
that owns it. Their conjunction `Safe` with the types is inductive:
`IInv == TypeInv /\ Safe`. Most actions leave the fields that `Safe` reads alone
(`Core`), and one lemma covers them all; the actions that take a run away share
the lemma about a record in which the run is over; the others (Start, Stop,
Pause, Resume, Connect, Disconnect, e-stop, the verifier) have a lemma each.

**Controller, the reservation.** Most paths end a reservation by freeing whatever one
there is (`endRealtimeWriteLocked`), so `OneWriter` holds only if whoever frees it has
it. A forced Disconnect retires a reservation whose write is still in flight and
breaks that: `OneWriter` is false of some instances (`LateWriter`, section 3).
`Serialisable` says which instances the theorems are about: nobody calls Disconnect;
or no goroutine takes a whole reconnect to enter Write, and the operating system
holds no write at all, or only those of a Stop. All the passing runs that check
one of the properties concerned satisfy it. `RInv` adds to
`IInv` that a goroutine that writes to the open port, or coordinates a Stop between
its Hold and its Ctrl-X, has the reservation (`Reserved`), and what that rests on: a
held write is where its goroutine is, or was left behind by a Stop (`Behind`), its handle is
not of the future (`Older`), a generation that is not committed has neither poller
nor verifier (`Later`), nobody takes the transport while it is being opened
(`Opening`) or, without a caller, closed (`Closing`). Ownership passes only from a free reservation
to the goroutine that takes it (`Passes`); one lemma per goroutine shows both.

**Controller, the machine.** Three facts about a step, each proved once per kind of
goroutine, carry the rest: which goroutine moves (`Stands`, `WhoActs`); what the
critical section does to the controller (`Turns`: most only take a run, a Stop, a
token away, `Steady`; the others are listed); what reaches the machine and the
event queue (`Deeds`). `NoLineAfterStopReset` then is that a goroutine that is
sending a line has the reservation that the Stop keeps from Hold to Ctrl-X.
`Holding` makes `PausedMachineHeld` inductive: a Pause that has written its Hold and
still has its token finds the machine held and the runner not writing
(`HeldBeforePause`), a line on its way belongs to the current run, a Resume on its way to
the current run while no Pause is about to commit, a machine-wide one to no run.

**Controller, readiness.** The controller never sees the machine, only what it sent
some time ago, so the invariant behind `NormalMeansAtRest` and `ReadinessRegained`
(`Resting`) is about what is on its way. `Flow` says what a step does to machine and
event queue at once: the queue keeps its events, loses its first to the bridge, or
grows by what the machine says. Then:

* The one line a run may have outstanding is in the machine, or its ok is in the
  queue, or in the session, never two of these; where the runner awaits nothing,
  nothing is outstanding (`RunAnswered`). This is why a run is `Drained` before it
  asks for a report.
* A report tells of the past: behind an Idle in the queue a moving machine has an ok
  still to come, and a locked one an alarm (`IdleIsOld`). So an Idle read when every
  ok has been read is the truth about motion (`DrainIsStill`), and an alarm missed by
  it is still to be read (`VerifierTold`, `StopTold`) and will overrule the
  conclusion.
* A banner that counts for a Stop was sent behind its Ctrl-X, and so behind every ok
  of the stopped run (`BannerIsLast`); past the Ctrl-X the machine neither moves nor
  gets a line (`StopIsStill`).
* Where the controller assumes an empty machine (`AtEase`: no run and no recovery
  required, or a run that has submitted nothing) it is empty (`EaseIsRest`): a run
  that ends in any other way than drained or verified leaves recovery behind.

**Commands.** `PreparedOwned` is inductive with the type of the record: the
operation of a lease or a pending setting names a command, so without an owner there
is none; a section that acquires ownership inherits nothing, and one that gives it
away forgets what the owner prepared. Each locked function has a lemma. The types
(`TypeOK`) need those of what goroutines, channel and machine hold, and that every
limit computed from the settings fits the ages (`SilentTimeType`).

**Commands, answers and time.** The next three theorems have two conditions, which are
formulas over the constants and hold of the instance `Commands`. `Undisturbed`:
nobody takes ownership with Soft Reset, nothing resets settings, controller or
machine, and what goes wrong are rejected lines and failed writes. (With Soft Reset
the late answer of an abandoned line meets the next owner: the finding
`StaleAnswer`.) `InTime`: the bridge's lag stays below a lease's margin
(`Lag < Margin`), and the heartbeat's timeout leaves room for every poll that an upset
or a late event can cost (`MaxUpsets + Lag < Timeout` and
`MaxUpsets + 2 * Lag <= Timeout`). The code has 2 s of timeout and of margin against
500 ms polls, four ticks each. None of the three can be dropped: where one fails TLC
finds a live machine stopped, the first with `Lag` and `Margin` 1, the second with
`MaxUpsets`, `Lag`, `Timeout` of 1, 0, 1, the third with 1, 2, 4.

Three invariants are inductive only together (`TimedInvariant`). `Flow` says where
the owner's line is: still to be written, at the machine, homing, answered in the
event channel, or answered in the session's backlog; there is at most one answer, it
is the owner's, and what the machine has stored is the snapshot, or the pending
setting once an `ok` has been sent for it. Without an owner there is neither line nor
answer, hence `SnapshotFaithful` and `OwnAnswer`. Only an emergency stop of a live
machine would leave an answer behind, and `Leases` and `Heartbeat` exclude it. The
bridge may be behind, so `Leases` speaks of the lease as it will be after each line
still in the channel (`Readings`): none of them comes later than the lease of its
turn allows, and the machine's remaining silence fits the lease behind all of them.
That covers `$L`, whose adjustments, read in any order relative to ticks, move the
limit leg by leg, also when the number printed cannot be read. `Heartbeat` bounds the
outstanding beat by a debt: it is nonzero only while a poll is refused or unwritten,
each refusal is paid for by an upset or by an event on its way, and any line that is
read clears it. Hence no limit is ever passed when the watchdog looks
(`Responsive`).

**Commands, a dead machine.** `DeathNoticed` has no conditions: Soft Reset, resets of
the settings and every upset are in it. Its invariant (`WatchInv`) has three parts
besides `IInv`. `Tied` says of the commands what survives any loss of ownership: the
owner is not cancelled, a waiter and a reservation have the goroutine that ends them,
and a lease is of the line its session is at and replaces the heartbeat. `Departed`
says that what a dead machine said is no younger than its death, so that `Lag` ticks
after it the channel is empty, no session has an answer left and nothing can be noted
as activity. `Waited` then accounts for every tick since: the watchdog was waiting for
a lease, for the heartbeat, for a poll to begin one, or for a command that held that
poll up, and what was spent before is a sum (`Cost`) of one lease and one timeout for
each lease that Soft Reset ended, one tick for each command that held up a poll, and
one timeout for each silent line that could not be written. Two commands are needed to
spend a lease, the silent one and the Soft Reset; a command can do each of these once
only, because after its line is prepared (`Gone`) or nothing of it is left to be written
(`Settled`) it never comes back: a further line of a macro needs an answer. So the
sum is bounded (`Paid`, `NoticedBound`). The bound cannot be a number of ticks for
every value of the constants: each further silent command that an operator begins on a
dead machine, and then resets, starts the wait over.

**Connecting.** `IInv` has four parts. The types include that only lines, errors and
ends are diverted to an attempt. `Ends` strengthens `EndsOnce`: a generation whose
end is queued has no port, no close under way and no reader, and at most one of
these still brings its end about. Every action touches the transport in one of a
dozen ways (`TransportStep`), so the first two parts are proved per way and not per
action. `Roles` is what `LossNoticed` needs: who is inside connect and Disconnect,
that a candidate is never the generation whose event is to be suppressed, that an
end the bridge took from a candidate has left the error that the commit looks at, and
that an end it took before the controller knew the generation is among the early ones
that `NoteOpened` looks through. `Asked` is what `SettingsAnswer` needs: the machine is past its startup output
before the query, and every line that was read until then is marked as older
than it, on the wire, in the channel and in the attempt's queue.

**Frontend.** `IInv` relates the UI thread's record to the calls under way:
`Good` (the manager: types, attempts of a package's own steps, what siblings were
told, attribution given which session asked the controller for which run),
`Tracked` (a close-pending document has one reason, and one that will be answered),
`Admitted` (one Start per open document), `Dialogs` (what a dialog asks about
cannot have changed under it), `Starting` (a Start without a result is the one its
session waits for, and the run it obtained is that session's), the gate's counter,
which is the number of Starts that hold an admission, and `Frozen`.
`ExecutionSessions_proofs` shows that every method of the manager keeps `Good` and
says whom it starts or stops waiting for. Goroutines change only the calls and the
UI thread mostly only its record: `ControllerSide` and `UISide` say so once. For
each action one lemma shows that it keeps `IInv` and is a step of `SafeExit` or a
stutter; with `Init` that is the refinement.

**Assumptions.** They are the named ones of the modules: sizes are natural numbers,
and one about shape, that a standalone document has exactly one session, as
`StandaloneExecutionSessionID` is a function of the document
(`src/internal/frontend/execution_session.go:27`). The gate's counter is a natural number and not a
`uint64`: it is bounded by the goroutines that exist.

**Mock machine.** `PlannerSound` is inductive with the types. Most actions leave the
planner alone, bring it to rest or keep its moves; those that start, append or
complete a move have a lemma each. `KeepsAccepted` follows from `Chained`: the place
from which the next move is started is the one it was planned from, so starting it
changes nothing in the plan.

**Only model-checked.** Everything about liveness, which is beyond the prover.
Every safety property of the controller and of the commands that holds is proved.
`SettledAgrees` of the frontend: its instance has no faults, and it holds because
a buffered error belongs to a run whose owner is about to be known; with faults,
overtaken events and three runs the buffer of errors keeps that of an older run
(it is bounded by `maxPendingRuns`, not cleared), so it is not an invariant
for every value of the constants.

## 5. Not modelled

* The macro engine, the G-code and package readers, the GRBL syntax beyond silent
  commands, the spindle, jog and line builders: sequential functions over strings
  and floating point, or file formats, without shared state. A macro is the lines
  it sends (`CommandSessions`).
* Registries of windows and presentation: maps used from one thread, and layout.
* Qt widgets, port enumeration, entry points, tests and experiments.
* Within modelled parts: `$` barriers, the motion rewriter and queries of programs;
  observers, progress and texts of the frontend; opening files; the spindle and the
  coordinate systems of the mock.

## 6. Plan

1. *Done.* The controller core with types and control safety proved; commands,
   settings, silence and the watchdog's clock; handshake, transport and port
   monitor; execution sessions, shutdown and the application with `SafeExit`; the
   mock machine with its planner proved.
2. *Done.* The connection phases, the frontend's invariants and the step simulation
   of `SafeExit` proved.
   So is the safety of the controller's machine: reserved, stopped, paused, at rest.
   So are, without Soft Reset, the snapshot, the answers and the watchdog of commands,
   and with it that the watchdog notices a dead machine.
   Next: what remains of the former with Soft Reset, and the upsets that a heartbeat
   survives counted between two lines read instead of over the whole run.
3. Abstract specification `MachineInterlock` (idle, executing, interrupted,
   verifying, and when the machine may move), with the controller as its
   refinement.
4. The `$` barriers of programs, and programs and commands in one instance.
