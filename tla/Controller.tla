------------------------------ MODULE Controller ------------------------------
(***************************************************************************)
(* The controller of internal/app: the goroutines of the component modules *)
(* interleaved over one controller record, one serial transport and one    *)
(* machine.                                                                *)
(***************************************************************************)
EXTENDS ProgramRun, ProgramStop, MachineAction, EventBridge, Connection

\* Where each kind of goroutine starts; a process is <<kind, number>>.
FirstLabel ==
  [runner |-> "off", stopper |-> "off", client |-> "idle", poller |-> "off",
   verifier |-> "off", connector |-> "idle", closer |-> "idle", bridge |-> "read"]

Init ==
  /\ ctl = InitController
  /\ pc = [p \in Procs |-> FirstLabel[p[1]]]
  /\ aim = [i \in 1..MaxClients |-> 0]
  /\ chan = [r \in RunID |-> <<>>]
  /\ job = [r \in RunID |-> [left |-> Lines, gen |-> 0]]
  /\ closer = NoCloser
  /\ bridge = 0
  /\ stalled = [p \in Writers |-> NoWrite]
  /\ fresh = {}
  /\ port = 0
  /\ opened = 0
  /\ rx = <<>>
  /\ dev = AtRest
  /\ faults = 0

Next ==
  \/ Machine
  \/ PortDrops
  \/ \E p \in Writers : WriteStalls(p)
  \/ \E r \in RunID : \/ StartProgram(r) \/ RunnerStep(r)
                      \/ StopProgram(r) \/ StopStep(r)
                      \/ PendingStopWriteReturns(r)
  \/ \E i \in 1..MaxClients : \/ BeginPause(i) \/ BeginResume(i) \/ ClientStep(i)
                             \/ \E a \in Actions : BeginAction(i, a)
                             \/ ActionStep(i)
  \/ BridgeStep \/ WatchdogEStop
  \/ \E g \in Generation : BeginStatusPoll(g) \/ EndStatusPoll(g) \/ VerifierStep(g)
  \/ Connect \/ ConnectorStep
  \/ Disconnect \/ CloserStep

(***************************************************************************)
(* Every goroutine is scheduled and the poll timer keeps firing.  So does  *)
(* the machine: it ends its motion and answers the lines it holds, however *)
(* often status reports fill the event channel (strong fairness).  Nothing *)
(* makes a user act, a fault happen, or a write that the operating system  *)
(* holds return.                                                           *)
(***************************************************************************)
Free(p) == pc[p] \in DOMAIN WritingPC => stalled[p] = NoWrite

Fairness ==
  /\ SF_vars(MachineAccepts /\ Machine) /\ SF_vars(MachineRejects /\ Machine)
  /\ WF_vars(MachineFinishes /\ Machine)
  /\ WF_vars(BridgeStep)
  /\ WF_vars(ConnectorStep)
  /\ WF_vars(CloserStep)
  /\ \A r \in RunID : /\ WF_vars(RunnerStep(r) /\ Free(Runner(r)))
                      /\ WF_vars(StopStep(r) /\ Free(Stopper(r)))
                      /\ WF_vars(StopWriteTimesOut(r))
  /\ \A i \in 1..MaxClients : /\ WF_vars(ClientStep(i) /\ Free(Client(i)))
                             /\ WF_vars(ActionStep(i) /\ Free(Client(i)))
  /\ \A g \in Generation : /\ WF_vars(EndStatusPoll(g) /\ Free(Poller(g)))
                           /\ WF_vars(BeginStatusPoll(g))
                           /\ WF_vars(VerifierStep(g) /\ Free(Verifier(g)))

Spec == Init /\ [][Next]_vars
FairSpec == Spec /\ Fairness

-----------------------------------------------------------------------------
Labels ==
  [runner    |-> {"off", "gate", "admit", "blocked", "write", "await", "drain",
                  "drainGate", "baseline", "pollAdmit", "pollWrite", "waitIdle",
                  "check", "finish", "fail", "done"},
   stopper   |-> {"off", "acquire", "hold", "mark", "markErr", "reset",
                  "resetErr", "verify", "banner", "baseline", "pollAdmit",
                  "pollWrite", "waitIdle", "finish", "fail", "done"},
   client    |-> {"idle", "holdAdmit", "holdWrite", "holdCommit", "holdEnd",
                  "resumeAdmit", "resumeWrite", "resumeCommit",
                  "machineHold", "machineHoldWrite", "machineResume",
                  "machineResumeWrite", "softReset", "softResetWrite"},
   poller    |-> {"off", "idle", "pollWrite"},
   verifier  |-> {"off", "baseline", "pollAdmit", "pollWrite", "waitIdle",
                  "verified", "unverified"},
   connector |-> {"idle", "open", "opened", "validate", "commit", "close",
                  "closing", "abandon"},
   closer    |-> {"idle", "stopPolling", "join", "close", "closeErr", "clear",
                  "cleared"},
   bridge    |-> {"read", "fail", "join"}]

\* Every variable keeps to its type, and every goroutine to its own labels.
TypeOK ==
  /\ ctl \in Controller
  /\ DOMAIN pc = Procs /\ \A p \in Procs : pc[p] \in Labels[p[1]]
  /\ aim \in [1..MaxClients -> 0..MaxRuns]
  /\ chan \in [RunID -> Seq({"ok", "fail"})]
  /\ \A r \in RunID : Len(chan[r]) <= MaxBacklog
  /\ job \in [RunID -> [left : 0..Lines, gen : 0..MaxGen]]
  /\ closer \in [write : Writers \cup {Nobody}, forced : BOOLEAN]
  /\ bridge \in 0..MaxRuns \cup 0..MaxGen
  /\ stalled \in [Writers -> WriteType]
  /\ fresh \subseteq Awaiters
  /\ port \in {0, opened} /\ opened \in 0..MaxGen
  /\ rx \in Seq(RxEvent) /\ Len(rx) <= MaxRx
  /\ dev \in DeviceType
  /\ faults \in 0..MaxFaults
-----------------------------------------------------------------------------
(* Safety of the controller's own state. *)

\* A program executes only on a stable connection to the generation it was
\* started on, with the machine ready, no emergency stop and no Stop under way:
\* every path that takes one of these away (Disconnect, a lost transport, the
\* watchdog, ALARM:50, Stop) takes the run away in the same critical section.
ExecutingImpliesReady ==
  ctl.status \in Executing =>
    /\ ctl.run.id # 0
    /\ IsConnected(ctl)
    /\ ctl.transition = "stable"
    /\ ctl.gen # 0 /\ ctl.gen = ctl.run.gen
    /\ ctl.ready = "normal"
    /\ ctl.estop = "clear"
    /\ ctl.stop.run = 0

\* The response owner is the current run's session on the current generation,
\* and an executing run always has it: the ErrCommandSessionInvariant branch
\* of deliverResponseLocked is unreachable.
OwnerIsCurrentRun ==
  /\ ctl.owner.session # Nobody =>
       /\ ctl.run.id # 0
       /\ ctl.owner = [session |-> Runner(ctl.run.id), gen |-> ctl.run.gen]
       /\ ctl.run.gen = ctl.gen
  /\ ctl.status \in Executing => ctl.owner.session # Nobody

\* A Stop operation in c.stopOperation is the Stop of the current run on the
\* current generation, and a run is stopping for exactly as long as it has one:
\* disconnect, e-stop and failure never leave one without the other.
StopOwnsRun ==
  /\ ctl.status = "stopping" <=> ctl.stop.run # 0
  /\ ctl.stop.run # 0 =>
       /\ ctl.run.id = ctl.stop.run
       /\ ctl.stop.gen = ctl.run.gen /\ ctl.run.gen = ctl.gen /\ ctl.gen # 0
       /\ IsConnected(ctl) /\ ctl.transition = "stable"
       /\ ctl.ready \in {"stopping", "verifying"}
       /\ ctl.estop = "clear"
       /\ ctl.owner = NoOwner

\* The connection transition is the goroutine that performs it, a generation is
\* current exactly while connected, a run exists exactly while a program is
\* active, and a verification of the current connection excludes both a run and
\* normal readiness: no program starts on a machine still being verified.
LifecycleOwned ==
  /\ IsConnected(ctl) <=> ctl.gen # 0
  /\ ctl.run.id # 0 <=> ctl.status \in Active
  /\ ctl.transition = "connecting" <=> pc[Connector] # "idle"
  /\ ctl.transition = "disconnecting" <=> pc[Closer] # "idle"
  /\ \A g \in Generation :
       pc[Verifier(g)] # "off" /\ ctl.gen = g => ctl.run.id = 0 /\ ctl.ready # "normal"

-----------------------------------------------------------------------------
(* Safety of the machine. *)

\* The purpose of MachineReadiness: when it is normal and no program is active,
\* nothing a program submitted is still moving the connected machine or waiting
\* in it, however the last run ended.
NormalMeansAtRest ==
  ctl.ready = "normal" /\ ~ProgramActive(ctl) /\ IsConnected(ctl) /\ port = ctl.gen
    => ~dev.motion /\ dev.lines = 0

Moves(p) == pc[p] \in {"resumeWrite", "resumeCommit"}

\* While the run is paused and no Resume is under way the machine does not move
\* and no line of the program is on its way to it.
PausedMachineHeld ==
  ctl.status = "paused" /\ ~(\E p \in ClientSet : Moves(p)) =>
    /\ dev.motion => dev.held
    /\ pc[Runner(ctl.run.id)] # "write"

Writing(p) == /\ port # 0 /\ Handle(p) = port
              /\ pc[p] \in DOMAIN WritingPC \/ stalled[p] # NoWrite

\* The realtime reservation serialises the transport: two goroutines are never
\* inside Write on the same open port.
OneWriter == \A p, q \in Writers : Writing(p) /\ Writing(q) => p = q

LineLands(r) == pc[Runner(r)] = "write" /\ pc'[Runner(r)] = "await"

\* Once a Stop has issued its Ctrl-X, no line of the stopped run reaches the
\* machine behind it.
NoLineAfterStopReset ==
  [][\A r \in RunID : LineLands(r) => ~(ctl.stop.run = r /\ ctl.stop.reset)]_vars

\* Readiness is regained, after a Stop or a recovery reconnect, only from a
\* machine at rest with nothing queued, and not from one in alarm unless the
\* bridge has still to process the line that says so.
ReadinessRegained ==
  [][ctl.ready # "normal" /\ ctl'.ready = "normal" /\ port = ctl.gen =>
       /\ dev.lines = 0 /\ ~dev.motion
       /\ dev.alarm => \E i \in DOMAIN rx : IsAlarm(rx[i])]_vars

\* A run completes only when no Pause has begun since its last status baseline.
DrainSynchronized ==
  [][ctl.status # "completed" /\ ctl'.status = "completed" => ctl.run.inSync]_vars

\* Without a fault a program does not fail.
NoSpuriousFailure == faults = 0 => ctl.status # "failed"

-----------------------------------------------------------------------------
(* Liveness, under Fairness. *)

\* An accepted Stop ends, whatever becomes of its writes of Hold and Ctrl-X.
StopCompletes ==
  \A r \in RunID : ctl.stop.run = r ~> ctl.stop.run # r

\* Stopping and Verifying are transient: readiness settles to normal or to
\* recovery required.
ReadinessSettles ==
  ctl.ready \in {"stopping", "verifying"} ~> ctl.ready \in {"normal", "recovery"}

\* A pause transition, which blocks both the next line and completion, ends.
PauseSettles == ctl.run.pause # Nobody ~> ctl.run.pause = Nobody

\* A running program does not hang: it ends, or somebody begins to pause it.
RunEnds == ctl.status \in {"running", "draining"}
             ~> \/ ctl.status \notin {"running", "draining"}
                \/ ctl.run.pause # Nobody

DeadLink == IsConnected(ctl) /\ port = 0

\* The controller does not stay connected to a port the transport has lost.
DeadLinkNoticed == DeadLink ~> ~DeadLink
=============================================================================
