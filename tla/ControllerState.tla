-------------------------- MODULE ControllerState --------------------------
(***************************************************************************)
(* The state that internal/app keeps under Controller.mu, as one record,   *)
(* and the functions that run with the lock held (the ...Locked functions  *)
(* of the source) as operators from record to record.  A critical section  *)
(* of the code is then one assignment  ctl' = F(G(ctl)).                   *)
(*                                                                         *)
(* There are no variables here: the modules that model the goroutines      *)
(* decide when a critical section runs.                                    *)
(***************************************************************************)
EXTENDS Integers, Sequences, FiniteSets

CONSTANTS
    MaxRuns,    \* executions that may be admitted: RunIDs are 1..MaxRuns
    MaxGen,     \* transport openings: connection generations are 1..MaxGen
    MaxClients  \* concurrent callers of Pause, Resume and the machine actions

ASSUME BoundsAssumption == /\ MaxRuns \in Nat
                           /\ MaxGen \in Nat
                           /\ MaxClients \in Nat

RunID      == 1..MaxRuns
Generation == 1..MaxGen

(***************************************************************************)
(* Goroutines.  One that reserves the realtime transport is also the       *)
(* identity of its reservation: the channel realtimeWriteDone that the     *)
(* code compares is created once per reservation, and no goroutine holds   *)
(* two at a time.                                                          *)
(***************************************************************************)
Nobody      == <<"nobody", 0>>
Runner(r)   == <<"runner", r>>       \* go c.runProgram
Stopper(r)  == <<"stopper", r>>      \* go c.executeProgramStop
Client(i)   == <<"client", i>>       \* a caller of Pause, Resume, Action
Poller(g)   == <<"poller", g>>       \* go c.pollStatusLoop of generation g
Verifier(g) == <<"verifier", g>>     \* go c.verifyReadinessAfterConnect
Connector   == <<"connector", 0>>    \* a caller of Connect
Closer      == <<"closer", 0>>       \* a caller of Disconnect
Bridge      == <<"bridge", 0>>       \* go c.runTransportEventBridge

Runners   == {Runner(r) : r \in RunID}
Stoppers  == {Stopper(r) : r \in RunID}
ClientSet == {Client(i) : i \in 1..MaxClients}
Pollers   == {Poller(g) : g \in Generation}
Verifiers == {Verifier(g) : g \in Generation}
Writers   == Runners \cup Stoppers \cup ClientSet \cup Pollers \cup Verifiers
Procs     == Writers \cup {Connector, Closer, Bridge}

-----------------------------------------------------------------------------
ProgramStatus == {"loaded", "running", "draining", "paused", "stopping",
                  "stopped", "completed", "failed"}
Active        == {"running", "draining", "paused", "stopping"}
Executing     == {"running", "draining", "paused"}
MachineState  == {"", "Idle", "Run", "Hold", "Alarm"}

\* programRun: inSync says that drainSyncEpoch still is what the runner read
\* when it took its status baseline; pause is the goroutine whose
\* pauseTransition token the run holds.
NoRun  == [id |-> 0, gen |-> 0, draining |-> FALSE, pause |-> Nobody,
           inSync |-> FALSE, work |-> FALSE]
RunType == [id : 0..MaxRuns, gen : 0..MaxGen, draining : BOOLEAN,
            pause : ClientSet \cup {Nobody}, inSync : BOOLEAN, work : BOOLEAN]

\* programStopOperation, identified by its run.  invalid stands for
\* verificationInvalidated and for alarmRevision > alarmBaseline, which an
\* alarm raises together.  The code sets invalidated only in critical sections
\* that also complete the operation, where it ceases to be c.stopOperation.
NoStop == [run |-> 0, gen |-> 0, invalid |-> FALSE, reset |-> FALSE,
           banner |-> FALSE, alarm3 |-> FALSE]
StopType == [run : 0..MaxRuns, gen : 0..MaxGen, invalid : BOOLEAN,
             reset : BOOLEAN, banner : BOOLEAN, alarm3 : BOOLEAN]

NoOwner   == [session |-> Nobody, gen |-> 0]
OwnerType == [session : Runners \cup {Nobody}, gen : 0..MaxGen]

Controller ==
  [ conn       : {"disconnected", "connecting", "connected"},
    transition : {"stable", "connecting", "disconnecting"},
    gen        : 0..MaxGen,       \* connectionGeneration
    attempt    : 0..MaxGen,       \* connectAttemptGeneration
    attemptErr : BOOLEAN,         \* connectAttemptErr # nil
    early      : SUBSET Generation, \* pendingDisconnectedGenerations
    suppress   : 0..MaxGen,       \* suppressTransportDisconnectedGeneration
    polling    : 0..MaxGen,       \* statusMonitoringGeneration
    status     : ProgramStatus,
    ready      : {"normal", "stopping", "verifying", "recovery"},
    estop      : {"clear", "active", "recovery"},
    machine    : MachineState,    \* last reported state; "" when invalidated
    alarmed    : BOOLEAN,         \* alarmRevision > recoveryAlarmBaseline
    run        : RunType,
    stop       : StopType,
    owner      : OwnerType,       \* responseOwner
    write      : Writers \cup {Nobody} ] \* realtimeWriteDone; Nobody when free

InitController ==
  [ conn |-> "disconnected", transition |-> "stable", gen |-> 0,
    attempt |-> 0, attemptErr |-> FALSE, early |-> {}, suppress |-> 0,
    polling |-> 0, status |-> "loaded", ready |-> "normal", estop |-> "clear",
    machine |-> "", alarmed |-> FALSE, run |-> NoRun, stop |-> NoStop,
    owner |-> NoOwner, write |-> Nobody ]

IsConnected(c) == c.conn = "connected"
ProgramActive(c) == c.run.id # 0 \/ c.status \in Active
PollHolds(c) == c.write \in Pollers

-----------------------------------------------------------------------------
(* Admission: the part of admissionErrorLocked that no reservation decides. *)
Eligible(c, request) ==
  /\ c.transition = "stable"
  /\ \/ c.ready = "normal"
     \/ request \in {"connect", "disconnect", "statusPoll", "safety", "stop",
                     "recoveryRealtime"}
  /\ \/ c.estop = "clear"
     \/ request \in {"connect", "disconnect", "statusPoll"}
     \/ request = "recoveryRealtime" /\ c.estop = "recovery"
\* Mutant: admission forgets the realtime reservation.
AdmittedWhileReserved(c, request, waiting) ==
  /\ Eligible(c, request)
  /\ request = "statusPoll" => ~waiting
  /\ request = "disconnect" => ~(ProgramActive(c) /\ c.ready = "normal")
  /\ request = "connect" => ~IsConnected(c)
  /\ request \in {"connect", "program"} => c.owner = NoOwner /\ ~ProgramActive(c)

\* admissionErrorLocked returns nil.  waiting: some goroutine is registered in
\* foregroundAdmissionWaiters.
Admitted(c, request, waiting) ==
  /\ Eligible(c, request)
  /\ request = "statusPoll" => ~waiting
  /\ request # "disconnect" => c.write = Nobody
  /\ request = "disconnect" => ~(ProgramActive(c) /\ c.ready = "normal")
  /\ request = "connect" => ~IsConnected(c)
  /\ request \in {"connect", "program"} => /\ c.owner = NoOwner
                                           /\ ~ProgramActive(c)

Reserve(c, p) == [c EXCEPT !.write = p]

\* endRealtimeWriteLocked frees whatever reservation there is.
EndRealtimeWrite(c) == [c EXCEPT !.write = Nobody]

\* endRealtimeWriteReservation frees only the caller's own reservation.
EndReservation(c, p) == IF c.write = p THEN EndRealtimeWrite(c) ELSE c

-----------------------------------------------------------------------------
(* Program execution. *)
StartRun(c, r) ==
  [c EXCEPT !.run = [NoRun EXCEPT !.id = r, !.gen = c.gen],
            !.owner = [session |-> Runner(r), gen |-> c.gen],
            !.status = "running"]

BeginPauseTransition(c, p) ==
  [c EXCEPT !.run.pause = p, !.run.inSync = @ /\ ~c.run.draining]
\* Mutant: the token is given back only by a Pause that paused the run.
ReleaseOnlyWhenPaused(c, p) ==
  IF c.run.pause = p /\ c.status = "paused"
  THEN [c EXCEPT !.run.pause = Nobody] ELSE c

EndPauseTransition(c, p) ==
  IF c.run.pause = p THEN [c EXCEPT !.run.pause = Nobody] ELSE c
\* Mutant: the failed run keeps the response owner.
FailRunKeepsOwner(c) == [c EXCEPT !.run = NoRun, !.status = "failed"]

\* recordProgramFailureLocked, with c.run = nil before it and the response
\* owner released or terminated in the same critical section.
FailRun(c) == [c EXCEPT !.run = NoRun, !.status = "failed", !.owner = NoOwner]

FinishProgramSuccess(c) ==
  [c EXCEPT !.run = NoRun, !.status = "completed", !.owner = NoOwner]
CanFinishProgram(c, r) ==
  /\ c.run.id = r
  /\ c.run.draining
  /\ c.run.pause = Nobody
  /\ c.status = "draining"

\* Mutant: a failed run asks for no recovery.
FailWithoutRecovery(c, r) ==
  IF c.run.id # r \/ c.stop.run = r THEN c ELSE FailRun(c)

FinishProgramFailure(c, r) ==
  IF c.run.id # r \/ c.stop.run = r THEN c
  ELSE [FailRun(c) EXCEPT !.ready = IF c.run.work THEN "recovery" ELSE @]

-----------------------------------------------------------------------------
(* Stop. *)
BeginStop(c) ==
  [c EXCEPT !.stop = [NoStop EXCEPT !.run = c.run.id, !.gen = c.run.gen],
            !.run.pause = Nobody, !.run.inSync = FALSE,
            !.owner = NoOwner, !.status = "stopping", !.ready = "stopping"]

StopCurrent(c, r) ==
  /\ c.stop.run = r
  /\ c.run.id = r
  /\ c.gen = c.stop.gen

\* stopVerificationErrorLocked returns nil, the connection check included.
StopVerifiable(c, r) ==
  /\ c.stop.run = r
  /\ c.gen = c.stop.gen
  /\ IsConnected(c)
  /\ ~c.stop.invalid

MarkStopResetWriteIssued(c) == [c EXCEPT !.stop.reset = TRUE]

FinishProgramStop(c) ==
  [c EXCEPT !.run = NoRun, !.owner = NoOwner, !.status = "stopped",
            !.ready = "normal", !.stop = NoStop]
\* Mutant: a failed Stop leaves readiness where it was.
FailStopKeepsReadiness(c, r) ==
  IF c.stop.run # r THEN c
  ELSE [(IF c.run.id = r THEN FailRun(c) ELSE c) EXCEPT !.stop = NoStop]

FailProgramStop(c, r) ==
  IF c.stop.run # r THEN c
  ELSE [(IF c.run.id = r THEN FailRun(c) ELSE c)
          EXCEPT !.ready = "recovery", !.stop = NoStop]

\* noteStopVerificationAlarmLocked: one ALARM:3 is forgiven between the Ctrl-X
\* of the current Stop and the banner that answers it.
ForgivesAlarm3(c) ==
  /\ c.stop.run # 0
  /\ ~c.stop.invalid
  /\ c.stop.gen = c.gen
  /\ c.stop.reset
  /\ ~c.stop.banner
  /\ ~c.stop.alarm3
\* Mutant: an alarm does not invalidate the verification of a Stop.
AlarmSparesStop(c, is3) ==
  IF is3 /\ ForgivesAlarm3(c)
  THEN [c EXCEPT !.stop.alarm3 = TRUE] ELSE [c EXCEPT !.alarmed = TRUE]

NoteAlarm(c, is3) ==
  IF is3 /\ ForgivesAlarm3(c)
  THEN [c EXCEPT !.stop.alarm3 = TRUE]
  ELSE [c EXCEPT !.alarmed = TRUE,
                 !.stop.invalid = @ \/ (c.stop.run # 0 /\ c.stop.gen = c.gen)]

\* noteStopResetBannerLocked; fresh: the banner was read after the Stop marked
\* its reset (resetBannerBaseline and resetStartedAt).
NoteResetBanner(c, fresh) ==
  IF c.stop.run # 0 /\ c.stop.gen = c.gen /\ c.stop.reset /\ fresh
  THEN [c EXCEPT !.stop.banner = TRUE] ELSE c

-----------------------------------------------------------------------------
(* Emergency stop. *)
CanEnterEStop(c) == IsConnected(c) /\ c.gen # 0 /\ c.estop # "active"

EnterEStop(c) ==
  [c EXCEPT !.run = NoRun, !.stop = NoStop, !.owner = NoOwner,
            !.status = IF ProgramActive(c) THEN "failed" ELSE @,
            !.ready = IF c.run.id # 0 THEN "recovery" ELSE @,
            !.machine = "", !.estop = "active"]

\* noteStatusResponseLocked
NoteStatusResponse(c, state) ==
  IF c.gen # c.polling \/ c.estop = "clear" THEN c
  ELSE [c EXCEPT !.estop = IF state = "Idle" THEN "clear" ELSE "recovery"]

\* The status-report part of the event bridge.
NoteStatusReport(c, state) ==
  LET d == IF state = "Alarm" THEN NoteAlarm(c, FALSE) ELSE c
  IN  NoteStatusResponse([d EXCEPT !.machine = state], state)

-----------------------------------------------------------------------------
(* Connection. *)
BeginConnectAttempt(c) ==
  [c EXCEPT !.transition = "connecting", !.conn = "connecting",
            !.attempt = 0, !.attemptErr = FALSE, !.early = {}]

FinishConnectAttempt(c) ==
  [c EXCEPT !.transition = "stable",
            !.attempt = 0, !.attemptErr = FALSE, !.early = {}]

\* Connect's second critical section: Open returned generation g.
NoteOpened(c, g) ==
  [c EXCEPT !.attempt = g, !.attemptErr = @ \/ g \in c.early, !.early = @ \ {g}]
\* Mutant: a reconnect makes the machine ready before it is verified.
CommitsReady(c, g) ==
  [FinishConnectAttempt(c)
     EXCEPT !.conn = "connected", !.estop = "clear", !.gen = g, !.polling = g,
            !.alarmed = FALSE, !.ready = "normal"]

\* Connect's last critical section, startStatusPollingLocked included.
CommitConnection(c, g) ==
  [FinishConnectAttempt(c)
     EXCEPT !.conn = "connected", !.estop = "clear", !.gen = g, !.polling = g,
            !.alarmed = FALSE,
            !.ready = IF @ = "normal" THEN @ ELSE "verifying"]

\* failConnectAttempt's last critical section.
AbandonConnectAttempt(c) ==
  [FinishConnectAttempt(c)
     EXCEPT !.conn = IF @ = "connecting" THEN "disconnected" ELSE @]
\* Mutant: only a disconnect that precedes Open's return counts.
ForgetLateDisconnect(c, g) ==
  IF c.attempt = 0 THEN [c EXCEPT !.early = @ \cup {g}] ELSE c

\* acceptDisconnectedEvent, while an attempt is open.
NoteAttemptDisconnected(c, g) ==
  CASE c.attempt = g -> [c EXCEPT !.attemptErr = TRUE]
    [] c.attempt = 0 -> [c EXCEPT !.early = @ \cup {g}]
    [] OTHER         -> c

StopStatusPolling(c) == [c EXCEPT !.polling = 0]

ClearConnectionState(c) ==
  [c EXCEPT !.conn = "disconnected", !.estop = "clear", !.gen = 0,
            !.polling = 0, !.machine = "",
            !.ready = IF @ \in {"stopping", "verifying"} THEN "recovery" ELSE @]

\* Disconnect's first critical section.
BeginDisconnect(c) ==
  [(IF c.run.id # 0 THEN [FailRun(c) EXCEPT !.ready = "recovery"] ELSE c)
     EXCEPT !.transition = "disconnecting", !.stop = NoStop,
            !.owner = NoOwner, !.suppress = c.gen]

\* Disconnect after transport.Close failed.
DisconnectFailed(c) ==
  [c EXCEPT !.suppress = 0, !.transition = "stable", !.ready = "recovery"]
\* Mutant: a lost transport leaves the Stop operation behind.
DisconnectKeepsStop(c) ==
  ClearConnectionState(
    [(IF c.run.id # 0 THEN [FailRun(c) EXCEPT !.ready = "recovery"] ELSE c)
       EXCEPT !.owner = NoOwner])

\* handleTransportDisconnected's critical section.
HandleTransportDisconnected(c) ==
  ClearConnectionState(
    [(IF c.run.id # 0 THEN [FailRun(c) EXCEPT !.ready = "recovery"] ELSE c)
       EXCEPT !.owner = NoOwner, !.stop = NoStop])
=============================================================================
