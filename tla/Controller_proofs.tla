--------------------------- MODULE Controller_proofs ---------------------------
(***************************************************************************)
(* The controller, for every number of runs, generations, clients, lines,  *)
(* faults and events: first that it is type correct, then the invariants   *)
(* that tie the run, the Stop operation, the response owner, readiness and *)
(* the connection to each other.                                           *)
(*                                                                         *)
(* TypeOK is not quite inductive: TypeInv adds what the runner's count of  *)
(* lines and the connector's count of generations rest on.                 *)
(***************************************************************************)
EXTENDS Controller, SequenceTheorems, TLAPS

(***************************************************************************)
(* Every function that runs under Controller.mu maps controller records to *)
(* controller records.  The proofs about the goroutines cite these lemmas  *)
(* instead of expanding the record.                                        *)
(***************************************************************************)

Readiness == {"normal", "stopping", "verifying", "recovery"}

\* The number of a run or of a generation fits the fields that hold one.
LEMMA NumberType ==
  /\ RunID \subseteq 0..MaxRuns /\ Generation \subseteq 0..MaxGen
  /\ 0 \in 0..MaxRuns /\ 0 \in 0..MaxGen
BY BoundsAssumption DEF RunID, Generation

\* A controller that has no run, no Stop operation and no response owner holds
\* the zero values of their types.
LEMMA ZeroType == NoRun \in RunType /\ NoStop \in StopType /\ NoOwner \in OwnerType
BY BoundsAssumption DEF NoRun, RunType, NoStop, StopType, NoOwner, OwnerType

\* NewController.
LEMMA InitControllerType == InitController \in Controller
BY ZeroType, BoundsAssumption
   DEF InitController, Controller, ProgramStatus, MachineState

\* Only readiness changes.
LEMMA ReadyType ==
  ASSUME NEW c \in Controller, NEW x \in Readiness
  PROVE  [c EXCEPT !.ready = x] \in Controller
BY DEF Controller, Readiness

-----------------------------------------------------------------------------
(* The realtime reservation. *)

LEMMA ReserveType ==
  ASSUME NEW c \in Controller, NEW p \in Writers
  PROVE  Reserve(c, p) \in Controller
BY DEF Controller, Reserve

LEMMA EndRealtimeWriteType ==
  ASSUME NEW c \in Controller
  PROVE  EndRealtimeWrite(c) \in Controller
BY DEF Controller, EndRealtimeWrite

LEMMA EndReservationType ==
  ASSUME NEW c \in Controller, NEW p
  PROVE  EndReservation(c, p) \in Controller
BY EndRealtimeWriteType DEF EndReservation

-----------------------------------------------------------------------------
(* Program execution. *)

LEMMA StartRunType ==
  ASSUME NEW c \in Controller, NEW r \in RunID
  PROVE  StartRun(c, r) \in Controller
<1>1. Runner(r) \in Runners
  BY DEF Runners
<1> QED
  BY ZenonT(60), <1>1, NumberType
     DEF Controller, StartRun, NoRun, RunType, OwnerType, ProgramStatus

LEMMA BeginPauseTransitionType ==
  ASSUME NEW c \in Controller, NEW p \in ClientSet
  PROVE  BeginPauseTransition(c, p) \in Controller
BY DEF Controller, BeginPauseTransition, RunType

LEMMA EndPauseTransitionType ==
  ASSUME NEW c \in Controller, NEW p
  PROVE  EndPauseTransition(c, p) \in Controller
BY DEF Controller, EndPauseTransition, RunType

LEMMA FailRunType ==
  ASSUME NEW c \in Controller
  PROVE  FailRun(c) \in Controller
BY ZeroType DEF Controller, FailRun, ProgramStatus

LEMMA FinishProgramSuccessType ==
  ASSUME NEW c \in Controller
  PROVE  FinishProgramSuccess(c) \in Controller
BY ZeroType DEF Controller, FinishProgramSuccess, ProgramStatus

LEMMA FinishProgramFailureType ==
  ASSUME NEW c \in Controller, NEW r
  PROVE  FinishProgramFailure(c, r) \in Controller
<1>1. FailRun(c) \in Controller
  BY FailRunType
<1>2. FailRun(c).ready \in Readiness /\ "recovery" \in Readiness
  BY <1>1 DEF Controller, Readiness
<1>3. [FailRun(c) EXCEPT !.ready = IF c.run.work THEN "recovery" ELSE @] \in Controller
  BY <1>1, <1>2, ReadyType
<1> QED
  BY <1>3 DEF FinishProgramFailure

-----------------------------------------------------------------------------
(* Stop. *)

LEMMA BeginStopType ==
  ASSUME NEW c \in Controller
  PROVE  BeginStop(c) \in Controller
<1> DEFINE s == [NoStop EXCEPT !.run = c.run.id, !.gen = c.run.gen]
           r == [c.run EXCEPT !.pause = Nobody, !.inSync = FALSE]
<1>1. s \in StopType
  BY ZeroType DEF Controller, RunType, StopType
<1>2. r \in RunType
  BY DEF Controller, RunType
<1>3. BeginStop(c) = [c EXCEPT !.stop = s, !.run = r, !.owner = NoOwner,
                               !.status = "stopping", !.ready = "stopping"]
  BY DEF BeginStop, Controller, RunType
<1> HIDE DEF s, r
<1> QED
  BY ZenonT(60), <1>1, <1>2, <1>3, ZeroType DEF Controller, ProgramStatus

LEMMA MarkStopResetWriteIssuedType ==
  ASSUME NEW c \in Controller
  PROVE  MarkStopResetWriteIssued(c) \in Controller
BY DEF Controller, MarkStopResetWriteIssued, StopType

LEMMA FinishProgramStopType ==
  ASSUME NEW c \in Controller
  PROVE  FinishProgramStop(c) \in Controller
BY ZeroType DEF Controller, FinishProgramStop, ProgramStatus

LEMMA FailProgramStopType ==
  ASSUME NEW c \in Controller, NEW r
  PROVE  FailProgramStop(c, r) \in Controller
<1>1. ASSUME NEW d \in Controller
      PROVE  [d EXCEPT !.ready = "recovery", !.stop = NoStop] \in Controller
  BY ZeroType DEF Controller
<1> QED
  BY <1>1, FailRunType DEF FailProgramStop

LEMMA NoteAlarmType ==
  ASSUME NEW c \in Controller, NEW is3 \in BOOLEAN
  PROVE  NoteAlarm(c, is3) \in Controller
BY DEF Controller, NoteAlarm, StopType

LEMMA NoteResetBannerType ==
  ASSUME NEW c \in Controller, NEW recent
  PROVE  NoteResetBanner(c, recent) \in Controller
<1>1. [c EXCEPT !.stop.banner = TRUE] \in Controller
  BY DEF Controller, StopType
<1> QED
  BY <1>1 DEF NoteResetBanner

-----------------------------------------------------------------------------
(* Emergency stop and status reports. *)

LEMMA EnterEStopType ==
  ASSUME NEW c \in Controller
  PROVE  EnterEStop(c) \in Controller
<1> DEFINE e(st, rd) == [c EXCEPT !.run = NoRun, !.stop = NoStop, !.owner = NoOwner,
                                  !.status = st, !.ready = rd,
                                  !.machine = "", !.estop = "active"]
<1>1. ASSUME NEW st \in ProgramStatus, NEW rd \in Readiness
      PROVE  e(st, rd) \in Controller
  BY ZeroType DEF Controller, MachineState, Readiness
<1>2. \/ EnterEStop(c) = e("failed", "recovery")
      \/ EnterEStop(c) = e("failed", c.ready)
      \/ EnterEStop(c) = e(c.status, "recovery")
      \/ EnterEStop(c) = e(c.status, c.ready)
  BY DEF EnterEStop, Controller
<1>3. c.status \in ProgramStatus /\ c.ready \in Readiness
  BY DEF Controller, Readiness
<1>4. "failed" \in ProgramStatus /\ "recovery" \in Readiness
  BY DEF ProgramStatus, Readiness
<1> HIDE DEF e
<1>5. /\ e("failed", "recovery") \in Controller
      /\ e("failed", c.ready) \in Controller
      /\ e(c.status, "recovery") \in Controller
      /\ e(c.status, c.ready) \in Controller
  BY <1>1, <1>3, <1>4
<1> QED
  BY <1>2, <1>5

LEMMA NoteStatusReportType ==
  ASSUME NEW c \in Controller, NEW state \in MachineState
  PROVE  NoteStatusReport(c, state) \in Controller
<1> DEFINE d == IF state = "Alarm" THEN NoteAlarm(c, FALSE) ELSE c
           e == [d EXCEPT !.machine = state]
<1>1. d \in Controller
  BY NoteAlarmType
<1>2. e \in Controller
  <2> HIDE DEF d
  <2> QED BY <1>1 DEF Controller
<1> HIDE DEF e
<1>3. NoteStatusResponse(e, state) \in Controller
  BY <1>2 DEF Controller, NoteStatusResponse
<1> QED
  BY <1>3 DEF NoteStatusReport, e

-----------------------------------------------------------------------------
(* Connection. *)

LEMMA BeginConnectAttemptType ==
  ASSUME NEW c \in Controller
  PROVE  BeginConnectAttempt(c) \in Controller
BY NumberType DEF Controller, BeginConnectAttempt

LEMMA FinishConnectAttemptType ==
  ASSUME NEW c \in Controller
  PROVE  FinishConnectAttempt(c) \in Controller
BY NumberType DEF Controller, FinishConnectAttempt

LEMMA NoteOpenedType ==
  ASSUME NEW c \in Controller, NEW g \in 0..MaxGen
  PROVE  NoteOpened(c, g) \in Controller
BY DEF Controller, NoteOpened

LEMMA CommitConnectionType ==
  ASSUME NEW c \in Controller, NEW g \in 0..MaxGen
  PROVE  CommitConnection(c, g) \in Controller
<1> DEFINE d == FinishConnectAttempt(c)
           e(rd) == [d EXCEPT !.conn = "connected", !.estop = "clear", !.gen = g,
                              !.polling = g, !.alarmed = FALSE, !.ready = rd]
<1>1. d \in Controller
  BY FinishConnectAttemptType
<1> HIDE DEF d
<1>2. ASSUME NEW rd \in Readiness
      PROVE  e(rd) \in Controller
  BY ZenonT(60), <1>1 DEF Controller, Readiness
<1>3. \/ CommitConnection(c, g) = e("verifying")
      \/ CommitConnection(c, g) = e(d.ready)
  BY <1>1 DEF CommitConnection, Controller, d
<1>4. d.ready \in Readiness
  BY <1>1 DEF Controller, Readiness
<1> QED
  BY <1>2, <1>3, <1>4 DEF Readiness

LEMMA AbandonConnectAttemptType ==
  ASSUME NEW c \in Controller
  PROVE  AbandonConnectAttempt(c) \in Controller
<1>1. ASSUME NEW d \in Controller
      PROVE  [d EXCEPT !.conn = IF @ = "connecting" THEN "disconnected" ELSE @]
               \in Controller
  BY DEF Controller
<1> QED
  BY <1>1, FinishConnectAttemptType DEF AbandonConnectAttempt

LEMMA NoteAttemptDisconnectedType ==
  ASSUME NEW c \in Controller, NEW g \in Generation
  PROVE  NoteAttemptDisconnected(c, g) \in Controller
BY DEF Controller, NoteAttemptDisconnected

LEMMA StopStatusPollingType ==
  ASSUME NEW c \in Controller
  PROVE  StopStatusPolling(c) \in Controller
BY BoundsAssumption DEF Controller, StopStatusPolling

LEMMA ClearConnectionStateType ==
  ASSUME NEW c \in Controller
  PROVE  ClearConnectionState(c) \in Controller
<1> DEFINE x == IF c.ready \in {"stopping", "verifying"} THEN "recovery" ELSE c.ready
<1>1. x \in Readiness
  BY DEF Controller, Readiness
<1>2. ClearConnectionState(c) =
        [c EXCEPT !.conn = "disconnected", !.estop = "clear", !.gen = 0,
                  !.polling = 0, !.machine = "", !.ready = x]
  BY DEF Controller, ClearConnectionState
<1> HIDE DEF x
<1> QED
  BY ZenonT(60), <1>1, <1>2, NumberType DEF Controller, MachineState, Readiness

LEMMA BeginDisconnectType ==
  ASSUME NEW c \in Controller
  PROVE  BeginDisconnect(c) \in Controller
<1> DEFINE d == IF c.run.id # 0 THEN [FailRun(c) EXCEPT !.ready = "recovery"] ELSE c
<1>1. d \in Controller
  BY FailRunType, ReadyType DEF Readiness
<1>2. ASSUME NEW e \in Controller
      PROVE  [e EXCEPT !.transition = "disconnecting", !.stop = NoStop,
                       !.owner = NoOwner, !.suppress = c.gen] \in Controller
  BY ZeroType DEF Controller
<1> HIDE DEF d
<1>3. [d EXCEPT !.transition = "disconnecting", !.stop = NoStop,
                !.owner = NoOwner, !.suppress = c.gen] \in Controller
  BY <1>1, <1>2
<1> QED
  BY <1>3 DEF BeginDisconnect, d

LEMMA DisconnectFailedType ==
  ASSUME NEW c \in Controller
  PROVE  DisconnectFailed(c) \in Controller
BY NumberType DEF Controller, DisconnectFailed

LEMMA HandleTransportDisconnectedType ==
  ASSUME NEW c \in Controller
  PROVE  HandleTransportDisconnected(c) \in Controller
<1> DEFINE d == IF c.run.id # 0 THEN [FailRun(c) EXCEPT !.ready = "recovery"] ELSE c
<1>1. d \in Controller
  BY FailRunType, ReadyType DEF Readiness
<1>2. ASSUME NEW e \in Controller
      PROVE  [e EXCEPT !.owner = NoOwner, !.stop = NoStop] \in Controller
  BY ZeroType DEF Controller
<1> HIDE DEF d
<1>3. ClearConnectionState([d EXCEPT !.owner = NoOwner, !.stop = NoStop]) \in Controller
  BY <1>1, <1>2, ClearConnectionStateType
<1> QED
  BY <1>3 DEF HandleTransportDisconnected, d

-----------------------------------------------------------------------------
(* The goroutines. *)

\* The parts of TypeOK, by what disturbs them.
PcOK == DOMAIN pc = Procs /\ \A p \in Procs : pc[p] \in Labels[p[1]]

RunsOK ==
  /\ aim \in [1..MaxClients -> 0..MaxRuns]
  /\ chan \in [RunID -> Seq({"ok", "fail"})]
  /\ \A r \in RunID : Len(chan[r]) <= MaxBacklog
  /\ job \in [RunID -> [left : 0..Lines, gen : 0..MaxGen]]

HeldOK ==
  /\ closer \in [write : Writers \cup {Nobody}, forced : BOOLEAN]
  /\ bridge \in 0..MaxRuns \cup 0..MaxGen
  /\ fresh \subseteq Awaiters

LinkOK ==
  /\ stalled \in [Writers -> WriteType]
  /\ port \in {0, opened} /\ opened \in 0..MaxGen
  /\ rx \in Seq(RxEvent) /\ Len(rx) <= MaxRx
  /\ dev \in DeviceType
  /\ faults \in 0..MaxFaults

\* What TypeOK needs to be inductive: a runner at a line has one left to send,
\* and the connector opens at most MaxGen generations.
Sending == {"gate", "admit", "blocked", "write", "await"}
Opened  == {"opened", "validate", "commit", "close", "closing"}

Bounded ==
  /\ pc[Connector] = "open" => opened < MaxGen
  /\ pc[Connector] \in Opened => opened # 0
  /\ \A r \in RunID : pc[Runner(r)] \in Sending => job[r].left > 0

TypeInv == /\ ctl \in Controller
           /\ PcOK /\ RunsOK /\ HeldOK /\ LinkOK /\ Bounded

LEMMA TypeInvParts == TypeInv <=> TypeOK /\ Bounded
BY DEF TypeInv, TypeOK, PcOK, RunsOK, HeldOK, LinkOK

-----------------------------------------------------------------------------
(* Processes and their labels. *)

LEMMA Identities ==
  /\ Connector \in Procs /\ Closer \in Procs /\ Bridge \in Procs
  /\ \A r \in RunID : Runner(r) \in Writers /\ Stopper(r) \in Writers
  /\ \A g \in Generation : Poller(g) \in Writers /\ Verifier(g) \in Writers
  /\ \A i \in 1..MaxClients : Client(i) \in Writers /\ Client(i) \in ClientSet
  /\ \A r \in RunID : Runner(r) \in Procs /\ Stopper(r) \in Procs
  /\ \A g \in Generation : Poller(g) \in Procs /\ Verifier(g) \in Procs
  /\ \A i \in 1..MaxClients : Client(i) \in Procs
BY DEF Procs, Writers, Runners, Stoppers, Pollers, Verifiers, ClientSet

LEMMA Kinds ==
  /\ Connector[1] = "connector" /\ Closer[1] = "closer" /\ Bridge[1] = "bridge"
  /\ \A r \in RunID : Runner(r)[1] = "runner" /\ Stopper(r)[1] = "stopper"
  /\ \A g \in Generation : Poller(g)[1] = "poller" /\ Verifier(g)[1] = "verifier"
  /\ \A i \in 1..MaxClients : Client(i)[1] = "client"
BY DEF Connector, Closer, Bridge, Runner, Stopper, Poller, Verifier, Client

LEMMA Numbers ==
  /\ \A r, q \in RunID : Runner(r) = Runner(q) => r = q
  /\ \A g, h \in Generation : Verifier(g) = Verifier(h) => g = h
BY DEF Runner, Verifier

LEMMA GotoHere ==
  ASSUME PcOK, NEW p \in Procs, NEW l, Goto(p, l)
  PROVE  pc'[p] = l
BY DEF PcOK, Goto

LEMMA GotoElsewhere ==
  ASSUME PcOK, NEW p \in Procs, NEW l, Goto(p, l), NEW q \in Procs, q # p
  PROVE  pc'[q] = pc[q]
BY DEF PcOK, Goto

LEMMA GotoType ==
  ASSUME PcOK, NEW p \in Procs, NEW l \in Labels[p[1]], Goto(p, l)
  PROVE  PcOK'
BY DEF PcOK, Goto

LEMMA RunnerGoto ==
  ASSUME PcOK, NEW r \in RunID, NEW l \in Labels.runner, Goto(Runner(r), l)
  PROVE  PcOK'
BY GotoType, Identities, Kinds

LEMMA StopperGoto ==
  ASSUME PcOK, NEW r \in RunID, NEW l \in Labels.stopper, Goto(Stopper(r), l)
  PROVE  PcOK'
BY GotoType, Identities, Kinds

LEMMA ClientGoto ==
  ASSUME PcOK, NEW i \in 1..MaxClients, NEW l \in Labels.client, Goto(Client(i), l)
  PROVE  PcOK'
BY GotoType, Identities, Kinds

LEMMA PollerGoto ==
  ASSUME PcOK, NEW g \in Generation, NEW l \in Labels.poller, Goto(Poller(g), l)
  PROVE  PcOK'
BY GotoType, Identities, Kinds

LEMMA VerifierGoto ==
  ASSUME PcOK, NEW g \in Generation, NEW l \in Labels.verifier, Goto(Verifier(g), l)
  PROVE  PcOK'
BY GotoType, Identities, Kinds

LEMMA ConnectorGoto ==
  ASSUME PcOK, NEW l \in Labels.connector, Goto(Connector, l)
  PROVE  PcOK'
BY GotoType, Identities, Kinds

LEMMA CloserGoto ==
  ASSUME PcOK, NEW l \in Labels.closer, Goto(Closer, l)
  PROVE  PcOK'
BY GotoType, Identities, Kinds

LEMMA BridgeGoto ==
  ASSUME PcOK, NEW l \in Labels.bridge, Goto(Bridge, l)
  PROVE  PcOK'
BY GotoType, Identities, Kinds

\* Bounded concerns the connector and the runners; nobody else disturbs it.
LEMMA OthersBounded ==
  ASSUME PcOK, Bounded, NEW p \in Procs, p[1] \notin {"runner", "connector"},
         NEW l, Goto(p, l), UNCHANGED <<job, opened>>
  PROVE  Bounded'
<1>1. pc'[Connector] = pc[Connector]
  BY GotoElsewhere, Identities, Kinds
<1>2. \A r \in RunID : pc'[Runner(r)] = pc[Runner(r)]
  BY GotoElsewhere, Identities, Kinds
<1> QED
  BY <1>1, <1>2 DEF Bounded

LEMMA RunnerBounded ==
  ASSUME PcOK, Bounded, NEW r \in RunID, NEW l, Goto(Runner(r), l),
         l \in Sending => pc[Runner(r)] \in Sending, UNCHANGED <<job, opened>>
  PROVE  Bounded'
<1>1. pc'[Connector] = pc[Connector]
  BY GotoElsewhere, Identities, Kinds
<1>2. ASSUME NEW q \in RunID, pc'[Runner(q)] \in Sending
      PROVE  job[q].left > 0
  <2>1. CASE q = r
    BY <1>2, <2>1, GotoHere, Identities DEF Bounded
  <2>2. CASE q # r
    BY <1>2, <2>2, GotoElsewhere, Identities, Numbers DEF Bounded
  <2> QED
    BY <2>1, <2>2
<1> QED
  BY <1>1, <1>2 DEF Bounded

LEMMA ConnectorBounded ==
  ASSUME PcOK, Bounded, NEW l, Goto(Connector, l),
         l \in {"open"} => opened' < MaxGen, l \in Opened => opened' # 0,
         UNCHANGED job
  PROVE  Bounded'
<1>1. pc'[Connector] = l
  BY GotoHere, Identities
<1>2. \A r \in RunID : pc'[Runner(r)] = pc[Runner(r)]
  BY GotoElsewhere, Identities, Kinds
<1> QED
  BY <1>1, <1>2 DEF Bounded

-----------------------------------------------------------------------------
(* The transport and the machine. *)

LEMMA ReactionsType ==
  ASSUME NEW d \in DeviceType, NEW msg \in Messages, NEW x \in Reactions(d, msg)
  PROVE  x.dev \in DeviceType /\ x.says \in Seq(RxKind)
<1> DEFINE Answers(e, k) == x.dev = e /\ x.says = k
<1>1. AtRest \in DeviceType
  BY DEF AtRest, DeviceType
<1>2. CASE msg = "line"
  <2>1. Answers([d EXCEPT !.lines = @ + 1], <<>>)
    BY <1>2 DEF Reactions
  <2>2. [d EXCEPT !.lines = @ + 1] \in DeviceType
    BY DEF DeviceType
  <2> QED
    BY <2>1, <2>2
<1>3. CASE msg = "hold"
  <2>1. Answers([d EXCEPT !.held = ~d.alarm], <<>>)
    BY <1>3 DEF Reactions
  <2>2. [d EXCEPT !.held = ~d.alarm] \in DeviceType
    BY DEF DeviceType
  <2> QED
    BY <2>1, <2>2
<1>4. CASE msg = "resume"
  <2>1. Answers([d EXCEPT !.held = FALSE], <<>>)
    BY <1>4 DEF Reactions
  <2>2. [d EXCEPT !.held = FALSE] \in DeviceType
    BY DEF DeviceType
  <2> QED
    BY <2>1, <2>2
<1>5. CASE msg = "poll"
  <2>1. Answers(d, <<StatusOf(d)>>)
    BY <1>5 DEF Reactions
  <2>2. StatusOf(d) \in RxKind
    BY DEF StatusOf, RxKind
  <2> QED
    BY <2>1, <2>2
<1>6. CASE msg = "reset"
  <2>1. "banner" \in RxKind /\ "alarm3" \in RxKind
    BY DEF RxKind
  <2>2. CASE x = [dev |-> AtRest, says |-> <<"banner">>]
    BY <1>1, <2>1, <2>2
  <2>3. CASE \E locked \in BOOLEAN : x = [dev  |-> [AtRest EXCEPT !.alarm = locked],
                                          says |-> <<"alarm3", "banner">>]
    <3>1. PICK locked \in BOOLEAN : Answers([AtRest EXCEPT !.alarm = locked],
                                            <<"alarm3", "banner">>)
      BY <2>3
    <3>2. [AtRest EXCEPT !.alarm = locked] \in DeviceType
      BY <1>1 DEF DeviceType
    <3> QED
      BY <2>1, <3>1, <3>2
  <2> QED
    BY <1>6, <2>2, <2>3 DEF Reactions
<1> QED
  BY <1>2, <1>3, <1>4, <1>5, <1>6 DEF Messages

LEMMA HeardType ==
  ASSUME NEW kinds \in Seq(RxKind), NEW g \in Generation
  PROVE  Heard(kinds, g) \in Seq(RxEvent) /\ Len(Heard(kinds, g)) = Len(kinds)
<1>1. \A i \in 1..Len(kinds) : [kind |-> kinds[i], gen |-> g, new |-> TRUE] \in RxEvent
  BY DEF RxEvent
<1> QED
  BY <1>1 DEF Heard

LEMMA SaysType ==
  ASSUME LinkOK, NEW kinds \in Seq(RxKind), Says(kinds)
  PROVE  rx' \in Seq(RxEvent) /\ Len(rx') <= MaxRx
<1>1. CASE port = 0
  BY <1>1 DEF Says, LinkOK
<1>2. CASE port # 0
  <2>1. port \in Generation
    BY <1>2, BoundsAssumption DEF LinkOK, Generation
  <2>2. Heard(kinds, port) \in Seq(RxEvent) /\ Len(Heard(kinds, port)) = Len(kinds)
    BY <2>1, HeardType
  <2>3. rx' = rx \o Heard(kinds, port) /\ Len(rx) + Len(kinds) <= MaxRx
    BY <1>2 DEF Says
  <2>4. rx \in Seq(RxEvent)
    BY DEF LinkOK
  <2> DEFINE h == Heard(kinds, port)
  <2>5. rx \o h \in Seq(RxEvent) /\ Len(rx \o h) = Len(rx) + Len(h)
    <3> HIDE DEF h
    <3>1. h \in Seq(RxEvent)
      BY <2>2 DEF h
    <3> QED
      BY <2>4, <3>1
  <2> QED
    BY <2>2, <2>3, <2>5
<1> QED
  BY <1>1, <1>2

LEMMA DeliveredType ==
  ASSUME LinkOK, NEW p \in Writers, NEW msg \in Messages, Delivered(p, msg)
  PROVE  LinkOK' /\ UNCHANGED opened
<1>1. PICK x \in Reactions(dev, msg) : dev' = x.dev /\ Says(x.says)
  BY DEF Delivered
<1>2. dev' \in DeviceType /\ x.says \in Seq(RxKind)
  BY <1>1, ReactionsType DEF LinkOK
<1>3. rx' \in Seq(RxEvent) /\ Len(rx') <= MaxRx
  BY <1>1, <1>2, SaysType
<1>4. stalled' \in [Writers -> WriteType] /\ UNCHANGED <<port, opened, faults>>
  BY BoundsAssumption DEF Delivered, LinkOK, WriteType, NoWrite
<1> QED
  BY <1>2, <1>3, <1>4 DEF LinkOK

LEMMA FaultType ==
  ASSUME faults \in 0..MaxFaults, UNCHANGED faults \/ Fault
  PROVE  faults' \in 0..MaxFaults
BY LinkAssumption DEF Fault

LEMMA WriteFailsType ==
  ASSUME LinkOK, NEW p \in Writers, NEW msg, WriteFails(p, msg)
  PROVE  LinkOK' /\ UNCHANGED opened
<1>1. stalled' \in [Writers -> WriteType] /\ UNCHANGED <<port, opened, rx, dev>>
  BY BoundsAssumption DEF WriteFails, LinkOK, WriteType, NoWrite
<1>2. faults' \in 0..MaxFaults
  BY FaultType DEF WriteFails, LinkOK
<1> QED
  BY <1>1, <1>2 DEF LinkOK

LEMMA MachineType ==
  ASSUME TypeInv, Machine
  PROVE  TypeInv'
<1> USE DEF TypeInv
<1>1. UNCHANGED <<ctl, pc, runVars, closer, bridge, stalled, fresh, port, opened>>
  BY DEF Machine
<1>2. LinkOK'
  <2>1. CASE MachineAccepts
    <3>1. <<"ok">> \in Seq(RxKind)
      BY DEF RxKind
    <3>2. rx' \in Seq(RxEvent) /\ Len(rx') <= MaxRx
      BY <2>1, <3>1, SaysType DEF MachineAccepts
    <3>3. dev.lines - 1 \in Nat
      BY <2>1 DEF MachineAccepts, LinkOK, DeviceType
    <3>4. dev' \in DeviceType /\ UNCHANGED faults
      BY <2>1, <3>3 DEF MachineAccepts, LinkOK, DeviceType
    <3> QED
      BY <1>1, <3>2, <3>4 DEF LinkOK
  <2>2. CASE MachineRejects
    <3>1. <<"error">> \in Seq(RxKind)
      BY DEF RxKind
    <3>2. rx' \in Seq(RxEvent) /\ Len(rx') <= MaxRx
      BY <2>2, <3>1, SaysType DEF MachineRejects
    <3>3. faults' \in 0..MaxFaults
      BY <2>2, FaultType DEF MachineRejects, LinkOK
    <3> QED
      BY <1>1, <2>2, <3>2, <3>3 DEF MachineRejects, LinkOK, DeviceType
  <2>3. CASE MachineFinishes
    BY <1>1, <2>3 DEF MachineFinishes, LinkOK, DeviceType
  <2>4. CASE MachineUpset
    <3>1. \A kind \in {"alarm", "alarm50", "banner"} : <<kind>> \in Seq(RxKind)
      BY DEF RxKind
    <3>2. faults' \in 0..MaxFaults
      BY <2>4, FaultType DEF MachineUpset, LinkOK
    <3>3. rx' \in Seq(RxEvent) /\ Len(rx') <= MaxRx
      BY <2>4, <3>1, SaysType DEF MachineUpset
    <3>4. AtRest \in DeviceType /\ [AtRest EXCEPT !.alarm = TRUE, !.lines = dev.lines] \in DeviceType
      BY DEF LinkOK, DeviceType, AtRest
    <3> QED
      BY <1>1, <2>4, <3>2, <3>3, <3>4 DEF MachineUpset, LinkOK
  <2> QED
    BY <2>1, <2>2, <2>3, <2>4 DEF Machine
<1> QED
  BY <1>1, <1>2 DEF runVars, PcOK, RunsOK, HeldOK, Bounded

LEMMA WriteStallsType ==
  ASSUME TypeInv, NEW p \in Writers, WriteStalls(p)
  PROVE  TypeInv'
<1> USE DEF TypeInv
<1>1. WritingPC[pc[p]] \in Messages
  BY LinkAssumption DEF WriteStalls
<1>2. faults' \in 0..MaxFaults
  BY FaultType DEF WriteStalls, LinkOK
<1>3. port \in Generation
  BY BoundsAssumption DEF WriteStalls, LinkOK, Generation
<1>4. LinkOK'
  BY <1>1, <1>2, <1>3 DEF WriteStalls, LinkOK, WriteType
<1> QED
  BY <1>4 DEF WriteStalls, runVars, PcOK, RunsOK, HeldOK, Bounded

LEMMA DisconnectEventType ==
  ASSUME LinkOK, port # 0
  PROVE  [kind |-> "disconnected", gen |-> port, new |-> TRUE] \in RxEvent
BY BoundsAssumption DEF LinkOK, RxEvent, RxKind, Generation

LEMMA PortDropsType ==
  ASSUME TypeInv, PortDrops
  PROVE  TypeInv'
<1> USE DEF TypeInv
<1>1. faults' \in 0..MaxFaults
  BY FaultType DEF PortDrops, LinkOK
<1>2. LinkOK'
  BY <1>1, DisconnectEventType, LinkAssumption DEF PortDrops, LinkOK
<1> QED
  BY <1>2 DEF PortDrops, runVars, PcOK, RunsOK, HeldOK, Bounded

-----------------------------------------------------------------------------
(* A goroutine moves: what is left to show of TypeInv is DataOK. *)

DataOK == ctl \in Controller /\ RunsOK /\ HeldOK /\ LinkOK

LEMMA DataFrame ==
  ASSUME DataOK, ctl' \in Controller,
         UNCHANGED <<runVars, closer, bridge, fresh, linkVars>>
  PROVE  DataOK' /\ UNCHANGED <<job, opened>>
BY DEF DataOK, RunsOK, HeldOK, LinkOK, runVars, linkVars

LEMMA RunnerTo ==
  ASSUME TypeInv, DataOK', UNCHANGED <<job, opened>>,
         NEW r \in RunID, NEW l \in Labels.runner, Goto(Runner(r), l),
         l \in Sending => pc[Runner(r)] \in Sending
  PROVE  TypeInv'
BY RunnerGoto, RunnerBounded DEF TypeInv, DataOK

LEMMA StopperTo ==
  ASSUME TypeInv, DataOK', UNCHANGED <<job, opened>>,
         NEW r \in RunID, NEW l \in Labels.stopper, Goto(Stopper(r), l)
  PROVE  TypeInv'
<1>1. Bounded'
  BY OthersBounded, Identities, Kinds DEF TypeInv
<1> QED
  BY <1>1, StopperGoto DEF TypeInv, DataOK

LEMMA ClientTo ==
  ASSUME TypeInv, DataOK', UNCHANGED <<job, opened>>,
         NEW i \in 1..MaxClients, NEW l \in Labels.client, Goto(Client(i), l)
  PROVE  TypeInv'
<1>1. Bounded'
  BY OthersBounded, Identities, Kinds DEF TypeInv
<1> QED
  BY <1>1, ClientGoto DEF TypeInv, DataOK

LEMMA PollerTo ==
  ASSUME TypeInv, DataOK', UNCHANGED <<job, opened>>,
         NEW g \in Generation, NEW l \in Labels.poller, Goto(Poller(g), l)
  PROVE  TypeInv'
<1>1. Bounded'
  BY OthersBounded, Identities, Kinds DEF TypeInv
<1> QED
  BY <1>1, PollerGoto DEF TypeInv, DataOK

LEMMA VerifierTo ==
  ASSUME TypeInv, DataOK', UNCHANGED <<job, opened>>,
         NEW g \in Generation, NEW l \in Labels.verifier, Goto(Verifier(g), l)
  PROVE  TypeInv'
<1>1. Bounded'
  BY OthersBounded, Identities, Kinds DEF TypeInv
<1> QED
  BY <1>1, VerifierGoto DEF TypeInv, DataOK

LEMMA CloserTo ==
  ASSUME TypeInv, DataOK', UNCHANGED <<job, opened>>,
         NEW l \in Labels.closer, Goto(Closer, l)
  PROVE  TypeInv'
<1>1. Bounded'
  BY OthersBounded, Identities, Kinds DEF TypeInv
<1> QED
  BY <1>1, CloserGoto DEF TypeInv, DataOK

LEMMA BridgeTo ==
  ASSUME TypeInv, DataOK', UNCHANGED <<job, opened>>,
         NEW l \in Labels.bridge, Goto(Bridge, l)
  PROVE  TypeInv'
<1>1. Bounded'
  BY OthersBounded, Identities, Kinds DEF TypeInv
<1> QED
  BY <1>1, BridgeGoto DEF TypeInv, DataOK

LEMMA ConnectorTo ==
  ASSUME TypeInv, DataOK', UNCHANGED job,
         NEW l \in Labels.connector, Goto(Connector, l),
         l \in {"open"} => opened' < MaxGen, l \in Opened => opened' # 0
  PROVE  TypeInv'
BY ConnectorGoto, ConnectorBounded DEF TypeInv, DataOK

\* A step that moves nobody.
LEMMA Nowhere ==
  ASSUME TypeInv, DataOK', UNCHANGED <<pc, job, opened>>
  PROVE  TypeInv'
BY DEF TypeInv, DataOK, PcOK, Bounded

LEMMA TypeInvData == TypeInv => DataOK
BY DEF TypeInv, DataOK

-----------------------------------------------------------------------------
(* The fresh status poll, whichever goroutine asks. *)

LEMMA PollAdmittedType ==
  ASSUME DataOK, NEW p \in Writers, PollAdmitted(p)
  PROVE  DataOK' /\ UNCHANGED <<job, opened>>
<1>1. ctl' \in Controller
  BY ReserveType DEF PollAdmitted, DataOK
<1> QED
  BY <1>1, DataFrame DEF PollAdmitted

LEMMA PollWrittenType ==
  ASSUME DataOK, NEW p \in Writers, PollWritten(p) \/ \E l : PollWriteFails(p, l)
  PROVE  DataOK' /\ UNCHANGED <<job, opened>>
<1>1. ctl' \in Controller
  BY EndRealtimeWriteType DEF PollWritten, PollWriteFails, DataOK
<1>2. LinkOK' /\ UNCHANGED opened
  BY DeliveredType, WriteFailsType DEF PollWritten, PollWriteFails, DataOK, Messages
<1> QED
  BY <1>1, <1>2 DEF PollWritten, PollWriteFails, DataOK, RunsOK, HeldOK, runVars

-----------------------------------------------------------------------------
(* The program's goroutines keep to their types. *)

LEMMA StartProgramType ==
  ASSUME TypeInv, NEW r \in RunID, StartProgram(r)
  PROVE  TypeInv'
<1> USE DEF TypeInv
<1>1. Lines \in Nat /\ ctl.gen \in 0..MaxGen
  BY LinkAssumption DEF Controller
<1>2. ctl' \in Controller
  BY StartRunType DEF StartProgram
<1>3. DataOK'
  BY <1>1, <1>2 DEF StartProgram, DataOK, RunsOK, HeldOK, LinkOK, linkVars
<1>4. PcOK'
  BY RunnerGoto DEF StartProgram, Labels
<1>5. pc'[Connector] = pc[Connector]
  BY GotoElsewhere, Identities, Kinds DEF StartProgram
<1>6. ASSUME NEW q \in RunID, pc'[Runner(q)] \in Sending
      PROVE  job'[q].left > 0
  <2>1. CASE q = r
    <3>1. pc'[Runner(r)] = IF Lines > 0 THEN "gate" ELSE "drain"
      BY GotoHere, Identities DEF StartProgram
    <3>2. job'[r].left = Lines
      BY DEF StartProgram, RunsOK
    <3> QED
      BY <1>1, <1>6, <2>1, <3>1, <3>2 DEF Sending
  <2>2. CASE q # r
    <3>1. pc'[Runner(q)] = pc[Runner(q)]
      BY <2>2, GotoElsewhere, Identities, Numbers DEF StartProgram
    <3>2. job'[q] = job[q]
      BY <2>2 DEF StartProgram, RunsOK
    <3> QED
      BY <1>6, <3>1, <3>2 DEF Bounded
  <2> QED
    BY <2>1, <2>2
<1> QED
  BY <1>3, <1>4, <1>5, <1>6 DEF DataOK, Bounded, StartProgram, linkVars

LEMMA RunnerResponseType ==
  ASSUME TypeInv, NEW r \in RunID, RunnerResponse(r)
  PROVE  TypeInv'
<1> USE DEF TypeInv
<1>1. job[r].left \in 1..Lines /\ Tail(chan[r]) \in Seq({"ok", "fail"})
      /\ Len(Tail(chan[r])) <= MaxBacklog
  BY LinkAssumption DEF RunnerResponse, RunsOK, Bounded, Sending
<1>2. CASE Head(chan[r]) = "ok"
  <2>1. job' = [job EXCEPT ![r].left = @ - 1]
    BY <1>2 DEF RunnerResponse
  <2>2. Goto(Runner(r), AfterLine(job[r].left))
    BY <1>2 DEF RunnerResponse
  <2>3. job[r].left - 1 \in 0..Lines
    BY <1>1, LinkAssumption
  <2>4. job' \in [RunID -> [left : 0..Lines, gen : 0..MaxGen]]
    BY <2>1, <2>3 DEF RunsOK
  <2>5. DataOK'
    BY <1>1, <2>4 DEF RunnerResponse, DataOK, RunsOK, HeldOK, LinkOK, linkVars
  <2>6. PcOK'
    BY <2>2, RunnerGoto DEF AfterLine, Labels
  <2>7. pc'[Connector] = pc[Connector]
    BY <2>2, GotoElsewhere, Identities, Kinds
  <2>8. ASSUME NEW q \in RunID, pc'[Runner(q)] \in Sending
        PROVE  job'[q].left > 0
    <3>1. CASE q = r
      <4>1. pc'[Runner(r)] = AfterLine(job[r].left)
        BY <2>2, GotoHere, Identities
      <4>2. job[r].left > 1
        BY <2>8, <3>1, <4>1 DEF AfterLine, Sending
      <4>3. job'[r].left = job[r].left - 1
        BY <2>1 DEF RunsOK
      <4> QED
        BY <1>1, <3>1, <4>2, <4>3
    <3>2. CASE q # r
      <4>1. pc'[Runner(q)] = pc[Runner(q)]
        BY <2>2, <3>2, GotoElsewhere, Identities, Numbers
      <4>2. job'[q] = job[q]
        BY <2>1, <3>2 DEF RunsOK
      <4> QED
        BY <2>8, <4>1, <4>2 DEF Bounded
    <3> QED
      BY <3>1, <3>2
  <2> QED
    BY <2>5, <2>6, <2>7, <2>8 DEF DataOK, Bounded, RunnerResponse, linkVars
<1>3. CASE Head(chan[r]) # "ok"
  <2>1. Goto(Runner(r), "fail") /\ UNCHANGED <<job, opened>>
    BY <1>3 DEF RunnerResponse, linkVars
  <2>2. DataOK'
    BY <1>1, <1>3 DEF RunnerResponse, DataOK, RunsOK, HeldOK, LinkOK, linkVars
  <2> QED
    BY <2>1, <2>2, RunnerTo DEF Labels, Sending
<1> QED
  BY <1>2, <1>3

LEMMA RunnerStepType ==
  ASSUME TypeInv, NEW r \in RunID, RunnerStep(r)
  PROVE  TypeInv'
<1> DataOK
  BY TypeInvData
<1> USE RunnerTo, DataFrame DEF Labels, Sending
<1>1. CASE RunnerGate(r)
  BY <1>1 DEF RunnerGate, DataOK
<1>2. CASE RunnerAdmit(r)
  <2>1. ASSUME NEW c \in Controller
        PROVE  [c EXCEPT !.run.work = TRUE] \in Controller
    BY DEF Controller, RunType
  <2>2. ctl' \in Controller
    BY <1>2, <2>1, ReserveType, Identities DEF RunnerAdmit, DataOK
  <2> QED
    BY <1>2, <2>2 DEF RunnerAdmit
<1>3. CASE RunnerUnblocked(r)
  BY <1>3 DEF RunnerUnblocked, DataOK
<1>4. CASE LineWritten(r) \/ LineWriteFails(r)
  <2>1. ctl' \in Controller
    BY <1>4, EndRealtimeWriteType DEF LineWritten, LineWriteFails, DataOK
  <2>2. LinkOK' /\ UNCHANGED opened
    BY <1>4, DeliveredType, WriteFailsType, Identities
       DEF LineWritten, LineWriteFails, DataOK, Messages
  <2>3. DataOK' /\ UNCHANGED <<job, opened>>
    BY <1>4, <2>1, <2>2
       DEF LineWritten, LineWriteFails, DataOK, RunsOK, HeldOK, runVars
  <2> QED
    BY <1>4, <2>3 DEF LineWritten, LineWriteFails
<1>5. CASE RunnerResponse(r)
  BY <1>5, RunnerResponseType
<1>6. CASE RunnerCancelled(r)
  BY <1>6 DEF RunnerCancelled, DataOK
<1>7. CASE BeginProgramDraining(r)
  <2>1. ASSUME NEW c \in Controller, NEW st \in ProgramStatus
        PROVE  [c EXCEPT !.run.draining = TRUE, !.status = st] \in Controller
    BY DEF Controller, RunType
  <2>2. ctl.status \in ProgramStatus /\ "draining" \in ProgramStatus
    BY DEF DataOK, Controller, ProgramStatus
  <2>3. \/ UNCHANGED ctl
        \/ ctl' = [ctl EXCEPT !.run.draining = TRUE, !.status = ctl.status]
        \/ ctl' = [ctl EXCEPT !.run.draining = TRUE, !.status = "draining"]
    BY <1>7 DEF BeginProgramDraining, DataOK, Controller
  <2>4. ctl' \in Controller
    BY <2>1, <2>2, <2>3 DEF DataOK
  <2> QED
    BY <1>7, <2>4 DEF BeginProgramDraining
<1>8. CASE DrainGate(r)
  BY <1>8 DEF DrainGate, DataOK
<1>9. CASE DrainBaseline(r)
  <2>1. ASSUME NEW c \in Controller
        PROVE  [c EXCEPT !.run.inSync = TRUE] \in Controller
    BY DEF Controller, RunType
  <2>2. ctl' \in Controller
    BY <1>9, <2>1 DEF DrainBaseline, DataOK
  <2>3. DataOK' /\ UNCHANGED <<job, opened>>
    BY <1>9, <2>2 DEF DrainBaseline, DataOK, RunsOK, HeldOK, LinkOK, runVars,
                      linkVars, TakeBaseline
  <2> QED
    BY <1>9, <2>3 DEF DrainBaseline
<1>10. CASE DrainPoll(r)
  <2>1. CASE PollAdmitted(Runner(r))
    <3>1. DataOK' /\ UNCHANGED <<job, opened>>
      BY <2>1, PollAdmittedType, Identities
    <3> QED
      BY <2>1, <3>1 DEF PollAdmitted
  <2>2. CASE PollWritten(Runner(r))
    <3>1. DataOK' /\ UNCHANGED <<job, opened>>
      BY <2>2, PollWrittenType, Identities
    <3> QED
      BY <2>2, <3>1 DEF PollWritten
  <2>3. CASE PollWriteFails(Runner(r), "fail")
    <3>1. DataOK' /\ UNCHANGED <<job, opened>>
      BY <2>3, PollWrittenType, Identities
    <3> QED
      BY <2>3, <3>1 DEF PollWriteFails
  <2> QED
    BY <1>10, <2>1, <2>2, <2>3 DEF DrainPoll, DataOK
<1>11. CASE DrainIdle(r)
  BY <1>11 DEF DrainIdle, DataOK
<1>12. CASE DrainResponse(r)
  <2>1. Tail(chan[r]) \in Seq({"ok", "fail"}) /\ Len(Tail(chan[r])) <= MaxBacklog
    BY <1>12, LinkAssumption DEF DrainResponse, DataOK, RunsOK
  <2>2. DataOK' /\ UNCHANGED <<job, opened>>
    BY <1>12, <2>1 DEF DrainResponse, DataOK, RunsOK, HeldOK, LinkOK, linkVars
  <2> QED
    BY <1>12, <2>2 DEF DrainResponse
<1>13. CASE DrainCheck(r)
  BY <1>13 DEF DrainCheck, DataOK
<1>14. CASE RunnerFinish(r)
  <2>1. ctl' \in Controller
    BY <1>14, FinishProgramSuccessType DEF RunnerFinish, DataOK
  <2> QED
    BY <1>14, <2>1 DEF RunnerFinish
<1>15. CASE RunnerFail(r)
  <2>1. ctl' \in Controller
    BY <1>15, FinishProgramFailureType DEF RunnerFail, DataOK
  <2> QED
    BY <1>15, <2>1 DEF RunnerFail
<1> QED
  BY <1>1, <1>2, <1>3, <1>4, <1>5, <1>6, <1>7, <1>8, <1>9, <1>10, <1>11, <1>12,
     <1>13, <1>14, <1>15 DEF RunnerStep

\* aim is the only variable besides ctl, pc and the link that a client changes.
LEMMA AimType ==
  ASSUME DataOK, ctl' \in Controller, NEW i \in 1..MaxClients,
         aim' \in [1..MaxClients -> 0..MaxRuns],
         UNCHANGED <<chan, job, closer, bridge, fresh>>,
         UNCHANGED linkVars \/ (LinkOK' /\ UNCHANGED opened)
  PROVE  DataOK' /\ UNCHANGED <<job, opened>>
BY DEF DataOK, RunsOK, HeldOK, LinkOK, linkVars

LEMMA AimValues ==
  ASSUME DataOK, NEW i \in 1..MaxClients
  PROVE  /\ [aim EXCEPT ![i] = 0] \in [1..MaxClients -> 0..MaxRuns]
         /\ [aim EXCEPT ![i] = ctl.run.id] \in [1..MaxClients -> 0..MaxRuns]
BY NumberType DEF DataOK, RunsOK, Controller, RunType

LEMMA CommitPauseType ==
  ASSUME NEW c \in Controller, NEW i
  PROVE  CommitPause(c, i) \in Controller
<1>1. EndPauseTransition(c, Client(i)) \in Controller
  BY EndPauseTransitionType
<1>2. ASSUME NEW d \in Controller
      PROVE  [d EXCEPT !.status = "paused"] \in Controller
  BY DEF Controller, ProgramStatus
<1> QED
  BY <1>1, <1>2 DEF CommitPause

LEMMA CommitResumeType ==
  ASSUME NEW c \in Controller, NEW i
  PROVE  CommitResume(c, i) \in Controller
<1>1. \A st \in {"draining", "running"} : [c EXCEPT !.status = st] \in Controller
  BY DEF Controller, ProgramStatus
<1> QED
  BY <1>1 DEF CommitResume

LEMMA BeginPauseType ==
  ASSUME TypeInv, NEW i \in 1..MaxClients, BeginPause(i) \/ BeginResume(i)
  PROVE  TypeInv'
<1> DataOK
  BY TypeInvData
<1>1. ctl' \in Controller
  BY BeginPauseTransitionType, Identities DEF BeginPause, BeginResume, DataOK
<1>2. DataOK' /\ UNCHANGED <<job, opened>>
  BY <1>1, AimType, AimValues DEF BeginPause, BeginResume
<1> QED
  BY <1>2, ClientTo DEF BeginPause, BeginResume, Labels

LEMMA ClientStepType ==
  ASSUME TypeInv, NEW i \in 1..MaxClients, ClientStep(i)
  PROVE  TypeInv'
<1> DataOK
  BY TypeInvData
<1> USE ClientTo, AimType, AimValues DEF Labels
<1>1. CASE PauseAdmit(i)
  <2>1. ctl' \in Controller
    BY <1>1, ReserveType, Identities DEF PauseAdmit, DataOK
  <2>2. DataOK' /\ UNCHANGED <<job, opened>>
    BY <1>1, <2>1, DataFrame DEF PauseAdmit
  <2> QED
    BY <1>1, <2>2 DEF PauseAdmit
<1>2. CASE HoldWritten(i) \/ HoldWriteFails(i) \/ ResumeWritten(i)
  <2>1. ctl' \in Controller
    BY <1>2, EndRealtimeWriteType DEF HoldWritten, HoldWriteFails, ResumeWritten, DataOK
  <2>2. LinkOK' /\ UNCHANGED opened
    BY <1>2, DeliveredType, WriteFailsType, Identities
       DEF HoldWritten, HoldWriteFails, ResumeWritten, DataOK, Messages
  <2>3. DataOK' /\ UNCHANGED <<job, opened>>
    BY <1>2, <2>1, <2>2
       DEF HoldWritten, HoldWriteFails, ResumeWritten, DataOK, RunsOK, HeldOK, runVars
  <2> QED
    BY <1>2, <2>3 DEF HoldWritten, HoldWriteFails, ResumeWritten
<1>3. CASE PauseReturns(i)
  <2>1. ctl' \in Controller
    BY <1>3, CommitPauseType, EndPauseTransitionType DEF PauseReturns, DataOK
  <2>2. DataOK' /\ UNCHANGED <<job, opened>>
    BY <1>3, <2>1 DEF PauseReturns
  <2> QED
    BY <1>3, <2>2 DEF PauseReturns
<1>4. CASE ResumeAdmit(i)
  <2>1. ctl' \in Controller
    <3>1. ctl' = ctl \/ ctl' = Reserve(ctl, Client(i))
      BY <1>4 DEF ResumeAdmit
    <3> QED
      BY <3>1, ReserveType, Identities DEF DataOK
  <2>2. aim' \in [1..MaxClients -> 0..MaxRuns]
    BY <1>4 DEF ResumeAdmit, DataOK, RunsOK
  <2>3. DataOK' /\ UNCHANGED <<job, opened>>
    BY <1>4, <2>1, <2>2 DEF ResumeAdmit
  <2> QED
    BY <1>4, <2>3 DEF ResumeAdmit
<1>5. CASE ResumeWriteFails(i)
  <2>1. ctl' \in Controller
    BY <1>5, EndRealtimeWriteType DEF ResumeWriteFails, DataOK
  <2>2. LinkOK' /\ UNCHANGED opened
    BY <1>5, WriteFailsType, Identities DEF ResumeWriteFails, DataOK
  <2>3. DataOK' /\ UNCHANGED <<job, opened>>
    BY <1>5, <2>1, <2>2 DEF ResumeWriteFails
  <2> QED
    BY <1>5, <2>3 DEF ResumeWriteFails
<1>6. CASE ResumeReturns(i)
  <2>1. ctl' \in Controller
    BY <1>6, CommitResumeType DEF ResumeReturns, DataOK
  <2>2. DataOK' /\ UNCHANGED <<job, opened>>
    BY <1>6, <2>1 DEF ResumeReturns
  <2> QED
    BY <1>6, <2>2 DEF ResumeReturns
<1> QED
  BY <1>1, <1>2, <1>3, <1>4, <1>5, <1>6 DEF ClientStep

LEMMA ActionStepType ==
  ASSUME TypeInv, NEW i \in 1..MaxClients,
         ActionStep(i) \/ \E a \in Actions : BeginAction(i, a)
  PROVE  TypeInv'
<1> DataOK
  BY TypeInvData
<1>1. PICK a \in Actions : BeginAction(i, a) \/ ActionAdmit(i, a) \/ ActionReturns(i, a)
  BY DEF ActionStep
<1>2. a \in Labels.client /\ ActionWrite[a] \in Labels.client /\ "idle" \in Labels.client
  BY DEF Actions, ActionWrite, Labels
<1>3. CASE BeginAction(i, a)
  <2>1. DataOK' /\ UNCHANGED <<job, opened>>
    BY <1>3, DataFrame DEF BeginAction, DataOK
  <2> QED
    BY <1>2, <1>3, <2>1, ClientTo DEF BeginAction
<1>4. CASE ActionAdmit(i, a)
  <2>1. ctl' \in Controller
    BY <1>4, ReserveType, Identities DEF ActionAdmit, DataOK
  <2>2. DataOK' /\ UNCHANGED <<job, opened>>
    BY <1>4, <2>1, DataFrame DEF ActionAdmit
  <2> QED
    BY <1>2, <1>4, <2>2, ClientTo DEF ActionAdmit
<1>5. CASE ActionReturns(i, a)
  <2>1. ctl' \in Controller
    BY <1>5, EndRealtimeWriteType DEF ActionReturns, DataOK
  <2>2. WritingPC[ActionWrite[a]] \in Messages
    <3>1. CASE a = "machineHold"
      BY <3>1 DEF ActionWrite, WritingPC, Messages
    <3>2. CASE a = "machineResume"
      BY <3>2 DEF ActionWrite, WritingPC, Messages
    <3>3. CASE a = "softReset"
      BY <3>3 DEF ActionWrite, WritingPC, Messages
    <3> QED
      BY <3>1, <3>2, <3>3 DEF Actions, ActionWrite
  <2>3. LinkOK' /\ UNCHANGED opened
    BY <1>5, <2>2, DeliveredType, WriteFailsType, Identities DEF ActionReturns, DataOK
  <2>4. DataOK' /\ UNCHANGED <<job, opened>>
    BY <1>5, <2>1, <2>3 DEF ActionReturns, DataOK, RunsOK, HeldOK, runVars
  <2> QED
    BY <1>2, <1>5, <2>4, ClientTo DEF ActionReturns
<1> QED
  BY <1>1, <1>3, <1>4, <1>5

-----------------------------------------------------------------------------
(* Stop. *)

LEMMA StopProgramType ==
  ASSUME TypeInv, NEW r \in RunID, StopProgram(r)
  PROVE  TypeInv'
<1> DataOK
  BY TypeInvData
<1>1. ctl' \in Controller
  BY BeginStopType DEF StopProgram, DataOK
<1> QED
  BY <1>1, DataFrame, StopperTo DEF StopProgram, Labels

LEMMA PendingStopWriteReturnsType ==
  ASSUME TypeInv, NEW r \in RunID, PendingStopWriteReturns(r)
  PROVE  TypeInv'
<1> DataOK
  BY TypeInvData
<1>1. ctl' \in Controller
  BY EndReservationType DEF PendingStopWriteReturns, DataOK
<1>2. stalled[Stopper(r)].msg \in Messages
  BY Identities DEF PendingStopWriteReturns, DataOK, LinkOK, WriteType
<1>3. LinkOK' /\ UNCHANGED opened
  BY <1>2, DeliveredType, WriteFailsType, Identities DEF PendingStopWriteReturns, DataOK
<1>4. DataOK' /\ UNCHANGED <<pc, job, opened>>
  BY <1>1, <1>3 DEF PendingStopWriteReturns, DataOK, RunsOK, HeldOK, runVars
<1> QED
  BY <1>4, Nowhere

LEMMA AgedType ==
  ASSUME NEW s \in Seq(RxEvent)
  PROVE  LET old == [i \in DOMAIN s |-> [s[i] EXCEPT !.new = FALSE]]
         IN  old \in Seq(RxEvent) /\ Len(old) = Len(s)
<1>1. \A ev \in RxEvent : [ev EXCEPT !.new = FALSE] \in RxEvent
  BY DEF RxEvent
<1>2. \A i \in 1..Len(s) : [s[i] EXCEPT !.new = FALSE] \in RxEvent
  BY <1>1
<1>3. [i \in 1..Len(s) |-> [s[i] EXCEPT !.new = FALSE]] \in [1..Len(s) -> RxEvent]
  BY <1>2
<1>4. DOMAIN s = 1..Len(s) /\ Len(s) \in Nat
  OBVIOUS
<1> QED
  BY <1>3, <1>4, SeqDef

LEMMA StopStepType ==
  ASSUME TypeInv, NEW r \in RunID, StopStep(r)
  PROVE  TypeInv'
<1> DataOK
  BY TypeInvData
<1> USE StopperTo, DataFrame DEF Labels
<1>1. CASE StopAcquires(r)
  <2>1. ctl' \in Controller
    BY <1>1, ReserveType, Identities DEF StopAcquires, DataOK
  <2> QED
    BY <1>1, <2>1 DEF StopAcquires
<1>2. CASE StopCannotAcquire(r)
  BY <1>2 DEF StopCannotAcquire, DataOK
<1>3. CASE StopHoldWritten(r)
  <2>1. LinkOK' /\ UNCHANGED opened
    BY <1>3, DeliveredType, WriteFailsType, Identities
       DEF StopHoldWritten, DataOK, Messages
  <2>2. DataOK' /\ UNCHANGED <<job, opened>>
    BY <1>3, <2>1 DEF StopHoldWritten, DataOK, RunsOK, HeldOK, runVars
  <2> QED
    BY <1>3, <2>2 DEF StopHoldWritten
<1>4. CASE StopMarksReset(r)
  <2>1. ctl' \in Controller
    BY <1>4, MarkStopResetWriteIssuedType, EndReservationType
       DEF StopMarksReset, DataOK
  <2>2. rx' \in Seq(RxEvent) /\ Len(rx') <= MaxRx
    <3> DEFINE old == [i \in DOMAIN rx |-> [rx[i] EXCEPT !.new = FALSE]]
    <3>1. rx \in Seq(RxEvent) /\ Len(rx) <= MaxRx
      BY DEF DataOK, LinkOK
    <3>2. old \in Seq(RxEvent) /\ Len(old) = Len(rx)
      BY <3>1, AgedType
    <3>3. rx' = rx \/ rx' = old
      BY <1>4 DEF StopMarksReset
    <3> QED
      BY <3>1, <3>2, <3>3
  <2>3. DataOK' /\ UNCHANGED <<job, opened>>
    BY <1>4, <2>1, <2>2 DEF StopMarksReset, DataOK, RunsOK, HeldOK, LinkOK, runVars
  <2> QED
    BY <1>4, <2>3 DEF StopMarksReset
<1>5. CASE StopResetWritten(r)
  <2>1. ctl' \in Controller
    BY <1>5, EndReservationType DEF StopResetWritten, DataOK
  <2>2. LinkOK' /\ UNCHANGED opened
    BY <1>5, DeliveredType, WriteFailsType, Identities
       DEF StopResetWritten, DataOK, Messages
  <2>3. DataOK' /\ UNCHANGED <<job, opened>>
    BY <1>5, <2>1, <2>2 DEF StopResetWritten, DataOK, RunsOK, HeldOK, runVars
  <2> QED
    BY <1>5, <2>3 DEF StopResetWritten
<1>6. CASE StopWriteTimesOut(r)
  BY <1>6 DEF StopWriteTimesOut, DataOK
<1>7. CASE StopVerifies(r)
  <2>1. ctl' \in Controller
    BY <1>7, ReadyType DEF StopVerifies, DataOK, Readiness
  <2> QED
    BY <1>7, <2>1 DEF StopVerifies
<1>8. CASE StopBanner(r)
  BY <1>8 DEF StopBanner, DataOK
<1>9. CASE StopBaseline(r)
  <2>1. DataOK' /\ UNCHANGED <<job, opened>>
    BY <1>9 DEF StopBaseline, DataOK, RunsOK, HeldOK, LinkOK, runVars, linkVars,
                TakeBaseline
  <2> QED
    BY <1>9, <2>1 DEF StopBaseline
<1>10. CASE StopPoll(r)
  <2>1. CASE PollAdmitted(Stopper(r))
    <3>1. DataOK' /\ UNCHANGED <<job, opened>>
      BY <2>1, PollAdmittedType, Identities
    <3> QED
      BY <2>1, <3>1 DEF PollAdmitted
  <2>2. CASE PollWritten(Stopper(r))
    <3>1. DataOK' /\ UNCHANGED <<job, opened>>
      BY <2>2, PollWrittenType, Identities
    <3> QED
      BY <2>2, <3>1 DEF PollWritten
  <2>3. CASE PollWriteFails(Stopper(r), "fail")
    <3>1. DataOK' /\ UNCHANGED <<job, opened>>
      BY <2>3, PollWrittenType, Identities
    <3> QED
      BY <2>3, <3>1 DEF PollWriteFails
  <2> QED
    BY <1>10, <2>1, <2>2, <2>3 DEF StopPoll, DataOK
<1>11. CASE StopIdle(r)
  BY <1>11 DEF StopIdle, DataOK
<1>12. CASE StopFinishes(r)
  <2>1. ctl' \in Controller
    BY <1>12, FinishProgramStopType DEF StopFinishes, DataOK
  <2> QED
    BY <1>12, <2>1 DEF StopFinishes
<1>13. CASE StopFails(r)
  <2>1. ctl' \in Controller
    BY <1>13, FailProgramStopType DEF StopFails, DataOK
  <2> QED
    BY <1>13, <2>1 DEF StopFails
<1> QED
  BY <1>1, <1>2, <1>3, <1>4, <1>5, <1>6, <1>7, <1>8, <1>9, <1>10, <1>11, <1>12,
     <1>13 DEF StopStep

-----------------------------------------------------------------------------
(* The event bridge, the background poll and the watchdog. *)

LEMMA NextEventType ==
  ASSUME LinkOK, BridgeReads
  PROVE  NextEvent \in RxEvent /\ rx' \in Seq(RxEvent) /\ Len(rx') <= MaxRx
BY LinkAssumption DEF LinkOK, BridgeReads, NextEvent

LEMMA NoteInputType ==
  ASSUME NEW c \in Controller, NEW ev
  PROVE  NoteInput(c, ev) \in Controller
<1>1. (ev.kind = "alarm3") \in BOOLEAN
  OBVIOUS
<1>2. NoteAlarm(c, ev.kind = "alarm3") \in Controller
  BY <1>1, NoteAlarmType
<1>3. NoteResetBanner(c, ev.new) \in Controller
  BY NoteResetBannerType
<1> QED
  BY <1>2, <1>3 DEF NoteInput

LEMMA BridgeStepType ==
  ASSUME TypeInv, BridgeStep
  PROVE  TypeInv'
<1> DataOK
  BY TypeInvData
<1> USE BridgeTo, Nowhere DEF Labels
<1>1. CASE BridgeDiscards
  <2>1. rx' \in Seq(RxEvent) /\ Len(rx') <= MaxRx
    BY <1>1, NextEventType DEF BridgeDiscards, DataOK
  <2>2. DataOK' /\ UNCHANGED <<pc, job, opened>>
    BY <1>1, <2>1 DEF BridgeDiscards, DataOK, RunsOK, HeldOK, LinkOK, runVars
  <2> QED
    BY <2>2
<1>2. CASE BridgeStatus
  <2>1. NextEvent.kind \in MachineState /\ rx' \in Seq(RxEvent) /\ Len(rx') <= MaxRx
    BY <1>2, NextEventType
       DEF BridgeStatus, BridgeAccepts, IsStatus, MachineState, DataOK
  <2>2. ctl' \in Controller
    BY <1>2, <2>1, NoteStatusReportType DEF BridgeStatus, DataOK
  <2>3. DataOK' /\ UNCHANGED <<pc, job, opened>>
    BY <1>2, <2>1, <2>2
       DEF BridgeStatus, BridgeAccepts, DataOK, RunsOK, HeldOK, LinkOK
  <2> QED
    BY <2>3
<1>3. CASE BridgeEStop
  <2>1. ctl' \in Controller
    BY <1>3, NoteInputType, EnterEStopType DEF BridgeEStop, DataOK
  <2>2. rx' \in Seq(RxEvent) /\ Len(rx') <= MaxRx
    BY <1>3, NextEventType DEF BridgeEStop, BridgeAccepts, DataOK
  <2>3. DataOK' /\ UNCHANGED <<pc, job, opened>>
    BY <1>3, <2>1, <2>2
       DEF BridgeEStop, BridgeAccepts, DataOK, RunsOK, HeldOK, LinkOK
  <2> QED
    BY <2>3
<1>4. CASE BridgeLine
  <2>1. ctl' \in Controller
    BY <1>4, NoteInputType DEF BridgeLine, DataOK
  <2>2. rx' \in Seq(RxEvent) /\ Len(rx') <= MaxRx
    BY <1>4, NextEventType DEF BridgeLine, BridgeAccepts, DataOK
  <2>3. UNCHANGED <<aim, job, closer, stalled, port, opened, dev, faults, fresh>>
    BY <1>4 DEF BridgeLine, BridgeAccepts
  <2>4. ctl.run.id \in 0..MaxRuns
    BY DEF DataOK, Controller, RunType
  <2> DEFINE r == ctl.run.id
             answer == IF IsFailure(NextEvent) THEN "fail" ELSE "ok"
  <2>5. CASE UNCHANGED <<pc, chan, bridge>>
    <3>1. DataOK'
      BY <2>1, <2>2, <2>3, <2>5 DEF DataOK, RunsOK, HeldOK, LinkOK
    <3> QED
      BY <2>3, <2>5, <3>1
  <2>6. CASE /\ Len(chan[r]) < MaxBacklog
             /\ chan' = [chan EXCEPT ![r] = Append(@, answer)]
             /\ UNCHANGED <<pc, bridge>>
    <3>1. /\ chan' \in [RunID -> Seq({"ok", "fail"})]
          /\ \A q \in RunID : Len(chan'[q]) <= MaxBacklog
      <4>1. answer \in {"ok", "fail"}
        OBVIOUS
      <4> HIDE DEF answer
      <4>2. chan \in [RunID -> Seq({"ok", "fail"})]
            /\ \A q \in RunID : Len(chan[q]) <= MaxBacklog
        BY DEF DataOK, RunsOK
      <4>3. r \in RunID => /\ Append(chan[r], answer) \in Seq({"ok", "fail"})
                           /\ Len(Append(chan[r], answer)) <= MaxBacklog
        BY <2>6, <4>1, <4>2, LinkAssumption
      <4> QED
        BY <2>6, <4>2, <4>3
    <3>2. DataOK'
      BY <2>1, <2>2, <2>3, <2>6, <3>1 DEF DataOK, RunsOK, HeldOK, LinkOK
    <3> QED
      BY <2>3, <2>6, <3>2
  <2>7. CASE Goto(Bridge, "fail") /\ bridge' = r /\ UNCHANGED chan
    <3>1. DataOK'
      BY <2>1, <2>2, <2>3, <2>4, <2>7 DEF DataOK, RunsOK, HeldOK, LinkOK
    <3> QED
      BY <2>3, <2>7, <3>1
  <2> QED
    BY <1>4, <2>5, <2>6, <2>7 DEF BridgeLine
<1>5. CASE BridgeFailsRun
  <2>1. ctl' \in Controller
    BY <1>5, FinishProgramFailureType DEF BridgeFailsRun, DataOK
  <2>2. DataOK' /\ UNCHANGED <<job, opened>>
    BY <1>5, <2>1, NumberType
       DEF BridgeFailsRun, DataOK, RunsOK, HeldOK, LinkOK, runVars, linkVars
  <2> QED
    BY <1>5, <2>2 DEF BridgeFailsRun
<1>6. CASE BridgeIgnoresDisconnect
  <2>1. NextEvent.gen \in Generation /\ rx' \in Seq(RxEvent) /\ Len(rx') <= MaxRx
    BY <1>6, NextEventType DEF BridgeIgnoresDisconnect, DataOK, RxEvent
  <2>2. [ctl EXCEPT !.suppress = 0] \in Controller
    BY NumberType DEF DataOK, Controller
  <2>3. ctl' \in Controller
    BY <1>6, <2>1, <2>2, NoteAttemptDisconnectedType DEF BridgeIgnoresDisconnect, DataOK
  <2>4. DataOK' /\ UNCHANGED <<pc, job, opened>>
    BY <1>6, <2>1, <2>3
       DEF BridgeIgnoresDisconnect, DataOK, RunsOK, HeldOK, LinkOK, runVars
  <2> QED
    BY <2>4
<1>7. CASE BridgeDisconnected
  <2>1. NextEvent.gen \in Generation /\ rx' \in Seq(RxEvent) /\ Len(rx') <= MaxRx
    BY <1>7, NextEventType DEF BridgeDisconnected, DataOK, RxEvent
  <2>2. ctl' \in Controller
    BY <1>7, StopStatusPollingType DEF BridgeDisconnected, DataOK
  <2>3. DataOK' /\ UNCHANGED <<job, opened>>
    BY <1>7, <2>1, <2>2, NumberType
       DEF BridgeDisconnected, DataOK, RunsOK, HeldOK, LinkOK, runVars
  <2> QED
    BY <1>7, <2>3 DEF BridgeDisconnected
<1>8. CASE BridgeClears
  <2>1. ctl' \in Controller
    BY <1>8, HandleTransportDisconnectedType DEF BridgeClears, DataOK
  <2>2. DataOK' /\ UNCHANGED <<job, opened>>
    BY <1>8, <2>1, NumberType
       DEF BridgeClears, DataOK, RunsOK, HeldOK, LinkOK, runVars, linkVars
  <2> QED
    BY <1>8, <2>2 DEF BridgeClears
<1> QED
  BY <1>1, <1>2, <1>3, <1>4, <1>5, <1>6, <1>7, <1>8 DEF BridgeStep

LEMMA StatusPollType ==
  ASSUME TypeInv, NEW g \in Generation, BeginStatusPoll(g) \/ EndStatusPoll(g)
  PROVE  TypeInv'
<1> DataOK
  BY TypeInvData
<1>1. CASE BeginStatusPoll(g)
  <2>1. ctl' \in Controller
    BY <1>1, ReserveType, Identities DEF BeginStatusPoll, DataOK
  <2> QED
    BY <1>1, <2>1, DataFrame, PollerTo DEF BeginStatusPoll, Labels
<1>2. CASE EndStatusPoll(g)
  <2>1. ctl' \in Controller
    BY <1>2, EndRealtimeWriteType DEF EndStatusPoll, DataOK
  <2>2. LinkOK' /\ UNCHANGED opened
    BY <1>2, DeliveredType, WriteFailsType, Identities
       DEF EndStatusPoll, DataOK, Messages
  <2>3. DataOK' /\ UNCHANGED <<job, opened>>
    BY <1>2, <2>1, <2>2 DEF EndStatusPoll, DataOK, RunsOK, HeldOK, runVars
  <2> QED
    BY <1>2, <2>3, PollerTo DEF EndStatusPoll, Labels
<1> QED
  BY <1>1, <1>2

LEMMA WatchdogEStopType ==
  ASSUME TypeInv, WatchdogEStop
  PROVE  TypeInv'
<1> DataOK
  BY TypeInvData
<1>1. ctl' \in Controller
  BY EnterEStopType DEF WatchdogEStop, DataOK
<1>2. faults' \in 0..MaxFaults
  BY FaultType DEF WatchdogEStop, DataOK, LinkOK
<1>3. DataOK' /\ UNCHANGED <<pc, job, opened>>
  BY <1>1, <1>2 DEF WatchdogEStop, DataOK, RunsOK, HeldOK, LinkOK, runVars
<1> QED
  BY <1>3, Nowhere

-----------------------------------------------------------------------------
(* Connect, Disconnect and the verification after a reconnect. *)

LEMMA ClosesPortType ==
  ASSUME LinkOK, ClosesPort
  PROVE  rx' \in Seq(RxEvent) /\ Len(rx') <= MaxRx
<1>1. CASE port = 0
  BY <1>1 DEF ClosesPort, LinkOK
<1>2. CASE port # 0
  <2> DEFINE ev == [kind |-> "disconnected", gen |-> port, new |-> TRUE]
  <2>1. ev \in RxEvent
    BY <1>2, DisconnectEventType
  <2>2. rx \in Seq(RxEvent) /\ Len(rx) < MaxRx /\ rx' = Append(rx, ev)
    BY <1>2 DEF ClosesPort, LinkOK
  <2> HIDE DEF ev
  <2> QED
    BY <2>1, <2>2, LinkAssumption
<1> QED
  BY <1>1, <1>2

LEMMA ConnectType ==
  ASSUME TypeInv, Connect
  PROVE  TypeInv'
<1> DataOK
  BY TypeInvData
<1>1. ctl' \in Controller
  BY BeginConnectAttemptType DEF Connect, DataOK
<1>2. DataOK' /\ UNCHANGED <<job, opened>>
  BY <1>1, DataFrame DEF Connect
<1> QED
  BY <1>2, ConnectorTo DEF Connect, Labels, Opened

LEMMA ConnectorStepType ==
  ASSUME TypeInv, ConnectorStep
  PROVE  TypeInv'
<1> DataOK
  BY TypeInvData
<1>1. pc[Connector] \in Opened => opened # 0
  BY DEF TypeInv, Bounded
<1> USE DEF Labels, Opened
<1>2. CASE OpenPort
  <2>1. opened + 1 \in 1..MaxGen
    BY <1>2, BoundsAssumption DEF TypeInv, Bounded, OpenPort, LinkOK
  <2>2. AtRest \in DeviceType
    BY DEF AtRest, DeviceType
  <2>3. DataOK' /\ UNCHANGED job
    BY <1>2, <2>1, <2>2, BoundsAssumption
       DEF OpenPort, DataOK, RunsOK, HeldOK, LinkOK, runVars
  <2>4. opened' # 0
    BY <1>2, <2>1 DEF OpenPort
  <2> QED
    BY <1>2, <2>3, <2>4, ConnectorTo DEF OpenPort
<1>3. CASE OpenFails
  <2>1. faults' \in 0..MaxFaults
    BY <1>3, FaultType DEF OpenFails, DataOK, LinkOK
  <2>2. DataOK' /\ UNCHANGED job
    BY <1>3, <2>1 DEF OpenFails, DataOK, RunsOK, HeldOK, LinkOK, runVars
  <2> QED
    BY <1>3, <2>2, ConnectorTo DEF OpenFails
<1>4. CASE NoteOpen
  <2>1. ctl' \in Controller
    BY <1>4, NoteOpenedType DEF NoteOpen, DataOK, LinkOK
  <2>2. DataOK' /\ UNCHANGED <<job, opened>>
    BY <1>4, <2>1, DataFrame DEF NoteOpen
  <2> QED
    BY <1>1, <1>4, <2>2, ConnectorTo DEF NoteOpen
<1>5. CASE Validated
  <2>1. DataOK' /\ UNCHANGED <<job, opened>>
    BY <1>5, DataFrame DEF Validated, DataOK
  <2> QED
    BY <1>1, <1>5, <2>1, ConnectorTo DEF Validated
<1>6. CASE ValidationFails
  <2>1. faults' \in 0..MaxFaults
    BY <1>6, FaultType DEF ValidationFails, DataOK, LinkOK
  <2>2. DataOK' /\ UNCHANGED <<job, opened>>
    BY <1>6, <2>1 DEF ValidationFails, DataOK, RunsOK, HeldOK, LinkOK, runVars
  <2> QED
    BY <1>1, <1>6, <2>2, ConnectorTo DEF ValidationFails
<1>7. CASE CommitConnect
  <2>1. ctl' \in Controller
    BY <1>7, CommitConnectionType DEF CommitConnect, DataOK, LinkOK
  <2>2. DataOK' /\ UNCHANGED <<job, opened>>
    BY <1>7, <2>1, DataFrame DEF CommitConnect
  <2>3. CASE ctl.attemptErr
    BY <1>1, <1>7, <2>2, <2>3, ConnectorTo DEF CommitConnect
  <2>4. CASE ~ctl.attemptErr
    <3>1. opened \in Generation
      BY <1>1, <1>7, BoundsAssumption DEF CommitConnect, DataOK, LinkOK, Generation
    <3>2. /\ Poller(opened) \in Procs /\ Verifier(opened) \in Procs /\ Connector \in Procs
          /\ Poller(opened)[1] = "poller" /\ Verifier(opened)[1] = "verifier"
          /\ Connector[1] = "connector"
      BY <3>1, Identities, Kinds
    <3> DEFINE l == IF ctl.ready = "normal" THEN "off" ELSE "baseline"
    <3>3. pc' = [pc EXCEPT ![Connector] = "idle", ![Poller(opened)] = "idle",
                           ![Verifier(opened)] = l]
      BY <1>7, <2>4 DEF CommitConnect
    <3>4. l \in Labels.verifier /\ "idle" \in Labels.poller /\ "idle" \in Labels.connector
      OBVIOUS
    <3> HIDE DEF l
    <3>5. PcOK'
      BY <3>2, <3>3, <3>4 DEF TypeInv, PcOK
    <3>6. pc'[Connector] = "idle"
      BY <3>2, <3>3 DEF TypeInv, PcOK
    <3>7. \A r \in RunID : pc'[Runner(r)] = pc[Runner(r)]
      BY <3>2, <3>3, Identities, Kinds DEF TypeInv, PcOK
    <3>8. Bounded'
      BY <2>2, <3>6, <3>7 DEF TypeInv, Bounded
    <3> QED
      BY <2>2, <3>5, <3>8 DEF TypeInv, DataOK
  <2> QED
    BY <2>3, <2>4
<1>8. CASE SuppressCandidate
  <2>1. ctl' \in Controller
    BY <1>8 DEF SuppressCandidate, DataOK, Controller, LinkOK
  <2>2. DataOK' /\ UNCHANGED <<job, opened>>
    BY <1>8, <2>1, DataFrame DEF SuppressCandidate
  <2> QED
    BY <1>1, <1>8, <2>2, ConnectorTo DEF SuppressCandidate
<1>9. CASE CloseCandidate
  <2>1. rx' \in Seq(RxEvent) /\ Len(rx') <= MaxRx
    BY <1>9, ClosesPortType DEF CloseCandidate, DataOK
  <2>2. DataOK' /\ UNCHANGED <<job, opened>>
    BY <1>9, <2>1 DEF CloseCandidate, ClosesPort, DataOK, RunsOK, HeldOK, LinkOK, runVars
  <2> QED
    BY <1>9, <2>2, ConnectorTo DEF CloseCandidate
<1>10. CASE AbandonConnect
  <2>1. ctl' \in Controller
    BY <1>10, AbandonConnectAttemptType DEF AbandonConnect, DataOK
  <2>2. DataOK' /\ UNCHANGED <<job, opened>>
    BY <1>10, <2>1, DataFrame DEF AbandonConnect
  <2> QED
    BY <1>10, <2>2, ConnectorTo DEF AbandonConnect
<1> QED
  BY <1>2, <1>3, <1>4, <1>5, <1>6, <1>7, <1>8, <1>9, <1>10 DEF ConnectorStep

LEMMA DisconnectType ==
  ASSUME TypeInv, Disconnect
  PROVE  TypeInv'
<1> DataOK
  BY TypeInvData
<1>1. ctl' \in Controller
  BY BeginDisconnectType DEF Disconnect, DataOK
<1>2. closer' \in [write : Writers \cup {Nobody}, forced : BOOLEAN]
  BY DEF Disconnect, DataOK, Controller
<1>3. DataOK' /\ UNCHANGED <<job, opened>>
  BY <1>1, <1>2 DEF Disconnect, DataOK, RunsOK, HeldOK, LinkOK, runVars, linkVars
<1> QED
  BY <1>3, CloserTo DEF Disconnect, Labels

LEMMA CloserStepType ==
  ASSUME TypeInv, CloserStep
  PROVE  TypeInv'
<1> DataOK
  BY TypeInvData
<1> USE CloserTo DEF Labels
<1>1. NoCloser \in [write : Writers \cup {Nobody}, forced : BOOLEAN]
  BY DEF NoCloser
<1>2. CASE DisconnectStopsPolling
  <2>1. ctl' \in Controller
    BY <1>2, StopStatusPollingType DEF DisconnectStopsPolling, DataOK
  <2>2. DataOK' /\ UNCHANGED <<job, opened>>
    BY <1>2, <2>1, DataFrame DEF DisconnectStopsPolling
  <2> QED
    BY <1>2, <2>2 DEF DisconnectStopsPolling
<1>3. CASE DisconnectDrains
  <2>1. DataOK' /\ UNCHANGED <<job, opened>>
    BY <1>3, DataFrame DEF DisconnectDrains, DataOK
  <2> QED
    BY <1>3, <2>1 DEF DisconnectDrains
<1>4. CASE DisconnectCloses
  <2>1. rx' \in Seq(RxEvent) /\ Len(rx') <= MaxRx
    BY <1>4, ClosesPortType DEF DisconnectCloses, DataOK
  <2>2. faults' \in 0..MaxFaults
    BY <1>4, FaultType DEF DisconnectCloses, DataOK, LinkOK
  <2>3. DataOK' /\ UNCHANGED <<job, opened>>
    BY <1>4, <2>1, <2>2
       DEF DisconnectCloses, ClosesPort, DataOK, RunsOK, HeldOK, LinkOK, runVars
  <2> QED
    BY <1>4, <2>3 DEF DisconnectCloses
<1>5. CASE DisconnectFails
  <2>1. ctl' \in Controller
    BY <1>5, DisconnectFailedType DEF DisconnectFails, DataOK
  <2>2. DataOK' /\ UNCHANGED <<job, opened>>
    BY <1>1, <1>5, <2>1
       DEF DisconnectFails, DataOK, RunsOK, HeldOK, LinkOK, runVars, linkVars
  <2> QED
    BY <1>5, <2>2 DEF DisconnectFails
<1>6. CASE DisconnectReleases
  <2>1. ctl' \in Controller
    BY <1>6, EndReservationType DEF DisconnectReleases, DataOK
  <2>2. DataOK' /\ UNCHANGED <<job, opened>>
    BY <1>1, <1>6, <2>1
       DEF DisconnectReleases, DataOK, RunsOK, HeldOK, LinkOK, runVars, linkVars
  <2> QED
    BY <1>6, <2>2 DEF DisconnectReleases
<1>7. CASE DisconnectClears
  <2>1. ASSUME NEW c \in Controller
        PROVE  [c EXCEPT !.transition = "stable"] \in Controller
    BY DEF Controller
  <2>2. ctl' \in Controller
    BY <1>7, <2>1, ClearConnectionStateType DEF DisconnectClears, DataOK
  <2>3. DataOK' /\ UNCHANGED <<job, opened>>
    BY <1>7, <2>2, DataFrame DEF DisconnectClears
  <2> QED
    BY <1>7, <2>3 DEF DisconnectClears
<1> QED
  BY <1>2, <1>3, <1>4, <1>5, <1>6, <1>7 DEF CloserStep

LEMMA ConcludeVerificationType ==
  ASSUME NEW c \in Controller, NEW g, NEW verified
  PROVE  ConcludeVerification(c, g, verified) \in Controller
BY ReadyType DEF ConcludeVerification, Readiness

LEMMA VerifierStepType ==
  ASSUME TypeInv, NEW g \in Generation, VerifierStep(g)
  PROVE  TypeInv'
<1> DataOK
  BY TypeInvData
<1> USE VerifierTo DEF Labels
<1>1. CASE VerifierBaseline(g)
  <2>1. DataOK' /\ UNCHANGED <<job, opened>>
    BY <1>1 DEF VerifierBaseline, DataOK, RunsOK, HeldOK, LinkOK, runVars, linkVars,
                TakeBaseline
  <2> QED
    BY <1>1, <2>1 DEF VerifierBaseline
<1>2. CASE VerifierPoll(g)
  <2>1. CASE PollAdmitted(Verifier(g))
    <3>1. DataOK' /\ UNCHANGED <<job, opened>>
      BY <2>1, PollAdmittedType, Identities
    <3> QED
      BY <2>1, <3>1 DEF PollAdmitted
  <2>2. CASE PollWritten(Verifier(g))
    <3>1. DataOK' /\ UNCHANGED <<job, opened>>
      BY <2>2, PollWrittenType, Identities
    <3> QED
      BY <2>2, <3>1 DEF PollWritten
  <2>3. CASE PollWriteFails(Verifier(g), "unverified")
    <3>1. DataOK' /\ UNCHANGED <<job, opened>>
      BY <2>3, PollWrittenType, Identities
    <3> QED
      BY <2>3, <3>1 DEF PollWriteFails
  <2>4. CASE /\ Goto(Verifier(g), "unverified")
             /\ UNCHANGED <<ctl, runVars, closer, bridge, linkVars, fresh>>
    <3>1. DataOK' /\ UNCHANGED <<job, opened>>
      BY <2>4, DataFrame DEF DataOK
    <3> QED
      BY <2>4, <3>1
  <2> QED
    BY <1>2, <2>1, <2>2, <2>3, <2>4 DEF VerifierPoll
<1>3. CASE VerifierIdle(g)
  <2>1. DataOK' /\ UNCHANGED <<job, opened>>
    BY <1>3, DataFrame DEF VerifierIdle, DataOK
  <2> QED
    BY <1>3, <2>1 DEF VerifierIdle
<1>4. CASE VerifierConcludes(g)
  <2>1. ctl' \in Controller
    BY <1>4, ConcludeVerificationType DEF VerifierConcludes, DataOK
  <2>2. DataOK' /\ UNCHANGED <<job, opened>>
    BY <1>4, <2>1, DataFrame DEF VerifierConcludes
  <2> QED
    BY <1>4, <2>2 DEF VerifierConcludes
<1> QED
  BY <1>1, <1>2, <1>3, <1>4 DEF VerifierStep

-----------------------------------------------------------------------------
(* Type correctness. *)

LEMMA TypeInvInit == Init => TypeInv
<1> SUFFICES ASSUME Init PROVE TypeInv
  OBVIOUS
<1> USE BoundsAssumption, LinkAssumption DEF Init
<1>1. ctl \in Controller
  BY InitControllerType
<1>2. PcOK
  BY DEF PcOK, Procs, Writers, Runners, Stoppers, ClientSet, Pollers, Verifiers,
         Runner, Stopper, Client, Poller, Verifier, Connector, Closer, Bridge,
         FirstLabel, Labels
<1>3. RunsOK
  BY DEF RunsOK, RunID
<1>4. HeldOK
  BY DEF HeldOK, NoCloser
<1>5. LinkOK
  BY DEF LinkOK, AtRest, DeviceType, WriteType
<1>6. Bounded
  <2>1. pc[Connector] = "idle"
    BY Identities, Kinds DEF FirstLabel
  <2>2. \A r \in RunID : pc[Runner(r)] = "off"
    BY Identities, Kinds DEF FirstLabel
  <2> QED
    BY <2>1, <2>2 DEF Bounded, Opened, Sending
<1> QED
  BY <1>1, <1>2, <1>3, <1>4, <1>5, <1>6 DEF TypeInv

LEMMA TypeInvNext == TypeInv /\ [Next]_vars => TypeInv'
<1> SUFFICES ASSUME TypeInv, [Next]_vars PROVE TypeInv'
  OBVIOUS
<1>1. CASE UNCHANGED vars
  BY <1>1 DEF vars, TypeInv, PcOK, RunsOK, HeldOK, LinkOK, Bounded
<1>2. CASE Machine
  BY <1>2, MachineType
<1>3. CASE PortDrops
  BY <1>3, PortDropsType
<1>4. CASE \E p \in Writers : WriteStalls(p)
  BY <1>4, WriteStallsType
<1>5. CASE \E r \in RunID : StartProgram(r) \/ RunnerStep(r)
  BY <1>5, StartProgramType, RunnerStepType
<1>6. CASE \E r \in RunID : StopProgram(r) \/ StopStep(r) \/ PendingStopWriteReturns(r)
  BY <1>6, StopProgramType, StopStepType, PendingStopWriteReturnsType
<1>7. CASE \E i \in 1..MaxClients : BeginPause(i) \/ BeginResume(i) \/ ClientStep(i)
  BY <1>7, BeginPauseType, ClientStepType
<1>8. CASE \E i \in 1..MaxClients :
             ActionStep(i) \/ \E a \in Actions : BeginAction(i, a)
  BY <1>8, ActionStepType
<1>9. CASE BridgeStep
  BY <1>9, BridgeStepType
<1>10. CASE WatchdogEStop
  BY <1>10, WatchdogEStopType
<1>11. CASE \E g \in Generation : BeginStatusPoll(g) \/ EndStatusPoll(g)
  BY <1>11, StatusPollType
<1>12. CASE \E g \in Generation : VerifierStep(g)
  BY <1>12, VerifierStepType
<1>13. CASE Connect \/ ConnectorStep
  BY <1>13, ConnectType, ConnectorStepType
<1>14. CASE Disconnect \/ CloserStep
  BY <1>14, DisconnectType, CloserStepType
<1> QED
  BY <1>1, <1>2, <1>3, <1>4, <1>5, <1>6, <1>7, <1>8, <1>9, <1>10, <1>11, <1>12,
     <1>13, <1>14 DEF Next

LEMMA TypeInvAlways == Spec => []TypeInv
BY TypeInvInit, TypeInvNext, PTL DEF Spec

\* Every variable keeps to its type and every goroutine to its own labels: no
\* counter, queue or backlog passes its bound, whatever the bounds are.
THEOREM TypeCorrect == Spec => []TypeOK
<1>1. TypeInv => TypeOK
  BY TypeInvParts
<1> QED
  BY <1>1, TypeInvAlways, PTL

-----------------------------------------------------------------------------
(***************************************************************************)
(* The invariants that tie the run, the Stop operation, the response       *)
(* owner, readiness and the connection to each other, for every value of   *)
(* the constants.                                                          *)
(*                                                                         *)
(* No one of the four is inductive alone.  That a program executes only on *)
(* a ready machine rests, for a program that starts, on LifecycleOwned: no *)
(* verification of this connection is still under way to change readiness; *)
(* and LifecycleOwned rests on the others whenever a run ends or a         *)
(* connection changes.  So they are proved together (Safe), on top of      *)
(* TypeInv (IInv).                                                         *)
(*                                                                         *)
(* Most critical sections do not touch what Safe speaks of (Core), and     *)
(* most goroutines are not the three kinds that it names: SafeFrame.  The  *)
(* rest divide into those that end the run (RunOver) and a few that start, *)
(* stop, pause or drain it.                                                *)
(***************************************************************************)

Safe == /\ ExecutingImpliesReady
        /\ OwnerIsCurrentRun
        /\ StopOwnsRun
        /\ LifecycleOwned

IInv == TypeInv /\ Safe

Core(c) == <<c.conn, c.transition, c.gen, c.status, c.ready, c.estop, c.run.id,
             c.run.gen, c.stop.run, c.stop.gen, c.owner>>

\* Connector, Closer and every verifier are where they were, or a verifier left.
StillOwned ==
  /\ pc'[Connector] # "idle" <=> pc[Connector] # "idle"
  /\ pc'[Closer] # "idle" <=> pc[Closer] # "idle"
  /\ \A g \in Generation : pc'[Verifier(g)] # "off" => pc[Verifier(g)] # "off"

LEMMA SafeFrame ==
  ASSUME Safe, Core(ctl') = Core(ctl), StillOwned
  PROVE  Safe'
<1> USE DEF Core, Safe
<1>1. ExecutingImpliesReady'
  BY DEF ExecutingImpliesReady, IsConnected
<1>2. OwnerIsCurrentRun'
  BY DEF OwnerIsCurrentRun
<1>3. StopOwnsRun'
  BY DEF StopOwnsRun, IsConnected
<1>4. LifecycleOwned'
  BY DEF LifecycleOwned, IsConnected, StillOwned
<1> QED
  BY <1>1, <1>2, <1>3, <1>4

LEMMA OthersOwn ==
  ASSUME PcOK, NEW p \in Procs, p[1] \notin {"connector", "closer", "verifier"},
         NEW l, Goto(p, l)
  PROVE  StillOwned
BY GotoElsewhere, Identities, Kinds DEF StillOwned

LEMMA NobodyMoves == UNCHANGED pc => StillOwned
BY DEF StillOwned

LEMMA CoreSame == UNCHANGED ctl => Core(ctl') = Core(ctl)
BY DEF Core

LEMMA CoreReservation ==
  ASSUME NEW c \in Controller, NEW p
  PROVE  /\ Core(Reserve(c, p)) = Core(c)
         /\ Core(EndRealtimeWrite(c)) = Core(c)
         /\ Core(EndReservation(c, p)) = Core(c)
BY DEF Core, Reserve, EndRealtimeWrite, EndReservation, Controller

LEMMA CorePause ==
  ASSUME NEW c \in Controller, NEW p
  PROVE  /\ Core(BeginPauseTransition(c, p)) = Core(c)
         /\ Core(EndPauseTransition(c, p)) = Core(c)
BY DEF Core, BeginPauseTransition, EndPauseTransition, Controller, RunType

LEMMA CoreAlarm ==
  ASSUME NEW c \in Controller, NEW is3
  PROVE  Core(NoteAlarm(c, is3)) = Core(c)
BY DEF Core, NoteAlarm, Controller, StopType

LEMMA CoreInput ==
  ASSUME NEW c \in Controller, NEW ev
  PROVE  Core(NoteInput(c, ev)) = Core(c)
<1>1. Core(NoteResetBanner(c, ev.new)) = Core(c)
  BY DEF Core, NoteResetBanner, Controller, StopType
<1> QED
  BY <1>1, CoreAlarm DEF NoteInput

LEMMA CoreStopMark ==
  ASSUME NEW c \in Controller
  PROVE  Core(MarkStopResetWriteIssued(c)) = Core(c)
BY DEF Core, MarkStopResetWriteIssued, Controller, StopType

-----------------------------------------------------------------------------
(* A run that is over: three of the four invariants are then immediate. *)

RunOver == /\ ctl.run.id = 0
           /\ ctl.status \notin Active
           /\ ctl.stop.run = 0
           /\ ctl.owner.session = Nobody

LEMMA NoRunIsOver ==
  ASSUME Safe, ctl.run.id = 0
  PROVE  RunOver
BY DEF Safe, RunOver, OwnerIsCurrentRun, StopOwnsRun, LifecycleOwned

\* A connection in transition has no run.
LEMMA TransitionHasNoRun ==
  ASSUME Safe, ctl \in Controller, ctl.transition # "stable"
  PROVE  RunOver
<1>1. ctl.status \notin Active
  BY DEF Safe, ExecutingImpliesReady, StopOwnsRun, Active, Executing
<1> QED
  BY <1>1, NoRunIsOver DEF Safe, LifecycleOwned

LEMMA OverIsSafe ==
  ASSUME RunOver', LifecycleOwned'
  PROVE  Safe'
BY DEF Safe, RunOver, ExecutingImpliesReady, OwnerIsCurrentRun, StopOwnsRun, Active,
       Executing

\* The run ends on an unchanged connection, or a connection without a run
\* changes its readiness; normal readiness is not gained.
LEMMA RunEndsSafely ==
  ASSUME Safe, RunOver', StillOwned,
         ctl'.conn = ctl.conn, ctl'.transition = ctl.transition, ctl'.gen = ctl.gen,
         ctl'.ready = "normal" => ctl.ready = "normal"
  PROVE  Safe'
<1>1. LifecycleOwned'
  BY DEF Safe, RunOver, LifecycleOwned, StillOwned, IsConnected
<1> QED
  BY <1>1, OverIsSafe

LEMMA NobodyOwner == NoOwner.session = Nobody
BY DEF NoOwner

\* The records that end a run.
LEMMA FailRunOver ==
  ASSUME NEW c \in Controller
  PROVE  LET d == FailRun(c)
         IN  /\ d \in Controller
             /\ d.run.id = 0 /\ d.status = "failed" /\ d.owner = NoOwner
             /\ d.stop = c.stop /\ d.ready = c.ready /\ d.conn = c.conn
             /\ d.transition = c.transition /\ d.gen = c.gen /\ d.estop = c.estop
BY FailRunType DEF FailRun, Controller, NoRun

LEMMA FinishProgramSuccessSafe ==
  ASSUME Safe, ctl \in Controller, NEW r \in RunID, CanFinishProgram(ctl, r),
         ctl' = FinishProgramSuccess(ctl), StillOwned
  PROVE  Safe'
<1>1. ctl.stop.run = 0
  BY DEF Safe, CanFinishProgram, ExecutingImpliesReady, Executing
<1>2. /\ ctl'.run.id = 0 /\ ctl'.status = "completed" /\ ctl'.owner = NoOwner
      /\ ctl'.stop = ctl.stop /\ ctl'.ready = ctl.ready /\ ctl'.conn = ctl.conn
      /\ ctl'.transition = ctl.transition /\ ctl'.gen = ctl.gen
  BY DEF FinishProgramSuccess, Controller, NoRun
<1> QED
  BY <1>1, <1>2, NobodyOwner, RunEndsSafely DEF RunOver, Active

LEMMA FinishProgramFailureSafe ==
  ASSUME Safe, ctl \in Controller, NEW r \in 0..MaxRuns \cup 0..MaxGen,
         ctl' = FinishProgramFailure(ctl, r), StillOwned
  PROVE  Safe'
<1>1. CASE ctl' = ctl
  BY <1>1, SafeFrame, CoreSame
<1>2. CASE ctl' # ctl
  <2>1. /\ ctl.run.id = r /\ ctl.stop.run # r
        /\ ctl' = [FailRun(ctl) EXCEPT !.ready = IF ctl.run.work THEN "recovery" ELSE @]
    BY <1>2 DEF FinishProgramFailure
  <2>2. ctl.stop.run = 0
    BY <2>1 DEF Safe, StopOwnsRun
  <2>3. /\ ctl'.run.id = 0 /\ ctl'.status = "failed" /\ ctl'.owner = NoOwner
        /\ ctl'.stop = ctl.stop /\ ctl'.conn = ctl.conn
        /\ ctl'.transition = ctl.transition /\ ctl'.gen = ctl.gen
        /\ ctl'.ready \in {"recovery", ctl.ready}
    BY <2>1, FailRunOver DEF Controller
  <2> QED
    BY <2>2, <2>3, NobodyOwner, RunEndsSafely DEF RunOver, Active
<1> QED
  BY <1>1, <1>2

LEMMA FailProgramStopSafe ==
  ASSUME Safe, ctl \in Controller, NEW r \in RunID,
         ctl' = FailProgramStop(ctl, r), StillOwned
  PROVE  Safe'
<1>1. CASE ctl.stop.run # r
  BY <1>1, SafeFrame, CoreSame DEF FailProgramStop
<1>2. CASE ctl.stop.run = r
  <2>1. ctl.run.id = r
    BY <1>2 DEF Safe, StopOwnsRun, RunID
  <2>2. ctl' = [FailRun(ctl) EXCEPT !.ready = "recovery", !.stop = NoStop]
    BY <1>2, <2>1 DEF FailProgramStop
  <2>3. /\ ctl'.run.id = 0 /\ ctl'.status = "failed" /\ ctl'.owner = NoOwner
        /\ ctl'.stop.run = 0 /\ ctl'.conn = ctl.conn
        /\ ctl'.transition = ctl.transition /\ ctl'.gen = ctl.gen
        /\ ctl'.ready = "recovery"
    BY <2>2, FailRunOver DEF Controller, NoStop
  <2> QED
    BY <2>3, NobodyOwner, RunEndsSafely DEF RunOver, Active
<1> QED
  BY <1>1, <1>2

LEMMA EnterEStopSafe ==
  ASSUME Safe, ctl \in Controller, NEW c \in Controller, Core(c) = Core(ctl),
         ctl' = EnterEStop(c), StillOwned
  PROVE  Safe'
<1>1. /\ ctl'.run.id = 0 /\ ctl'.owner = NoOwner /\ ctl'.stop.run = 0
      /\ ctl'.conn = ctl.conn /\ ctl'.transition = ctl.transition
      /\ ctl'.gen = ctl.gen /\ ctl'.ready \in {"recovery", ctl.ready}
      /\ ctl'.status = IF ProgramActive(c) THEN "failed" ELSE ctl.status
  BY DEF EnterEStop, Controller, NoRun, NoStop, Core
<1>2. ctl'.status \notin Active
  BY <1>1 DEF ProgramActive, Active, Core
<1> QED
  BY <1>1, <1>2, NobodyOwner, RunEndsSafely DEF RunOver

-----------------------------------------------------------------------------
(* The program: start, and the changes of its status while it executes. *)

LEMMA StartProgramSafe ==
  ASSUME IInv, NEW r \in RunID, StartProgram(r)
  PROVE  Safe'
<1> ctl \in Controller /\ PcOK /\ Safe
  BY DEF IInv, TypeInv
<1>1. /\ ctl.transition = "stable" /\ ctl.ready = "normal" /\ ctl.estop = "clear"
      /\ ctl.run.id = 0 /\ ctl.status \notin Active
      /\ IsConnected(ctl) /\ ctl.gen # 0
  BY DEF StartProgram, Admitted, Eligible, ProgramActive
<1>2. /\ ctl'.run.id = r /\ ctl'.run.gen = ctl.gen /\ ctl'.status = "running"
      /\ ctl'.owner = [session |-> Runner(r), gen |-> ctl.gen]
      /\ ctl'.stop = ctl.stop /\ ctl'.ready = ctl.ready /\ ctl'.conn = ctl.conn
      /\ ctl'.transition = ctl.transition /\ ctl'.gen = ctl.gen
      /\ ctl'.estop = ctl.estop
  BY DEF StartProgram, StartRun, Controller, NoRun
<1>3. ctl.stop.run = 0
  BY <1>1, NoRunIsOver DEF RunOver
<1>4. r # 0 /\ Runner(r) # Nobody
  BY DEF RunID, Runner, Nobody
<1>5. StillOwned
  BY OthersOwn, Identities, Kinds DEF StartProgram
<1>6. ExecutingImpliesReady'
  BY <1>1, <1>2, <1>3, <1>4 DEF ExecutingImpliesReady, IsConnected
<1>7. OwnerIsCurrentRun'
  BY <1>2, <1>4 DEF OwnerIsCurrentRun
<1>8. StopOwnsRun'
  BY <1>2, <1>3 DEF StopOwnsRun
<1>9. LifecycleOwned'
  BY <1>1, <1>2, <1>4, <1>5 DEF Safe, LifecycleOwned, StillOwned, IsConnected, Active
<1> QED
  BY <1>6, <1>7, <1>8, <1>9 DEF Safe

\* The status moves among running, draining and paused.
LEMMA ExecutingMoves ==
  ASSUME Safe, ctl \in Controller, NEW c \in Controller, Core(c) = Core(ctl),
         ctl.status \in Executing, NEW s \in Executing,
         ctl' = [c EXCEPT !.status = s], StillOwned
  PROVE  Safe'
<1>1. /\ ctl'.conn = ctl.conn /\ ctl'.transition = ctl.transition
      /\ ctl'.gen = ctl.gen /\ ctl'.ready = ctl.ready /\ ctl'.estop = ctl.estop
      /\ ctl'.run.id = ctl.run.id /\ ctl'.run.gen = ctl.run.gen
      /\ ctl'.stop.run = ctl.stop.run /\ ctl'.stop.gen = ctl.stop.gen
      /\ ctl'.owner = ctl.owner /\ ctl'.status = s
  BY DEF Core, Controller
<1> USE <1>1 DEF Safe, Executing, Active
<1>2. ExecutingImpliesReady'
  BY DEF ExecutingImpliesReady, IsConnected
<1>3. OwnerIsCurrentRun'
  BY DEF OwnerIsCurrentRun
<1>4. StopOwnsRun'
  BY DEF StopOwnsRun
<1>5. LifecycleOwned'
  BY DEF LifecycleOwned, StillOwned, IsConnected
<1> QED
  BY <1>2, <1>3, <1>4, <1>5

LEMMA BeginProgramDrainingSafe ==
  ASSUME IInv, NEW r \in RunID, BeginProgramDraining(r)
  PROVE  Safe'
<1> ctl \in Controller /\ PcOK /\ Safe
  BY DEF IInv, TypeInv
<1>1. StillOwned
  BY OthersOwn, Identities, Kinds DEF BeginProgramDraining
<1>2. CASE ~CanBeginDraining(ctl, r)
  BY <1>1, <1>2, SafeFrame, CoreSame DEF BeginProgramDraining
<1>3. CASE CanBeginDraining(ctl, r)
  <2> DEFINE c == [ctl EXCEPT !.run.draining = TRUE]
             s == IF ctl.status = "paused" THEN "paused" ELSE "draining"
  <2>1. c \in Controller /\ Core(c) = Core(ctl)
    BY DEF Controller, RunType, Core
  <2>2. ctl' = [c EXCEPT !.status = s]
    BY <1>3 DEF BeginProgramDraining, Controller
  <2>3. ctl.status \in Executing /\ s \in Executing
    BY <1>3 DEF CanBeginDraining, Executing
  <2> HIDE DEF c, s
  <2> QED
    BY <1>1, <2>1, <2>2, <2>3, ExecutingMoves
<1> QED
  BY <1>2, <1>3

LEMMA PauseReturnsSafe ==
  ASSUME IInv, NEW i \in 1..MaxClients, PauseReturns(i)
  PROVE  Safe'
<1> ctl \in Controller /\ PcOK /\ Safe
  BY DEF IInv, TypeInv
<1>1. StillOwned
  BY OthersOwn, Identities, Kinds DEF PauseReturns
<1> DEFINE c == EndPauseTransition(ctl, Client(i))
<1>2. c \in Controller /\ Core(c) = Core(ctl)
  BY EndPauseTransitionType, CorePause
<1>3. \/ ctl' = ctl
      \/ ctl' = c
      \/ ctl.status \in {"running", "draining"} /\ ctl' = [c EXCEPT !.status = "paused"]
  BY DEF PauseReturns, CommitPause
<1> HIDE DEF c
<1>4. CASE ctl' = ctl \/ ctl' = c
  BY <1>1, <1>2, <1>4, SafeFrame, CoreSame
<1>5. CASE ctl.status \in {"running", "draining"} /\ ctl' = [c EXCEPT !.status = "paused"]
  <2>1. ctl.status \in Executing /\ "paused" \in Executing
    BY <1>5 DEF Executing
  <2> QED
    BY <1>1, <1>2, <1>5, <2>1, ExecutingMoves
<1> QED
  BY <1>3, <1>4, <1>5

LEMMA ResumeReturnsSafe ==
  ASSUME IInv, NEW i \in 1..MaxClients, ResumeReturns(i)
  PROVE  Safe'
<1> ctl \in Controller /\ PcOK /\ Safe
  BY DEF IInv, TypeInv
<1>1. StillOwned
  BY OthersOwn, Identities, Kinds DEF ResumeReturns
<1> DEFINE s == IF ctl.run.draining THEN "draining" ELSE "running"
<1>2. \/ ctl' = ctl
      \/ ctl.status = "paused" /\ ctl' = [ctl EXCEPT !.status = s]
  BY DEF ResumeReturns, CommitResume
<1>3. s \in Executing
  BY DEF Executing
<1> HIDE DEF s
<1>4. CASE ctl' = ctl
  BY <1>1, <1>4, SafeFrame, CoreSame
<1>5. CASE ctl.status = "paused" /\ ctl' = [ctl EXCEPT !.status = s]
  <2>1. ctl.status \in Executing
    BY <1>5 DEF Executing
  <2> QED
    BY <1>1, <1>3, <1>5, <2>1, ExecutingMoves
<1> QED
  BY <1>2, <1>4, <1>5

-----------------------------------------------------------------------------
(* Stop. *)

LEMMA StopProgramSafe ==
  ASSUME IInv, NEW r \in RunID, StopProgram(r)
  PROVE  Safe'
<1> ctl \in Controller /\ PcOK /\ Safe
  BY DEF IInv, TypeInv
<1>1. ctl.run.id = r /\ r # 0 /\ ctl.stop.run = 0
  BY DEF StopProgram, RunID
<1>2. ctl.status \in Executing
  BY DEF StopProgram, Safe, StopOwnsRun, Active, Executing
<1>3. /\ IsConnected(ctl) /\ ctl.transition = "stable" /\ ctl.gen # 0
      /\ ctl.gen = ctl.run.gen /\ ctl.estop = "clear"
  BY <1>2 DEF Safe, ExecutingImpliesReady
<1>4. /\ ctl'.stop.run = ctl.run.id /\ ctl'.stop.gen = ctl.run.gen
      /\ ctl'.run.id = ctl.run.id /\ ctl'.run.gen = ctl.run.gen
      /\ ctl'.owner = NoOwner /\ ctl'.status = "stopping" /\ ctl'.ready = "stopping"
      /\ ctl'.conn = ctl.conn /\ ctl'.transition = ctl.transition
      /\ ctl'.gen = ctl.gen /\ ctl'.estop = ctl.estop
  BY DEF StopProgram, BeginStop, Controller, RunType, NoStop
<1>5. StillOwned
  BY OthersOwn, Identities, Kinds DEF StopProgram
<1>6. ExecutingImpliesReady' /\ OwnerIsCurrentRun'
  BY <1>4, NobodyOwner DEF ExecutingImpliesReady, OwnerIsCurrentRun, Executing
<1>7. StopOwnsRun'
  BY <1>1, <1>3, <1>4 DEF StopOwnsRun, IsConnected
<1>8. LifecycleOwned'
  BY <1>1, <1>4, <1>5 DEF Safe, LifecycleOwned, StillOwned, IsConnected, Active
<1> QED
  BY <1>6, <1>7, <1>8 DEF Safe

LEMMA StopVerifiesSafe ==
  ASSUME IInv, NEW r \in RunID, StopVerifies(r)
  PROVE  Safe'
<1> ctl \in Controller /\ PcOK /\ Safe
  BY DEF IInv, TypeInv
<1>1. StillOwned
  BY OthersOwn, Identities, Kinds DEF StopVerifies
<1>2. CASE ~StopCurrent(ctl, r)
  BY <1>1, <1>2, SafeFrame, CoreSame DEF StopVerifies
<1>3. CASE StopCurrent(ctl, r)
  <2>1. ctl.stop.run # 0
    BY <1>3 DEF StopCurrent, RunID
  <2>2. ctl.status = "stopping"
    BY <2>1 DEF Safe, StopOwnsRun
  <2>3. /\ ctl'.ready = "verifying" /\ ctl'.status = ctl.status /\ ctl'.run = ctl.run
        /\ ctl'.stop = ctl.stop /\ ctl'.owner = ctl.owner /\ ctl'.conn = ctl.conn
        /\ ctl'.transition = ctl.transition /\ ctl'.gen = ctl.gen
        /\ ctl'.estop = ctl.estop
    BY <1>3 DEF StopVerifies, Controller
  <2>4. ExecutingImpliesReady' /\ OwnerIsCurrentRun' /\ StopOwnsRun'
    BY <2>2, <2>3 DEF Safe, ExecutingImpliesReady, OwnerIsCurrentRun, StopOwnsRun,
                      Executing, IsConnected
  <2>5. LifecycleOwned'
    BY <1>1, <2>3 DEF Safe, LifecycleOwned, StillOwned, IsConnected
  <2> QED
    BY <2>4, <2>5 DEF Safe
<1> QED
  BY <1>2, <1>3

LEMMA StopFinishesSafe ==
  ASSUME IInv, NEW r \in RunID, StopFinishes(r)
  PROVE  Safe'
<1> ctl \in Controller /\ PcOK /\ Safe
  BY DEF IInv, TypeInv
<1>1. StillOwned
  BY OthersOwn, Identities, Kinds DEF StopFinishes
<1>2. CASE ~MayFinishStop(ctl, r)
  BY <1>1, <1>2, SafeFrame, CoreSame DEF StopFinishes
<1>3. CASE MayFinishStop(ctl, r)
  <2>1. ctl.run.id # 0
    BY <1>3 DEF MayFinishStop, RunID
  <2>2. /\ ctl'.run.id = 0 /\ ctl'.owner = NoOwner /\ ctl'.status = "stopped"
        /\ ctl'.stop.run = 0 /\ ctl'.conn = ctl.conn
        /\ ctl'.transition = ctl.transition /\ ctl'.gen = ctl.gen
    <3>1. ctl' = FinishProgramStop(ctl)
      BY <1>3 DEF StopFinishes
    <3> QED
      BY <3>1 DEF FinishProgramStop, Controller, NoRun, NoStop
  <2>3. RunOver'
    BY <2>2, NobodyOwner DEF RunOver, Active
  \* No verification of this connection is under way: there was a run.
  <2>4. LifecycleOwned'
    BY <1>1, <2>1, <2>2, <2>3 DEF Safe, LifecycleOwned, StillOwned, IsConnected, RunOver
  <2> QED
    BY <2>3, <2>4, OverIsSafe
<1> QED
  BY <1>2, <1>3

-----------------------------------------------------------------------------
(* The event bridge and the watchdog. *)

LEMMA BridgeStatusSafe ==
  ASSUME IInv, BridgeStatus
  PROVE  Safe'
<1> ctl \in Controller /\ PcOK /\ Safe
  BY DEF IInv, TypeInv
<1>1. StillOwned
  BY NobodyMoves DEF BridgeStatus
<1> DEFINE d == IF NextEvent.kind = "Alarm" THEN NoteAlarm(ctl, FALSE) ELSE ctl
           e == [d EXCEPT !.machine = NextEvent.kind]
<1>2. d \in Controller /\ Core(d) = Core(ctl)
  BY NoteAlarmType, CoreAlarm
<1>3. NextEvent.kind \in MachineState
  BY DEF BridgeStatus, BridgeAccepts, IsStatus, MachineState
<1>4. ctl' = NoteStatusResponse(e, NextEvent.kind)
  BY DEF BridgeStatus, NoteStatusReport
<1> HIDE DEF d
<1>5. e \in Controller /\ Core(e) = Core(ctl)
  BY <1>2, <1>3 DEF Core, Controller
<1> HIDE DEF e
<1>6. CASE ctl' = e
  BY <1>1, <1>5, <1>6, SafeFrame
<1>7. CASE ctl' # e
  <2>1. e.estop # "clear"
        /\ ctl' = [e EXCEPT !.estop = IF NextEvent.kind = "Idle" THEN "clear" ELSE "recovery"]
    BY <1>4, <1>7 DEF NoteStatusResponse
  <2>2. /\ ctl.estop # "clear" /\ ctl'.conn = ctl.conn
        /\ ctl'.transition = ctl.transition /\ ctl'.gen = ctl.gen
        /\ ctl'.ready = ctl.ready /\ ctl'.status = ctl.status
        /\ ctl'.run.id = ctl.run.id /\ ctl'.run.gen = ctl.run.gen
        /\ ctl'.stop.run = ctl.stop.run /\ ctl'.stop.gen = ctl.stop.gen
        /\ ctl'.owner = ctl.owner
    BY <1>5, <2>1 DEF Core, Controller
  <2>3. ctl.status \notin Active
    BY <2>2 DEF Safe, ExecutingImpliesReady, StopOwnsRun, Active, Executing
  <2>4. RunOver
    BY <2>3, NoRunIsOver DEF Safe, LifecycleOwned
  <2> QED
    BY <1>1, <2>2, <2>4, RunEndsSafely DEF RunOver
<1> QED
  BY <1>6, <1>7

LEMMA BridgeEStopSafe ==
  ASSUME IInv, BridgeEStop \/ WatchdogEStop
  PROVE  Safe'
<1> ctl \in Controller /\ Safe
  BY DEF IInv, TypeInv
<1>1. StillOwned
  BY NobodyMoves DEF BridgeEStop, WatchdogEStop
<1>2. CASE WatchdogEStop
  BY <1>1, <1>2, EnterEStopSafe DEF WatchdogEStop
<1>3. CASE BridgeEStop
  <2>1. NoteInput(ctl, NextEvent) \in Controller
    BY NoteInputType
  <2> QED
    BY <1>1, <1>3, <2>1, CoreInput, EnterEStopSafe DEF BridgeEStop
<1> QED
  BY <1>2, <1>3

LEMMA BridgeClearsSafe ==
  ASSUME IInv, BridgeClears
  PROVE  Safe'
<1> ctl \in Controller /\ PcOK /\ Safe
  BY DEF IInv, TypeInv
<1>1. StillOwned
  BY OthersOwn, Identities, Kinds DEF BridgeClears
<1>2. CASE ctl.gen # bridge
  BY <1>1, <1>2, SafeFrame, CoreSame DEF BridgeClears
<1>3. CASE ctl.gen = bridge
  <2> DEFINE d == IF ctl.run.id # 0 THEN [FailRun(ctl) EXCEPT !.ready = "recovery"]
                  ELSE ctl
             e == [d EXCEPT !.owner = NoOwner, !.stop = NoStop]
  <2>1. d \in Controller
    BY FailRunType, ReadyType DEF Readiness
  <2>2. d.run.id = 0 /\ d.status \notin Active /\ d.transition = ctl.transition
    BY FailRunOver DEF Safe, LifecycleOwned, Controller, Active
  <2>3. ctl' = ClearConnectionState(e)
    BY <1>3 DEF BridgeClears, HandleTransportDisconnected
  <2> HIDE DEF d
  <2>4. /\ e.run.id = 0 /\ e.status \notin Active /\ e.transition = ctl.transition
        /\ e.owner = NoOwner /\ e.stop.run = 0 /\ e \in Controller
    BY ZenonT(60), <2>1, <2>2, ZeroType DEF Controller, NoStop
  <2> HIDE DEF e
  <2>5. /\ ctl'.run.id = 0 /\ ctl'.status \notin Active /\ ctl'.owner = NoOwner
        /\ ctl'.stop.run = 0 /\ ctl'.transition = ctl.transition
        /\ ctl'.conn = "disconnected" /\ ctl'.gen = 0
    BY <2>3, <2>4 DEF ClearConnectionState, Controller
  <2>6. RunOver'
    BY <2>5, NobodyOwner DEF RunOver
  <2>7. LifecycleOwned'
    BY <1>1, <2>5 DEF Safe, LifecycleOwned, StillOwned, IsConnected, Generation
  <2> QED
    BY <2>6, <2>7, OverIsSafe
<1> QED
  BY <1>2, <1>3

LEMMA BridgeStepSafe ==
  ASSUME IInv, BridgeStep
  PROVE  Safe'
<1> ctl \in Controller /\ PcOK /\ Safe
  BY DEF IInv, TypeInv
<1> USE SafeFrame, CoreSame, NobodyMoves, OthersOwn, Identities, Kinds
<1>1. CASE BridgeDiscards
  BY <1>1 DEF BridgeDiscards
<1>2. CASE BridgeStatus
  BY <1>2, BridgeStatusSafe
<1>3. CASE BridgeEStop
  BY <1>3, BridgeEStopSafe
<1>4. CASE BridgeLine
  <2>1. Core(ctl') = Core(ctl)
    BY <1>4, CoreInput DEF BridgeLine
  <2>2. StillOwned
    BY <1>4 DEF BridgeLine
  <2> QED
    BY <2>1, <2>2
<1>5. CASE BridgeFailsRun
  BY <1>5, FinishProgramFailureSafe DEF BridgeFailsRun, IInv, TypeInv, HeldOK
<1>6. CASE BridgeIgnoresDisconnect
  <2>1. ASSUME NEW n PROVE Core([ctl EXCEPT !.suppress = n]) = Core(ctl)
    BY DEF Core, Controller
  <2>2. ASSUME NEW n PROVE Core(NoteAttemptDisconnected(ctl, n)) = Core(ctl)
    BY DEF Core, Controller, NoteAttemptDisconnected
  <2> QED
    BY <1>6, <2>1, <2>2 DEF BridgeIgnoresDisconnect
<1>7. CASE BridgeDisconnected
  <2>1. Core(StopStatusPolling(ctl)) = Core(ctl)
    BY DEF Core, Controller, StopStatusPolling
  <2> QED
    BY <1>7, <2>1 DEF BridgeDisconnected
<1>8. CASE BridgeClears
  BY <1>8, BridgeClearsSafe
<1> QED
  BY <1>1, <1>2, <1>3, <1>4, <1>5, <1>6, <1>7, <1>8 DEF BridgeStep

-----------------------------------------------------------------------------
(* Connect and Disconnect. *)

LEMMA ConnectorMoves ==
  ASSUME PcOK, NEW l, Goto(Connector, l),
         l # "idle", pc[Connector] # "idle"
  PROVE  StillOwned
BY GotoHere, GotoElsewhere, Identities, Kinds DEF StillOwned

LEMMA CloserMoves ==
  ASSUME PcOK, NEW l, Goto(Closer, l), l # "idle", pc[Closer] # "idle"
  PROVE  StillOwned
BY GotoHere, GotoElsewhere, Identities, Kinds DEF StillOwned

LEMMA ConnectSafe ==
  ASSUME IInv, Connect
  PROVE  Safe'
<1> ctl \in Controller /\ PcOK /\ Safe
  BY DEF IInv, TypeInv
<1>1. ctl.run.id = 0 /\ ~IsConnected(ctl) /\ ctl.transition = "stable"
  BY DEF Connect, Admitted, Eligible, ProgramActive
<1>2. /\ ctl'.transition = "connecting" /\ ctl'.conn = "connecting"
      /\ ctl'.gen = ctl.gen /\ ctl'.run = ctl.run /\ ctl'.status = ctl.status
      /\ ctl'.stop = ctl.stop /\ ctl'.owner = ctl.owner /\ ctl'.ready = ctl.ready
  BY DEF Connect, BeginConnectAttempt, Controller
<1>3. RunOver'
  BY <1>1, <1>2, NoRunIsOver DEF RunOver
<1>4. pc'[Connector] = "open" /\ \A q \in Procs : q # Connector => pc'[q] = pc[q]
  BY GotoHere, GotoElsewhere, Identities DEF Connect
<1>5. LifecycleOwned'
  BY <1>1, <1>2, <1>3, <1>4, Identities, Kinds
     DEF Safe, LifecycleOwned, IsConnected, RunOver
<1> QED
  BY <1>3, <1>5, OverIsSafe

LEMMA CommitConnectSafe ==
  ASSUME IInv, CommitConnect
  PROVE  Safe'
<1> ctl \in Controller /\ PcOK /\ Safe
  BY DEF IInv, TypeInv
<1>1. CASE ctl.attemptErr
  <2>1. StillOwned
    BY <1>1, ConnectorMoves DEF CommitConnect
  <2> QED
    BY <1>1, <2>1, SafeFrame, CoreSame DEF CommitConnect
<1>2. CASE ~ctl.attemptErr
  <2> DEFINE l == IF ctl.ready = "normal" THEN "off" ELSE "baseline"
             d == FinishConnectAttempt(ctl)
  <2>1. ctl' = CommitConnection(ctl, opened)
        /\ pc' = [pc EXCEPT ![Connector] = "idle", ![Poller(opened)] = "idle",
                            ![Verifier(opened)] = l]
    BY <1>2 DEF CommitConnect
  <2>2. opened \in Generation
    BY BoundsAssumption DEF IInv, TypeInv, LinkOK, Bounded, Opened, CommitConnect,
       Generation
  <2>3. ctl.transition = "connecting"
    BY DEF Safe, LifecycleOwned, CommitConnect
  <2>4. RunOver
    BY <2>3, TransitionHasNoRun
  <2>5. /\ ctl'.conn = "connected" /\ ctl'.gen = opened /\ ctl'.transition = "stable"
        /\ ctl'.ready = IF ctl.ready = "normal" THEN "normal" ELSE "verifying"
        /\ ctl'.run = ctl.run /\ ctl'.status = ctl.status
        /\ ctl'.stop = ctl.stop /\ ctl'.owner = ctl.owner
    <3>1. /\ d \in Controller /\ d.run = ctl.run /\ d.status = ctl.status
          /\ d.stop = ctl.stop /\ d.owner = ctl.owner /\ d.ready = ctl.ready
          /\ d.transition = "stable"
      BY FinishConnectAttemptType DEF FinishConnectAttempt, Controller
    <3>2. ctl' = [d EXCEPT !.conn = "connected", !.estop = "clear", !.gen = opened,
                           !.polling = opened, !.alarmed = FALSE,
                           !.ready = IF @ = "normal" THEN @ ELSE "verifying"]
      BY <2>1 DEF CommitConnection
    <3> HIDE DEF d
    <3> QED
      BY <3>1, <3>2 DEF Controller
  <2>6. RunOver'
    BY <2>4, <2>5 DEF RunOver
  <2>7. /\ pc'[Connector] = "idle" /\ pc'[Verifier(opened)] = l
        /\ pc'[Closer] = pc[Closer]
    BY <2>1, <2>2, Identities, Kinds DEF PcOK
  <2>8. pc[Closer] = "idle"
    BY <2>3 DEF Safe, LifecycleOwned
  <2>9. LifecycleOwned'
    BY <2>2, <2>5, <2>6, <2>7, <2>8 DEF LifecycleOwned, IsConnected, RunOver, Generation
  <2> QED
    BY <2>6, <2>9, OverIsSafe
<1> QED
  BY <1>1, <1>2

LEMMA AbandonConnectSafe ==
  ASSUME IInv, AbandonConnect
  PROVE  Safe'
<1> ctl \in Controller /\ PcOK /\ Safe
  BY DEF IInv, TypeInv
<1>1. ctl.transition = "connecting"
  BY DEF Safe, LifecycleOwned, AbandonConnect
<1>2. RunOver
  BY <1>1, TransitionHasNoRun
<1> DEFINE d == FinishConnectAttempt(ctl)
<1>3. /\ d \in Controller /\ d.run = ctl.run /\ d.status = ctl.status
      /\ d.stop = ctl.stop /\ d.owner = ctl.owner /\ d.ready = ctl.ready
      /\ d.gen = ctl.gen /\ d.conn = ctl.conn /\ d.transition = "stable"
  <2>1. d \in Controller
    BY FinishConnectAttemptType
  <2>2. d.run = ctl.run /\ d.status = ctl.status /\ d.stop = ctl.stop
    BY DEF FinishConnectAttempt, Controller
  <2>3. d.owner = ctl.owner /\ d.ready = ctl.ready /\ d.gen = ctl.gen
    BY DEF FinishConnectAttempt, Controller
  <2>4. d.conn = ctl.conn /\ d.transition = "stable"
    BY DEF FinishConnectAttempt, Controller
  <2> QED
    BY <2>1, <2>2, <2>3, <2>4
<1>4. ctl' = [d EXCEPT !.conn = IF @ = "connecting" THEN "disconnected" ELSE @]
  BY DEF AbandonConnect, AbandonConnectAttempt
<1> HIDE DEF d
<1>5. /\ IsConnected(ctl') <=> IsConnected(ctl)
      /\ ctl'.gen = ctl.gen /\ ctl'.transition = "stable" /\ ctl'.ready = ctl.ready
      /\ ctl'.run = ctl.run /\ ctl'.status = ctl.status
      /\ ctl'.stop = ctl.stop /\ ctl'.owner = ctl.owner
  BY <1>3, <1>4 DEF Controller, IsConnected
<1>6. RunOver'
  BY <1>2, <1>5 DEF RunOver
<1>7. pc'[Connector] = "idle" /\ \A q \in Procs : q # Connector => pc'[q] = pc[q]
  BY GotoHere, GotoElsewhere, Identities DEF AbandonConnect
<1>8. LifecycleOwned'
  BY <1>1, <1>5, <1>6, <1>7, Identities, Kinds DEF Safe, LifecycleOwned, RunOver
<1> QED
  BY <1>6, <1>8, OverIsSafe

LEMMA ConnectorStepSafe ==
  ASSUME IInv, ConnectorStep
  PROVE  Safe'
<1> ctl \in Controller /\ PcOK /\ Safe
  BY DEF IInv, TypeInv
<1> USE SafeFrame, CoreSame, ConnectorMoves
<1>1. CASE OpenPort
  BY <1>1 DEF OpenPort
<1>2. CASE OpenFails
  BY <1>2 DEF OpenFails
<1>3. CASE NoteOpen
  <2>1. Core(ctl') = Core(ctl)
    BY <1>3 DEF NoteOpen, NoteOpened, Core, Controller
  <2>2. StillOwned
    BY <1>3 DEF NoteOpen
  <2> QED
    BY <2>1, <2>2
<1>4. CASE Validated
  BY <1>4 DEF Validated
<1>5. CASE ValidationFails
  BY <1>5 DEF ValidationFails
<1>6. CASE CommitConnect
  BY <1>6, CommitConnectSafe
<1>7. CASE SuppressCandidate
  <2>1. Core(ctl') = Core(ctl)
    BY <1>7 DEF SuppressCandidate, Core, Controller
  <2> QED
    BY <1>7, <2>1 DEF SuppressCandidate
<1>8. CASE CloseCandidate
  BY <1>8 DEF CloseCandidate
<1>9. CASE AbandonConnect
  BY <1>9, AbandonConnectSafe
<1> QED
  BY <1>1, <1>2, <1>3, <1>4, <1>5, <1>6, <1>7, <1>8, <1>9 DEF ConnectorStep

LEMMA DisconnectSafe ==
  ASSUME IInv, Disconnect
  PROVE  Safe'
<1> ctl \in Controller /\ PcOK /\ Safe
  BY DEF IInv, TypeInv
<1>1. ctl.transition = "stable"
  BY DEF Disconnect, Admitted, Eligible
<1> DEFINE d == IF ctl.run.id # 0 THEN [FailRun(ctl) EXCEPT !.ready = "recovery"]
                ELSE ctl
<1>2. d \in Controller
  BY FailRunType, ReadyType DEF Readiness
<1>3. /\ d.run.id = 0 /\ d.status \notin Active
      /\ d.conn = ctl.conn /\ d.gen = ctl.gen /\ d.ready \in {"recovery", ctl.ready}
  BY FailRunOver DEF Safe, LifecycleOwned, Controller, Active
<1>4. ctl' = [d EXCEPT !.transition = "disconnecting", !.stop = NoStop,
                       !.owner = NoOwner, !.suppress = ctl.gen]
  BY DEF Disconnect, BeginDisconnect
<1> HIDE DEF d
<1>5. /\ ctl'.run.id = 0 /\ ctl'.status \notin Active /\ ctl'.owner = NoOwner
      /\ ctl'.stop.run = 0 /\ ctl'.transition = "disconnecting"
      /\ ctl'.conn = ctl.conn /\ ctl'.gen = ctl.gen
      /\ ctl'.ready \in {"recovery", ctl.ready}
  BY <1>2, <1>3, <1>4 DEF Controller, NoStop
<1>6. RunOver'
  BY <1>5, NobodyOwner DEF RunOver
<1>7. pc'[Closer] = "stopPolling" /\ \A q \in Procs : q # Closer => pc'[q] = pc[q]
  BY GotoHere, GotoElsewhere, Identities DEF Disconnect
<1>8. LifecycleOwned'
  BY <1>1, <1>5, <1>6, <1>7, Identities, Kinds
     DEF Safe, LifecycleOwned, RunOver, IsConnected
<1> QED
  BY <1>6, <1>8, OverIsSafe

\* Disconnect ends, having failed to close or having cleared the connection.
LEMMA DisconnectEndsSafe ==
  ASSUME IInv, DisconnectFails \/ DisconnectClears
  PROVE  Safe'
<1> ctl \in Controller /\ PcOK /\ Safe
  BY DEF IInv, TypeInv
<1>1. ctl.transition = "disconnecting"
  BY DEF Safe, LifecycleOwned, DisconnectFails, DisconnectClears
<1>2. RunOver
  BY <1>1, TransitionHasNoRun
<1>3. /\ ctl'.run = ctl.run /\ ctl'.status = ctl.status /\ ctl'.stop = ctl.stop
      /\ ctl'.owner = ctl.owner /\ ctl'.transition = "stable"
      /\ \/ ctl'.conn = ctl.conn /\ ctl'.gen = ctl.gen /\ ctl'.ready = "recovery"
         \/ ctl'.conn = "disconnected" /\ ctl'.gen = 0
  <2>1. CASE DisconnectFails
    BY <2>1 DEF DisconnectFails, DisconnectFailed, Controller
  <2>2. CASE DisconnectClears
    BY <2>2 DEF DisconnectClears, ClearConnectionState, Controller
  <2> QED
    BY <2>1, <2>2
<1>4. RunOver'
  BY <1>2, <1>3 DEF RunOver
<1>5. pc'[Closer] = "idle" /\ \A q \in Procs : q # Closer => pc'[q] = pc[q]
  BY GotoHere, GotoElsewhere, Identities DEF DisconnectFails, DisconnectClears
<1>6. LifecycleOwned'
  BY <1>1, <1>3, <1>4, <1>5, Identities, Kinds
     DEF Safe, LifecycleOwned, RunOver, IsConnected, Generation
<1> QED
  BY <1>4, <1>6, OverIsSafe

LEMMA CloserStepSafe ==
  ASSUME IInv, CloserStep
  PROVE  Safe'
<1> ctl \in Controller /\ PcOK /\ Safe
  BY DEF IInv, TypeInv
<1> USE SafeFrame, CoreSame, CloserMoves
<1>1. CASE DisconnectStopsPolling
  <2>1. Core(ctl') = Core(ctl)
    BY <1>1 DEF DisconnectStopsPolling, StopStatusPolling, Core, Controller
  <2> QED
    BY <1>1, <2>1 DEF DisconnectStopsPolling
<1>2. CASE DisconnectDrains
  BY <1>2 DEF DisconnectDrains
<1>3. CASE DisconnectCloses
  BY <1>3 DEF DisconnectCloses
<1>4. CASE DisconnectReleases
  <2>1. Core(ctl') = Core(ctl)
    BY <1>4, CoreReservation, CoreSame DEF DisconnectReleases
  <2> QED
    BY <1>4, <2>1 DEF DisconnectReleases
<1>5. CASE DisconnectFails \/ DisconnectClears
  BY <1>5, DisconnectEndsSafe
<1> QED
  BY <1>1, <1>2, <1>3, <1>4, <1>5 DEF CloserStep

-----------------------------------------------------------------------------
(* The verification after a reconnect. *)

LEMMA VerifierMoves ==
  ASSUME PcOK, NEW g \in Generation, NEW l, Goto(Verifier(g), l),
         pc[Verifier(g)] # "off"
  PROVE  StillOwned
<1>1. pc'[Connector] = pc[Connector] /\ pc'[Closer] = pc[Closer]
  BY GotoElsewhere, Identities, Kinds
<1>2. ASSUME NEW h \in Generation, pc'[Verifier(h)] # "off"
      PROVE  pc[Verifier(h)] # "off"
  BY <1>2, GotoElsewhere, Identities
<1> QED
  BY <1>1, <1>2 DEF StillOwned

\* What a fresh status poll does to the controller: it takes or ends its
\* reservation.
LEMMA PollCore ==
  ASSUME ctl \in Controller, NEW p,
         PollAdmitted(p) \/ PollWritten(p) \/ \E l : PollWriteFails(p, l)
  PROVE  Core(ctl') = Core(ctl)
BY CoreReservation, CoreSame DEF PollAdmitted, PollWritten, PollWriteFails

LEMMA VerifierConcludesSafe ==
  ASSUME IInv, NEW g \in Generation, VerifierConcludes(g)
  PROVE  Safe'
<1> ctl \in Controller /\ PcOK /\ Safe
  BY DEF IInv, TypeInv
<1>1. pc[Verifier(g)] # "off"
  BY DEF VerifierConcludes
<1>2. StillOwned
  BY <1>1, VerifierMoves DEF VerifierConcludes
<1>3. CASE ctl' = ctl
  BY <1>2, <1>3, SafeFrame, CoreSame
<1>4. CASE ctl' # ctl
  <2>1. /\ ctl.gen = g
        /\ \/ ctl' = [ctl EXCEPT !.ready = "recovery"]
           \/ ctl' = [ctl EXCEPT !.ready = "normal"]
    BY <1>4 DEF VerifierConcludes, ConcludeVerification
  <2>2. RunOver
    BY <1>1, <2>1, NoRunIsOver DEF Safe, LifecycleOwned
  <2>3. /\ ctl'.run = ctl.run /\ ctl'.status = ctl.status /\ ctl'.stop = ctl.stop
        /\ ctl'.owner = ctl.owner /\ ctl'.transition = ctl.transition
        /\ ctl'.conn = ctl.conn /\ ctl'.gen = ctl.gen
    BY <2>1 DEF Controller
  <2>4. RunOver'
    BY <2>2, <2>3 DEF RunOver
  \* The only verifier of the current generation is the one that leaves.
  <2>5. pc'[Verifier(g)] = "off"
    BY GotoHere, Identities DEF VerifierConcludes
  <2>6. LifecycleOwned'
    BY <1>2, <2>1, <2>3, <2>4, <2>5
       DEF Safe, LifecycleOwned, StillOwned, RunOver, IsConnected
  <2> QED
    BY <2>4, <2>6, OverIsSafe
<1> QED
  BY <1>3, <1>4

LEMMA VerifierStepSafe ==
  ASSUME IInv, NEW g \in Generation, VerifierStep(g)
  PROVE  Safe'
<1> ctl \in Controller /\ PcOK /\ Safe
  BY DEF IInv, TypeInv
<1> USE SafeFrame, CoreSame, VerifierMoves
<1>1. CASE VerifierBaseline(g)
  BY <1>1 DEF VerifierBaseline
<1>2. CASE VerifierPoll(g)
  <2>1. Core(ctl') = Core(ctl)
    BY <1>2, PollCore DEF VerifierPoll
  <2>2. StillOwned
    BY <1>2 DEF VerifierPoll, PollAdmitted, PollWritten, PollWriteFails
  <2> QED
    BY <2>1, <2>2
<1>3. CASE VerifierIdle(g)
  BY <1>3 DEF VerifierIdle
<1>4. CASE VerifierConcludes(g)
  BY <1>4, VerifierConcludesSafe
<1> QED
  BY <1>1, <1>2, <1>3, <1>4 DEF VerifierStep

-----------------------------------------------------------------------------
(* The goroutines that own neither the transition nor a verification. *)

LEMMA RunnerStepSafe ==
  ASSUME IInv, NEW r \in RunID, RunnerStep(r)
  PROVE  Safe'
<1> ctl \in Controller /\ PcOK /\ Safe
  BY DEF IInv, TypeInv
<1> USE SafeFrame, CoreSame
<1>1. ASSUME NEW l, Goto(Runner(r), l) PROVE StillOwned
  BY <1>1, OthersOwn, Identities, Kinds
<1>2. CASE RunnerGate(r) \/ RunnerUnblocked(r) \/ RunnerCancelled(r) \/ DrainGate(r)
           \/ DrainIdle(r) \/ DrainResponse(r) \/ DrainCheck(r) \/ RunnerResponse(r)
  BY <1>1, <1>2 DEF RunnerGate, RunnerUnblocked, RunnerCancelled, DrainGate,
     DrainIdle, DrainResponse, DrainCheck, RunnerResponse
<1>3. CASE RunnerAdmit(r)
  <2>1. ASSUME NEW c \in Controller PROVE Core([c EXCEPT !.run.work = TRUE]) = Core(c)
    BY DEF Core, Controller, RunType
  <2>2. Core(ctl') = Core(ctl)
    BY <1>3, <2>1, CoreReservation, ReserveType, Identities DEF RunnerAdmit
  <2> QED
    BY <1>1, <1>3, <2>2 DEF RunnerAdmit
<1>4. CASE LineWritten(r) \/ LineWriteFails(r)
  BY <1>1, <1>4, CoreReservation DEF LineWritten, LineWriteFails
<1>5. CASE BeginProgramDraining(r)
  BY <1>5, BeginProgramDrainingSafe
<1>6. CASE DrainBaseline(r)
  <2>1. Core([ctl EXCEPT !.run.inSync = TRUE]) = Core(ctl)
    BY DEF Core, Controller, RunType
  <2> QED
    BY <1>1, <1>6, <2>1 DEF DrainBaseline
<1>7. CASE DrainPoll(r)
  <2>1. Core(ctl') = Core(ctl)
    BY <1>7, PollCore DEF DrainPoll
  <2>2. StillOwned
    BY <1>1, <1>7 DEF DrainPoll, PollAdmitted, PollWritten, PollWriteFails
  <2> QED
    BY <2>1, <2>2
<1>8. CASE RunnerFinish(r)
  BY <1>1, <1>8, FinishProgramSuccessSafe DEF RunnerFinish
<1>9. CASE RunnerFail(r)
  BY <1>1, <1>9, FinishProgramFailureSafe DEF RunnerFail, RunID
<1> QED
  BY <1>2, <1>3, <1>4, <1>5, <1>6, <1>7, <1>8, <1>9 DEF RunnerStep

LEMMA StopStepSafe ==
  ASSUME IInv, NEW r \in RunID, StopStep(r) \/ PendingStopWriteReturns(r)
  PROVE  Safe'
<1> ctl \in Controller /\ PcOK /\ Safe
  BY DEF IInv, TypeInv
<1> USE SafeFrame, CoreSame
<1>1. ASSUME NEW l, Goto(Stopper(r), l) PROVE StillOwned
  BY <1>1, OthersOwn, Identities, Kinds
<1>2. CASE StopCannotAcquire(r) \/ StopHoldWritten(r) \/ StopWriteTimesOut(r)
           \/ StopBanner(r) \/ StopBaseline(r) \/ StopIdle(r)
  BY <1>1, <1>2 DEF StopCannotAcquire, StopHoldWritten, StopWriteTimesOut,
     StopBanner, StopBaseline, StopIdle
<1>3. CASE StopAcquires(r) \/ StopResetWritten(r)
  BY <1>1, <1>3, CoreReservation DEF StopAcquires, StopResetWritten
<1>4. CASE StopMarksReset(r)
  <2>1. Core(ctl') = Core(ctl)
    BY <1>4, CoreReservation, CoreStopMark DEF StopMarksReset
  <2> QED
    BY <1>1, <1>4, <2>1 DEF StopMarksReset
<1>5. CASE PendingStopWriteReturns(r)
  BY <1>5, CoreReservation, NobodyMoves DEF PendingStopWriteReturns
<1>6. CASE StopVerifies(r)
  BY <1>6, StopVerifiesSafe
<1>7. CASE StopPoll(r)
  <2>1. Core(ctl') = Core(ctl)
    BY <1>7, PollCore DEF StopPoll
  <2>2. StillOwned
    BY <1>1, <1>7 DEF StopPoll, PollAdmitted, PollWritten, PollWriteFails
  <2> QED
    BY <2>1, <2>2
<1>8. CASE StopFinishes(r)
  BY <1>8, StopFinishesSafe
<1>9. CASE StopFails(r)
  BY <1>1, <1>9, FailProgramStopSafe DEF StopFails
<1> QED
  BY <1>2, <1>3, <1>4, <1>5, <1>6, <1>7, <1>8, <1>9 DEF StopStep

LEMMA ClientSafe ==
  ASSUME IInv, NEW i \in 1..MaxClients,
         \/ BeginPause(i) \/ BeginResume(i) \/ ClientStep(i) \/ ActionStep(i)
         \/ \E a \in Actions : BeginAction(i, a)
  PROVE  Safe'
<1> ctl \in Controller /\ PcOK /\ Safe
  BY DEF IInv, TypeInv
<1> USE SafeFrame, CoreSame
<1>1. ASSUME NEW l, Goto(Client(i), l) PROVE StillOwned
  BY <1>1, OthersOwn, Identities, Kinds
<1>2. CASE BeginPause(i) \/ BeginResume(i) \/ \E a \in Actions : BeginAction(i, a)
  <2>1. Core(ctl') = Core(ctl)
    BY <1>2, CorePause DEF BeginPause, BeginResume, BeginAction
  <2>2. StillOwned
    BY <1>1, <1>2 DEF BeginPause, BeginResume, BeginAction
  <2> QED
    BY <2>1, <2>2
<1>3. CASE ActionStep(i)
  <2>1. PICK a \in Actions : ActionAdmit(i, a) \/ ActionReturns(i, a)
    BY <1>3 DEF ActionStep
  <2> QED
    <3>1. Core(ctl') = Core(ctl)
      BY <2>1, CoreReservation DEF ActionAdmit, ActionReturns
    <3>2. StillOwned
      BY <1>1, <2>1 DEF ActionAdmit, ActionReturns
    <3> QED
      BY <3>1, <3>2
<1>4. CASE PauseAdmit(i) \/ ResumeAdmit(i)
  BY <1>1, <1>4, CoreReservation DEF PauseAdmit, ResumeAdmit
<1>5. CASE HoldWritten(i) \/ HoldWriteFails(i) \/ ResumeWritten(i) \/ ResumeWriteFails(i)
  BY <1>1, <1>5, CoreReservation
     DEF HoldWritten, HoldWriteFails, ResumeWritten, ResumeWriteFails
<1>6. CASE PauseReturns(i) \/ ResumeReturns(i)
  BY <1>6, PauseReturnsSafe, ResumeReturnsSafe
<1> QED
  BY <1>2, <1>3, <1>4, <1>5, <1>6 DEF ClientStep

LEMMA StatusPollSafe ==
  ASSUME IInv, NEW g \in Generation, BeginStatusPoll(g) \/ EndStatusPoll(g)
  PROVE  Safe'
<1> ctl \in Controller /\ PcOK /\ Safe
  BY DEF IInv, TypeInv
<1>1. StillOwned
  BY OthersOwn, Identities, Kinds DEF BeginStatusPoll, EndStatusPoll
<1>2. Core(ctl') = Core(ctl)
  BY CoreReservation DEF BeginStatusPoll, EndStatusPoll
<1> QED
  BY <1>1, <1>2, SafeFrame

-----------------------------------------------------------------------------
(* The invariant. *)

LEMMA SafeInit == Init => Safe
<1> SUFFICES ASSUME Init PROVE Safe
  OBVIOUS
<1>1. /\ ctl.run.id = 0 /\ ctl.status = "loaded" /\ ctl.stop.run = 0
      /\ ctl.owner.session = Nobody /\ ctl.conn = "disconnected" /\ ctl.gen = 0
      /\ ctl.transition = "stable"
  BY DEF Init, InitController, NoRun, NoStop, NoOwner
<1>2. pc[Connector] = "idle" /\ pc[Closer] = "idle"
  BY Identities, Kinds DEF Init, FirstLabel
<1>3. LifecycleOwned
  BY <1>1, <1>2 DEF LifecycleOwned, IsConnected, Active, Generation
<1> QED
  BY <1>1, <1>3 DEF Safe, ExecutingImpliesReady, OwnerIsCurrentRun, StopOwnsRun,
                    Executing

LEMMA SafeNext == IInv /\ [Next]_vars => Safe'
<1> SUFFICES ASSUME IInv, [Next]_vars PROVE Safe'
  OBVIOUS
<1> Safe
  BY DEF IInv
<1>1. CASE UNCHANGED vars
  BY <1>1, SafeFrame, CoreSame, NobodyMoves DEF vars
<1>2. CASE Machine
  BY <1>2, SafeFrame, CoreSame, NobodyMoves DEF Machine
<1>3. CASE PortDrops
  BY <1>3, SafeFrame, CoreSame, NobodyMoves DEF PortDrops
<1>4. CASE \E p \in Writers : WriteStalls(p)
  BY <1>4, SafeFrame, CoreSame, NobodyMoves DEF WriteStalls
<1>5. CASE \E r \in RunID : StartProgram(r) \/ RunnerStep(r)
  BY <1>5, StartProgramSafe, RunnerStepSafe
<1>6. CASE \E r \in RunID : StopProgram(r) \/ StopStep(r) \/ PendingStopWriteReturns(r)
  BY <1>6, StopProgramSafe, StopStepSafe
<1>7. CASE \E i \in 1..MaxClients :
             \/ BeginPause(i) \/ BeginResume(i) \/ ClientStep(i) \/ ActionStep(i)
             \/ \E a \in Actions : BeginAction(i, a)
  BY <1>7, ClientSafe
<1>8. CASE BridgeStep
  BY <1>8, BridgeStepSafe
<1>9. CASE WatchdogEStop
  BY <1>9, BridgeEStopSafe
<1>10. CASE \E g \in Generation : BeginStatusPoll(g) \/ EndStatusPoll(g)
  BY <1>10, StatusPollSafe
<1>11. CASE \E g \in Generation : VerifierStep(g)
  BY <1>11, VerifierStepSafe
<1>12. CASE Connect \/ ConnectorStep
  BY <1>12, ConnectSafe, ConnectorStepSafe
<1>13. CASE Disconnect \/ CloserStep
  BY <1>13, DisconnectSafe, CloserStepSafe
<1> QED
  BY <1>1, <1>2, <1>3, <1>4, <1>5, <1>6, <1>7, <1>8, <1>9, <1>10, <1>11, <1>12,
     <1>13 DEF Next

LEMMA IInvInit == Init => IInv
BY TypeInvInit, SafeInit DEF IInv

LEMMA IInvNext == IInv /\ [Next]_vars => IInv'
BY TypeInvNext, SafeNext DEF IInv

LEMMA IInvAlways == Spec => []IInv
BY IInvInit, IInvNext, PTL DEF Spec

\* A program executes only on a stable connection to the generation it was
\* started on, with the machine ready and neither an emergency stop nor a Stop
\* under way, however connects, disconnects, alarms, the watchdog, Pause and
\* Stop interleave with it.
THEOREM ExecutingReady == Spec => []ExecutingImpliesReady
<1>1. IInv => ExecutingImpliesReady
  BY DEF IInv, Safe
<1> QED
  BY <1>1, IInvAlways, PTL

\* The responses of the current generation are owned by the session of the
\* current run or by nobody: no line the machine sends is attributed to a run
\* that has ended (deliverResponseLocked).
THEOREM OwnerCurrent == Spec => []OwnerIsCurrentRun
<1>1. IInv => OwnerIsCurrentRun
  BY DEF IInv, Safe
<1> QED
  BY <1>1, IInvAlways, PTL

\* A run is stopping for exactly as long as a Stop operation of its own is in
\* c.stopOperation, on the generation it was started on.
THEOREM StopOwned == Spec => []StopOwnsRun
<1>1. IInv => StopOwnsRun
  BY DEF IInv, Safe
<1> QED
  BY <1>1, IInvAlways, PTL

\* The connection transition belongs to the Connect or Disconnect call that is
\* under way, a generation is current exactly while connected, and no program
\* runs while the connection is being verified.
THEOREM LifecycleCorrect == Spec => []LifecycleOwned
<1>1. IInv => LifecycleOwned
  BY DEF IInv, Safe
<1> QED
  BY <1>1, IInvAlways, PTL
=============================================================================
