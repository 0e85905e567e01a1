----------------------- MODULE ControllerMachine_proofs -----------------------
(***************************************************************************)
(* The realtime reservation, and the safety of the machine that rests on   *)
(* it: two goroutines are never inside Write on the same open port; no     *)
(* line of a stopped run reaches the machine behind the Stop's Ctrl-X; a   *)
(* paused machine is held.                                                 *)
(***************************************************************************)
EXTENDS Controller_proofs

\* A forced Disconnect retires a reservation whose write is still in flight.
\* If the operating system may hold a write of the program, or of a caller that
\* frees the reservation whoever has it, the next connection can be written to
\* under another goroutine's reservation.
Serialisable ==
  \/ "disconnect" \notin Callers
  \/ /\ ~LateEntry
     /\ \/ Stalls = {}
        \/ /\ Stalls \subseteq {"hold", "reset"}
           /\ Callers \cap {"pause", "machineHold", "softReset"} = {}

Forced == "disconnect" \in Callers

InWrite(p) == pc[p] \in DOMAIN WritingPC \/ stalled[p] # NoWrite

\* The coordinator of the current Stop keeps its reservation from Hold to Ctrl-X.
Holds(p) == /\ p[1] = "stopper" /\ ctl.stop.run = p[2]
            /\ pc[p] \in {"hold", "mark", "markErr", "reset", "resetErr"}

Owns(p) == \/ InWrite(p) /\ (Forced => port # 0 /\ Handle(p) = port)
           \/ Holds(p) /\ (Forced => port # 0)

\* What a client asks for is what the callers may ask for.
AskedFor == [holdAdmit |-> "pause", holdWrite |-> "pause",
             machineHold |-> "machineHold", machineHoldWrite |-> "machineHold",
             softReset |-> "softReset", softResetWrite |-> "softReset"]

Reserved == \A p \in Writers : Owns(p) => ctl.write = p
Asked == \A i \in 1..MaxClients :
           pc[Client(i)] \in DOMAIN AskedFor => AskedFor[pc[Client(i)]] \in Callers
Behind ==
  \A p \in Writers : stalled[p] # NoWrite =>
    /\ \/ pc[p] \in DOMAIN WritingPC
       \/ p[1] = "stopper" /\ pc[p] \in {"fail", "done"}
    /\ Forced => p[1] = "stopper" /\ pc[p] \in {"hold", "reset", "resetErr", "fail", "done"}
Older == \A p \in Writers : stalled[p].gen <= opened
Closing == /\ ~Forced => pc[Closer] = "idle"
           /\ pc[Closer] \in {"clear", "cleared"} => port = 0
Opening == ctl.transition = "connecting" => ctl.write = Nobody

\* Generations that no connection has been committed to have neither a poller
\* nor a verification.
Later ==
  \A g \in Generation :
    g > opened \/ (g = opened /\ pc[Connector] \in {"opened", "validate", "commit"}) =>
      pc[Poller(g)] = "off" /\ pc[Verifier(g)] = "off"

Serial == Reserved /\ Asked /\ Behind /\ Older /\ Closing /\ Opening /\ Later

RInv == IInv /\ Serial

\* How ownership passes in a step: from a free reservation to the one that takes it.
Passes ==
  /\ \A p \in Writers :
       Owns(p)' => Owns(p) \/ (ctl.write = Nobody /\ ctl'.write = p /\ pc'[p] # pc[p])
  /\ ctl.transition = "connecting" => ctl'.write \in {ctl.write, Nobody}

OwnLabels == DOMAIN WritingPC \cup {"mark", "markErr"}

LEMMA NobodyWrites == \A p \in Writers : p # Nobody
BY DEF Writers, Runners, Stoppers, ClientSet, Pollers, Verifiers, Runner, Stopper, Client,
       Poller, Verifier, Nobody

\* While nobody has the reservation nobody owns it.
LEMMA FreeMeansUnowned ==
  ASSUME Reserved, ctl.write = Nobody, NEW p \in Writers
  PROVE  ~Owns(p)
BY NobodyWrites DEF Reserved

\* Labels at which no kind of goroutine writes, and how the Stop operation changes:
\* it stays, ends, or begins with its coordinator at a label that owns nothing.
StopStays == \A r \in RunID : ctl'.stop.run = r => ctl.stop.run = r

LEMMA OwnsLeft ==
  ASSUME \A q \in Writers : pc'[q] = pc[q] \/ pc'[q] \notin OwnLabels,
         UNCHANGED <<stalled, port>>, StopStays
  PROVE  \A q \in Writers : Owns(q)' => Owns(q)
<1> SUFFICES ASSUME NEW q \in Writers, Owns(q)' PROVE Owns(q)
  OBVIOUS
<1>1. q \in Procs /\ Handle(q)' = Handle(q)
  BY DEF Procs, Handle
<1>2. pc'[q] = pc[q] \/ pc'[q] \notin OwnLabels
  OBVIOUS
<1>3. Holds(q)' => Holds(q)
  <2> HAVE Holds(q)'
  <2>1. pc'[q] = pc[q]
    BY <1>2 DEF Holds, OwnLabels, WritingPC
  <2>2. q[2] \in RunID
    BY DEF Holds, Writers, Runners, Stoppers, ClientSet, Pollers, Verifiers, Runner, Stopper, Client,
       Poller, Verifier
  <2> QED BY <2>1, <2>2 DEF Holds, StopStays
<1>4. InWrite(q)' => InWrite(q)
  BY <1>2 DEF InWrite, OwnLabels
<1> QED BY <1>1, <1>3, <1>4 DEF Owns

LEMMA OwnsMoved ==
  ASSUME PcOK, NEW p \in Procs, NEW l, Goto(p, l), l \notin OwnLabels,
         UNCHANGED <<stalled, port>>, StopStays
  PROVE  \A q \in Writers : Owns(q)' => Owns(q)
<1>1. \A q \in Writers : pc'[q] = pc[q] \/ pc'[q] \notin OwnLabels
  BY GotoHere, GotoElsewhere DEF Procs
<1> QED BY <1>1, OwnsLeft

LEMMA ReservedKept ==
  ASSUME Reserved, ctl'.write = ctl.write, \A q \in Writers : Owns(q)' => Owns(q)
  PROVE  Reserved' /\ Passes
BY DEF Reserved, Passes

LEMMA ReservedTaken ==
  ASSUME PcOK, Reserved, NEW p \in Writers, NEW l, Goto(p, l), l # pc[p], ctl.write = Nobody,
         ctl.transition # "connecting", ctl'.write = p, UNCHANGED <<stalled, port>>, StopStays
  PROVE  Reserved' /\ Passes
<1>1. pc'[p] # pc[p]
  BY GotoHere DEF Procs
<1> SUFFICES ASSUME NEW q \in Writers, q # p PROVE ~Owns(q)'
  BY <1>1 DEF Reserved, Passes
<1>2. p \in Procs /\ q \in Procs
  BY DEF Procs
<1>3. pc'[q] = pc[q] /\ Handle(q)' = Handle(q) /\ (InWrite(q)' <=> InWrite(q))
  BY <1>2, GotoElsewhere DEF Handle, InWrite
<1>4. Holds(q)' => Holds(q)
  <2> HAVE Holds(q)'
  <2>1. q[2] \in RunID
    BY DEF Holds, Writers, Runners, Stoppers, ClientSet, Pollers, Verifiers, Runner, Stopper, Client,
       Poller, Verifier
  <2> QED BY <1>3, <2>1 DEF Holds, StopStays
<1> QED BY <1>3, <1>4, FreeMeansUnowned DEF Owns

\* The caller's own write returns and its reservation is freed unconditionally
\* (endRealtimeWriteLocked): right because nobody else can have it.
LEMMA ReservedFreed ==
  ASSUME PcOK, Reserved, Behind, NEW p \in Writers, NEW l, l \notin OwnLabels, Goto(p, l),
         stalled \in [Writers -> WriteType],
         pc[p] \in DOMAIN WritingPC \ {"hold", "reset", "resetErr"},
         stalled' = [stalled EXCEPT ![p] = NoWrite], UNCHANGED port,
         ctl'.write = Nobody, StopStays
  PROVE  Reserved' /\ Passes
<1> SUFFICES ASSUME NEW q \in Writers, Owns(q)' PROVE FALSE
  BY DEF Reserved, Passes
<1>1. p \in Procs /\ q \in Procs
  BY DEF Procs
<1>2. CASE q = p
  <2>1. pc'[p] = l /\ stalled'[p] = NoWrite
    BY <1>1, GotoHere
  <2> QED BY <1>2, <2>1 DEF Owns, InWrite, Holds, OwnLabels, WritingPC
<1>3. CASE q # p
  <2>1. pc'[q] = pc[q] /\ stalled'[q] = stalled[q]
    BY <1>1, <1>3, GotoElsewhere
  <2>2. Handle(q)' = Handle(q) /\ (InWrite(q)' <=> InWrite(q))
    BY <2>1 DEF Handle, InWrite
  <2>3. Holds(q)' => Holds(q)
    <3> HAVE Holds(q)'
    <3>1. q[2] \in RunID
      BY DEF Holds, Writers, Runners, Stoppers, ClientSet, Pollers, Verifiers, Runner, Stopper,
         Client, Poller, Verifier
    <3> QED BY <2>1, <3>1 DEF Holds, StopStays
  <2>4. Owns(q)
    BY <2>2, <2>3 DEF Owns
  <2>5. InWrite(p)
    BY DEF InWrite
  <2>6. Forced => stalled[p] = NoWrite
    BY DEF Behind, WritingPC
  <2>7. Forced => port # 0 /\ Handle(p) = port
    BY <2>4, <2>6 DEF Owns, Handle
  <2>8. Owns(p)
    BY <2>5, <2>7 DEF Owns
  <2> QED BY <1>3, <2>4, <2>8 DEF Reserved
<1> QED BY <1>2, <1>3

\* A reservation freed by its token (endRealtimeWriteReservation).
LEMMA ReservedReturned ==
  ASSUME Reserved, NEW p \in Writers, stalled \in [Writers -> WriteType],
         pc'[p] \notin OwnLabels, \A q \in Procs : q # p => pc'[q] = pc[q],
         stalled' = [stalled EXCEPT ![p] = NoWrite], UNCHANGED port,
         ctl' = EndReservation(ctl, p), ctl \in Controller
  PROVE  Reserved' /\ Passes
<1>1. /\ ctl'.write = IF ctl.write = p THEN Nobody ELSE ctl.write
      /\ ctl'.stop = ctl.stop
  BY DEF EndReservation, EndRealtimeWrite, Controller
<1> SUFFICES ASSUME NEW q \in Writers, Owns(q)' PROVE Owns(q) /\ q # p
  BY <1>1 DEF Reserved, Passes
<1>2. q # p
  BY DEF Owns, InWrite, Holds, OwnLabels, WritingPC
<1>3. pc'[q] = pc[q] /\ stalled'[q] = stalled[q]
  BY <1>2 DEF Procs
<1>4. Handle(q)' = Handle(q) /\ (InWrite(q)' <=> InWrite(q)) /\ (Holds(q)' <=> Holds(q))
  BY <1>1, <1>3 DEF Handle, InWrite, Holds
<1> QED BY <1>2, <1>4 DEF Owns

-----------------------------------------------------------------------------
(* The critical sections that leave the reservation alone. *)

Leaves(c, d) == d.write = c.write /\ d.stop.run \in {c.stop.run, 0}

LEMMA LeavesStays ==
  ASSUME Leaves(ctl, ctl')
  PROVE  ctl'.write = ctl.write /\ StopStays
BY DEF Leaves, StopStays, RunID

LEMMA LeavesRun ==
  ASSUME NEW c \in Controller, NEW p, NEW r
  PROVE  /\ Leaves(c, c)
         /\ Leaves(c, StartRun(c, r))
         /\ Leaves(c, BeginPauseTransition(c, p))
         /\ Leaves(c, EndPauseTransition(c, p))
         /\ Leaves(c, FinishProgramSuccess(c))
         /\ Leaves(c, FailRun(c))
         /\ Leaves(c, FinishProgramFailure(c, r))
<1>1. Leaves(c, FailRun(c)) /\ FailRun(c) \in Controller
  BY FailRunType DEF Leaves, FailRun, Controller
<1>2. Leaves(c, FinishProgramFailure(c, r))
  BY <1>1 DEF Leaves, FinishProgramFailure, Controller
<1>3. Leaves(c, StartRun(c, r)) /\ Leaves(c, FinishProgramSuccess(c))
  BY DEF Leaves, StartRun, FinishProgramSuccess, Controller
<1>4. Leaves(c, BeginPauseTransition(c, p)) /\ Leaves(c, EndPauseTransition(c, p))
  BY DEF Leaves, BeginPauseTransition, EndPauseTransition, Controller
<1> QED BY <1>1, <1>2, <1>3, <1>4 DEF Leaves

LEMMA LeavesStop ==
  ASSUME NEW c \in Controller, NEW r, NEW is3, NEW recent
  PROVE  /\ Leaves(c, MarkStopResetWriteIssued(c))
         /\ Leaves(c, FinishProgramStop(c))
         /\ Leaves(c, FailProgramStop(c, r))
         /\ Leaves(c, NoteAlarm(c, is3))
         /\ Leaves(c, NoteResetBanner(c, recent))
<1>1. Leaves(c, MarkStopResetWriteIssued(c)) /\ Leaves(c, NoteResetBanner(c, recent))
  BY DEF Leaves, MarkStopResetWriteIssued, NoteResetBanner, Controller, StopType
<1>2. Leaves(c, FinishProgramStop(c))
  BY DEF Leaves, FinishProgramStop, Controller, NoStop
<1>3. Leaves(c, FailProgramStop(c, r))
  <2> DEFINE d == IF c.run.id = r THEN FailRun(c) ELSE c
  <2>1. d \in Controller /\ d.write = c.write
    BY FailRunType, LeavesRun DEF Leaves
  <2> HIDE DEF d
  <2>2. Leaves(c, [d EXCEPT !.ready = "recovery", !.stop = NoStop])
    BY <2>1 DEF Leaves, Controller, NoStop
  <2> QED BY <2>2 DEF d, FailProgramStop, Leaves
<1>4. Leaves(c, NoteAlarm(c, is3))
  BY DEF Leaves, NoteAlarm, Controller, StopType
<1> QED BY <1>1, <1>2, <1>3, <1>4

LEMMA LeavesBridge ==
  ASSUME NEW c \in Controller, NEW ev, NEW state \in MachineState
  PROVE  /\ Leaves(c, NoteInput(c, ev))
         /\ Leaves(c, EnterEStop(c))
         /\ Leaves(c, NoteStatusReport(c, state))
<1>1. Leaves(c, NoteInput(c, ev))
  BY LeavesStop DEF NoteInput, Leaves
<1>2. Leaves(c, EnterEStop(c))
  BY DEF Leaves, EnterEStop, Controller, NoStop
<1>3. Leaves(c, NoteStatusReport(c, state))
  <2> DEFINE d == IF state = "Alarm" THEN NoteAlarm(c, FALSE) ELSE c
             e == [d EXCEPT !.machine = state]
  <2>1. d \in Controller /\ Leaves(c, d)
    BY NoteAlarmType, LeavesStop DEF Leaves
  <2> HIDE DEF d
  <2>2. e \in Controller /\ Leaves(c, e)
    BY <2>1 DEF Leaves, Controller
  <2> HIDE DEF e
  <2>3. Leaves(c, NoteStatusResponse(e, state))
    BY <2>2 DEF Leaves, NoteStatusResponse, Controller
  <2> QED BY <2>3 DEF d, e, NoteStatusReport
<1> QED BY <1>1, <1>2, <1>3

LEMMA LeavesConnection ==
  ASSUME NEW c \in Controller, NEW g
  PROVE  /\ Leaves(c, BeginConnectAttempt(c))
         /\ Leaves(c, FinishConnectAttempt(c))
         /\ Leaves(c, NoteOpened(c, g))
         /\ Leaves(c, CommitConnection(c, g))
         /\ Leaves(c, AbandonConnectAttempt(c))
         /\ Leaves(c, NoteAttemptDisconnected(c, g))
         /\ Leaves(c, StopStatusPolling(c))
         /\ Leaves(c, ClearConnectionState(c))
         /\ Leaves(c, DisconnectFailed(c))
<1>1. /\ Leaves(c, BeginConnectAttempt(c)) /\ Leaves(c, FinishConnectAttempt(c))
      /\ Leaves(c, NoteOpened(c, g)) /\ Leaves(c, NoteAttemptDisconnected(c, g))
  BY DEF Leaves, BeginConnectAttempt, FinishConnectAttempt, NoteOpened,
         NoteAttemptDisconnected, Controller
<1>2. /\ Leaves(c, StopStatusPolling(c)) /\ Leaves(c, ClearConnectionState(c))
      /\ Leaves(c, DisconnectFailed(c))
  BY DEF Leaves, StopStatusPolling, ClearConnectionState, DisconnectFailed, Controller
<1> DEFINE d == FinishConnectAttempt(c)
<1>3. d \in Controller /\ d.write = c.write /\ d.stop = c.stop
  BY FinishConnectAttemptType DEF FinishConnectAttempt, Controller
<1>4. CommitConnection(c, g) =
        [d EXCEPT !.conn = "connected", !.estop = "clear", !.gen = g, !.polling = g,
                  !.alarmed = FALSE, !.ready = IF d.ready = "normal" THEN d.ready ELSE "verifying"]
  BY DEF CommitConnection
<1>5. AbandonConnectAttempt(c) =
        [d EXCEPT !.conn = IF d.conn = "connecting" THEN "disconnected" ELSE d.conn]
  BY DEF AbandonConnectAttempt
<1> HIDE DEF d
<1>6. Leaves(c, CommitConnection(c, g)) /\ Leaves(c, AbandonConnectAttempt(c))
  BY <1>3, <1>4, <1>5 DEF Leaves, Controller
<1> QED BY <1>1, <1>2, <1>6

LEMMA LeavesLost ==
  ASSUME NEW c \in Controller
  PROVE  Leaves(c, BeginDisconnect(c)) /\ Leaves(c, HandleTransportDisconnected(c))
<1> DEFINE d == IF c.run.id # 0 THEN [FailRun(c) EXCEPT !.ready = "recovery"] ELSE c
           e == [d EXCEPT !.owner = NoOwner, !.stop = NoStop]
<1>1. d \in Controller /\ d.write = c.write
  <2>1. FailRun(c) \in Controller /\ FailRun(c).write = c.write
    BY FailRunType, LeavesRun DEF Leaves
  <2> QED BY <2>1 DEF Controller
<1> HIDE DEF d
<1>2. Leaves(c, [d EXCEPT !.transition = "disconnecting", !.stop = NoStop,
                          !.owner = NoOwner, !.suppress = c.gen])
  BY <1>1 DEF Leaves, Controller, NoStop
<1>3. e \in Controller /\ e.write = c.write /\ e.stop.run = 0
  BY <1>1, ZeroType DEF Controller, NoStop
<1> HIDE DEF e
<1>4. Leaves(c, ClearConnectionState(e))
  BY <1>3 DEF Leaves, ClearConnectionState, Controller
<1> QED BY <1>2, <1>4 DEF d, e, BeginDisconnect, HandleTransportDisconnected

-----------------------------------------------------------------------------
(* Every action, by the goroutine that takes it. *)

LEMMA NotOwn ==
  \A l \in {"off", "gate", "admit", "blocked", "await", "drain", "drainGate", "baseline",
            "pollAdmit", "waitIdle", "check", "finish", "fail", "done", "acquire", "verify",
            "banner", "idle", "holdAdmit", "holdCommit", "holdEnd", "resumeAdmit",
            "resumeCommit", "machineHold", "machineResume", "softReset", "verified",
            "unverified", "open", "opened", "validate", "commit", "close", "closing",
            "abandon", "stopPolling", "join", "closeErr", "clear", "cleared", "read"} :
     l \notin OwnLabels
BY DEF OwnLabels, WritingPC

LEMMA QuietMove ==
  ASSUME PcOK, Reserved, NEW p \in Procs, NEW l, l \notin OwnLabels, Goto(p, l),
         UNCHANGED <<stalled, port>>, Leaves(ctl, ctl')
  PROVE  Reserved' /\ Passes
BY OwnsMoved, LeavesStays, ReservedKept

\* Nobody moves, and the port stays, or is lost.
LEMMA QuietStay ==
  ASSUME Reserved, UNCHANGED <<pc, stalled>>, port' \in {port, 0}, Leaves(ctl, ctl')
  PROVE  Reserved' /\ Passes
<1> SUFFICES ASSUME NEW q \in Writers, Owns(q)' PROVE Owns(q)
  BY LeavesStays, ReservedKept
<1>1. InWrite(q)' <=> InWrite(q)
  BY DEF InWrite
<1>2. Holds(q)' => Holds(q)
  <2> HAVE Holds(q)'
  <2>1. q[2] \in RunID
    BY DEF Holds, Writers, Runners, Stoppers, ClientSet, Pollers, Verifiers, Runner, Stopper, Client,
       Poller, Verifier
  <2> QED BY <2>1, LeavesStays DEF Holds, StopStays
<1>3. port' # 0 => port' = port /\ Handle(q)' = Handle(q)
  BY DEF Handle
<1> QED BY <1>1, <1>2, <1>3 DEF Owns

LEMMA SameLeaves == UNCHANGED ctl => Leaves(ctl, ctl')
BY DEF Leaves

LEMMA ReserveIs ==
  ASSUME NEW c \in Controller, NEW p \in Writers
  PROVE  Reserve(c, p).write = p /\ Reserve(c, p).stop = c.stop
BY DEF Reserve, Controller

LEMMA FreeIs ==
  ASSUME NEW c \in Controller
  PROVE  EndRealtimeWrite(c).write = Nobody /\ EndRealtimeWrite(c).stop = c.stop
BY DEF EndRealtimeWrite, Controller

LEMMA SameStopStays == ctl'.stop = ctl.stop => StopStays
BY DEF StopStays

LEMMA WrittenFrees ==
  ASSUME TypeInv, Reserved, Behind, NEW p \in Writers, NEW l, l \notin OwnLabels, Goto(p, l),
         pc[p] \in DOMAIN WritingPC \ {"hold", "reset", "resetErr"}, NEW msg,
         Delivered(p, msg) \/ WriteFails(p, msg), ctl' = EndRealtimeWrite(ctl)
  PROVE  Reserved' /\ Passes
<1>1. stalled' = [stalled EXCEPT ![p] = NoWrite] /\ UNCHANGED port
  BY DEF Delivered, WriteFails
<1> QED BY <1>1, ReservedFreed, FreeIs, SameStopStays DEF TypeInv, LinkOK

LEMMA AdmitTakes ==
  ASSUME TypeInv, Reserved, NEW p \in Writers, NEW l, Goto(p, l), l # pc[p], ctl.write = Nobody,
         ctl.transition # "connecting", ctl' = Reserve(ctl, p), UNCHANGED <<stalled, port>>
  PROVE  Reserved' /\ Passes
BY ReservedTaken, ReserveIs, SameStopStays DEF TypeInv

LEMMA PollReserved ==
  ASSUME TypeInv, Reserved, Behind, NEW p \in Writers,
         \/ PollAdmitted(p) \/ PollWritten(p)
         \/ \E next \in {"fail", "unverified"} : PollWriteFails(p, next)
  PROVE  Reserved' /\ Passes
<1> p \in Procs /\ PcOK /\ ctl \in Controller
  BY DEF Procs, TypeInv
<1>1. CASE PollAdmitted(p)
  <2>1. UNCHANGED <<stalled, port>>
    BY <1>1 DEF PollAdmitted, linkVars
  <2>2. CASE Goto(p, "waitIdle") /\ UNCHANGED ctl
    BY <2>1, <2>2, QuietMove, NotOwn, SameLeaves
  <2>3. CASE Admitted(ctl, "safety", FALSE) /\ ctl' = Reserve(ctl, p) /\ Goto(p, "pollWrite")
    BY <1>1, <2>1, <2>3, AdmitTakes DEF PollAdmitted, Admitted, Eligible
  <2> QED BY <1>1, <2>2, <2>3 DEF PollAdmitted
<1>2. CASE PollWritten(p)
  BY <1>2, WrittenFrees, NotOwn DEF PollWritten, WritingPC
<1>3. ASSUME NEW next \in {"fail", "unverified"}, PollWriteFails(p, next)
      PROVE  Reserved' /\ Passes
  <2>1. PICK l \in {next, "waitIdle"} : Goto(p, l)
    BY <1>3 DEF PollWriteFails
  <2> QED BY <1>3, <2>1, WrittenFrees, NotOwn DEF PollWriteFails, WritingPC
<1> QED BY <1>1, <1>2, <1>3

LEMMA RunnerReserved ==
  ASSUME IInv, Reserved, Behind, NEW r \in RunID, StartProgram(r) \/ RunnerStep(r)
  PROVE  Reserved' /\ Passes
<1> DEFINE p == Runner(r)
<1> p \in Writers /\ p \in Procs /\ TypeInv /\ PcOK /\ ctl \in Controller
  BY Identities DEF IInv, TypeInv
<1> HIDE DEF p
<1> USE QuietMove, NotOwn, SameLeaves
<1>1. CASE StartProgram(r)
  <2>1. PICK l \in {"gate", "drain"} : Goto(p, l)
    BY <1>1 DEF StartProgram, p
  <2> QED BY <1>1, <2>1, LeavesRun DEF StartProgram, linkVars
<1>2. CASE RunnerGate(r) \/ RunnerUnblocked(r) \/ RunnerCancelled(r) \/ DrainGate(r) \/ DrainIdle(r)
  BY <1>2 DEF p, RunnerGate, RunnerUnblocked, RunnerCancelled, DrainGate, DrainIdle, linkVars
<1>3. CASE RunnerAdmit(r)
  <2>1. UNCHANGED <<stalled, port>>
    BY <1>3 DEF RunnerAdmit, linkVars
  <2>2. CASE \E l \in {"fail", "gate", "blocked"} : Goto(p, l) /\ UNCHANGED ctl
    BY <2>1, <2>2
  <2>3. CASE /\ Goto(p, "write") /\ ctl.write = Nobody /\ MayWriteLine(ctl, r)
             /\ ctl' = [Reserve(ctl, p) EXCEPT !.run.work = TRUE]
    <3>1. Reserve(ctl, p) \in Controller
      BY ReserveType
    <3>2. ctl'.write = p /\ ctl'.stop = ctl.stop
      BY <2>3, <3>1, ReserveIs DEF Controller
    <3>3. ctl.transition = "stable"
      BY <2>3 DEF MayWriteLine, IInv, Safe, ExecutingImpliesReady, Executing
    <3> QED BY <2>1, <2>3, <3>2, <3>3, ReservedTaken, SameStopStays, <1>3 DEF RunnerAdmit, p
  <2> QED BY <1>3, <2>2, <2>3 DEF RunnerAdmit, p
<1>4. CASE LineWritten(r) \/ LineWriteFails(r)
  BY <1>4, WrittenFrees DEF p, LineWritten, LineWriteFails, WritingPC
<1>5. CASE RunnerResponse(r) \/ DrainResponse(r) \/ DrainCheck(r)
  <2>1. PICK l \in {"gate", "drain", "fail", "waitIdle", "drainGate", "finish"} : Goto(p, l)
    BY <1>5 DEF p, RunnerResponse, DrainResponse, DrainCheck, AfterLine
  <2> QED BY <1>5, <2>1 DEF RunnerResponse, DrainResponse, DrainCheck, linkVars
<1>6. CASE BeginProgramDraining(r) \/ DrainBaseline(r)
  <2>1. PICK l \in {"drainGate", "done", "pollAdmit", "fail"} : Goto(p, l)
    BY <1>6 DEF p, BeginProgramDraining, DrainBaseline
  <2>2. Leaves(ctl, ctl')
    BY ZenonT(60), <1>6 DEF BeginProgramDraining, DrainBaseline, Leaves, Controller
  <2> QED BY <1>6, <2>1, <2>2 DEF BeginProgramDraining, DrainBaseline, linkVars
<1>7. CASE DrainPoll(r)
  BY <1>7, PollReserved DEF p, DrainPoll, linkVars
<1>8. CASE RunnerFinish(r) \/ RunnerFail(r)
  <2>1. PICK l \in {"drainGate", "done"} : Goto(p, l)
    BY <1>8 DEF p, RunnerFinish, RunnerFail
  <2>2. Leaves(ctl, ctl')
    BY <1>8, LeavesRun DEF RunnerFinish, RunnerFail
  <2> QED BY <1>8, <2>1, <2>2 DEF RunnerFinish, RunnerFail, linkVars
<1> QED BY <1>1, <1>2, <1>3, <1>4, <1>5, <1>6, <1>7, <1>8 DEF RunnerStep

\* A Stop begins: its coordinator is at a label that owns nothing.
LEMMA StopProgramReserved ==
  ASSUME TypeInv, Reserved, NEW r \in RunID, StopProgram(r)
  PROVE  Reserved' /\ Passes
<1> PcOK /\ ctl \in Controller
  BY DEF TypeInv
<1>1. ctl'.write = ctl.write /\ ctl'.stop.run = r
  BY DEF StopProgram, BeginStop, Controller, NoStop
<1>2. UNCHANGED <<stalled, port>>
  BY DEF StopProgram, linkVars
<1> SUFFICES ASSUME NEW q \in Writers, Owns(q)' PROVE Owns(q)
  BY <1>1, ReservedKept
<1>3. q \in Procs /\ Stopper(r) \in Procs
  BY Identities DEF Procs
<1>4. CASE q = Stopper(r)
  <2>1. pc'[q] = "acquire"
    BY <1>3, <1>4, GotoHere DEF StopProgram
  <2> QED BY <1>2, <2>1 DEF Owns, InWrite, Handle, Holds, WritingPC
<1>5. CASE q # Stopper(r)
  <2>1. pc'[q] = pc[q]
    BY <1>3, <1>5, GotoElsewhere DEF StopProgram
  <2>2. ~Holds(q)'
    BY <1>1, <1>5 DEF Holds, Stopper, Writers, Runners, Stoppers, ClientSet, Pollers, Verifiers,
       Runner, Client, Poller, Verifier
  <2> QED BY <1>2, <2>1, <2>2 DEF Owns, InWrite, Handle
<1> QED BY <1>4, <1>5

LEMMA StopHoldWrittenReserved ==
  ASSUME TypeInv, Reserved, NEW r \in RunID, StopHoldWritten(r)
  PROVE  Reserved' /\ Passes
<1> DEFINE p == Stopper(r)
<1> p \in Writers /\ p \in Procs /\ PcOK /\ p[1] = "stopper"
  BY Identities, Kinds DEF TypeInv
<1>1. /\ stalled' = [stalled EXCEPT ![p] = NoWrite] /\ UNCHANGED <<port, ctl>>
      /\ pc[p] = "hold" /\ \E l \in {"mark", "markErr"} : Goto(p, l)
  BY DEF StopHoldWritten, Delivered, WriteFails
<1> SUFFICES ASSUME NEW q \in Writers, Owns(q)' PROVE Owns(q)
  BY <1>1, ReservedKept
<1>2. CASE q = p
  <2>1. pc'[p] \in {"mark", "markErr"} /\ stalled'[p] = NoWrite
    BY <1>1, GotoHere DEF TypeInv, LinkOK
  <2>2. Holds(p)' /\ (Forced => port # 0)
    BY <1>1, <1>2, <2>1 DEF Owns, InWrite, WritingPC
  <2> QED BY <1>1, <1>2, <2>2 DEF Owns, Holds
<1>3. CASE q # p
  <2>1. q \in Procs /\ pc'[q] = pc[q] /\ stalled'[q] = stalled[q]
    BY <1>1, <1>3, GotoElsewhere DEF Procs, TypeInv, LinkOK
  <2> QED BY <1>1, <2>1 DEF Owns, Holds, InWrite, Handle
<1> QED BY <1>2, <1>3

LEMMA StopMarksResetReserved ==
  ASSUME TypeInv, Reserved, Behind, NEW r \in RunID, StopMarksReset(r)
  PROVE  Reserved' /\ Passes
<1> DEFINE p == Stopper(r)
<1> /\ p \in Writers /\ p \in Procs /\ PcOK /\ p[1] = "stopper" /\ p[2] = r
    /\ ctl \in Controller
  BY Identities, Kinds DEF TypeInv, Stopper
<1>1. pc[p] \in {"mark", "markErr"} /\ UNCHANGED <<stalled, port>>
  BY DEF StopMarksReset
<1>2. CASE StopCurrent(ctl, r)
  <2>1. ctl'.write = ctl.write /\ ctl'.stop.run = ctl.stop.run /\ ctl.stop.run = r
    BY <1>2 DEF StopMarksReset, MarkStopResetWriteIssued, Controller, StopType, StopCurrent
  <2>2. \E l \in {"reset", "resetErr"} : Goto(p, l)
    BY <1>2 DEF StopMarksReset
  <2> SUFFICES ASSUME NEW q \in Writers, Owns(q)' PROVE Owns(q)
    BY <2>1, ReservedKept
  <2>3. CASE q = p
    BY <1>1, <2>1, <2>3 DEF Owns, Holds
  <2>4. CASE q # p
    <3>1. q \in Procs /\ pc'[q] = pc[q]
      BY <2>2, <2>4, GotoElsewhere DEF Procs
    <3> QED BY <1>1, <2>1, <3>1 DEF Owns, Holds, InWrite, Handle
  <2> QED BY <2>3, <2>4
<1>3. CASE ~StopCurrent(ctl, r)
  <2>1. Goto(p, "done") /\ ctl' = EndReservation(ctl, p)
    BY <1>3 DEF StopMarksReset
  <2>2. /\ ctl'.write = IF ctl.write = p THEN Nobody ELSE ctl.write
        /\ ctl'.stop = ctl.stop
    BY <2>1 DEF EndReservation, EndRealtimeWrite
  <2>3. \A q \in Writers : Owns(q)' => Owns(q)
    BY <1>1, <2>1, <2>2, OwnsMoved, NotOwn, SameStopStays
  <2>4. CASE ctl.write # p
    BY <2>2, <2>3, <2>4, ReservedKept
  <2>5. CASE ctl.write = p
    <3> SUFFICES ASSUME NEW q \in Writers, Owns(q)' PROVE FALSE
      BY <2>2, <2>3, <2>5 DEF Reserved, Passes
    <3>1. q = p
      BY <2>3, <2>5 DEF Reserved
    <3>2. pc'[p] = "done"
      BY <2>1, GotoHere
    <3>3. stalled[p] # NoWrite
      BY <1>1, <3>1, <3>2 DEF Owns, InWrite, Holds, WritingPC
    <3> QED BY <1>1, <3>3 DEF Behind, WritingPC
  <2> QED BY <2>4, <2>5
<1> QED BY <1>2, <1>3

LEMMA StopResetReserved ==
  ASSUME TypeInv, Reserved, NEW r \in RunID, StopResetWritten(r) \/ PendingStopWriteReturns(r)
  PROVE  Reserved' /\ Passes
<1> DEFINE p == Stopper(r)
<1> /\ p \in Writers /\ p \in Procs /\ PcOK /\ ctl \in Controller
    /\ stalled \in [Writers -> WriteType]
  BY Identities DEF TypeInv, LinkOK
<1>1. /\ stalled' = [stalled EXCEPT ![p] = NoWrite] /\ UNCHANGED port
      /\ ctl' = EndReservation(ctl, p)
  BY DEF StopResetWritten, PendingStopWriteReturns, Delivered, WriteFails
<1>2. pc'[p] \in {"verify", "fail", "done"}
  <2>1. CASE StopResetWritten(r)
    <3>1. PICK l \in {"verify", "fail"} : Goto(p, l)
      BY <2>1 DEF StopResetWritten
    <3> QED BY <3>1, GotoHere
  <2> QED BY <2>1 DEF PendingStopWriteReturns
<1>3. \A q \in Procs : q # p => pc'[q] = pc[q]
  BY GotoElsewhere DEF StopResetWritten, PendingStopWriteReturns
<1> HIDE DEF p
<1> QED BY <1>1, <1>2, <1>3, NotOwn, ReservedReturned

LEMMA StopReserved ==
  ASSUME TypeInv, Reserved, Behind, NEW r \in RunID,
         StopProgram(r) \/ StopStep(r) \/ PendingStopWriteReturns(r)
  PROVE  Reserved' /\ Passes
<1> DEFINE p == Stopper(r)
<1> p \in Writers /\ p \in Procs /\ PcOK /\ ctl \in Controller
  BY Identities DEF TypeInv
<1> HIDE DEF p
<1> USE QuietMove, NotOwn, SameLeaves
<1>1. CASE StopAcquires(r)
  BY <1>1, AdmitTakes DEF p, StopAcquires, Admitted, Eligible, linkVars
<1>2. CASE StopCannotAcquire(r) \/ StopWriteTimesOut(r)
  BY <1>2 DEF p, StopCannotAcquire, StopWriteTimesOut, linkVars
<1>3. CASE StopVerifies(r)
  <2>1. PICK l \in {"banner", "done"} : Goto(p, l)
    BY <1>3 DEF p, StopVerifies
  <2>2. Leaves(ctl, ctl')
    BY <1>3 DEF StopVerifies, Leaves, Controller
  <2> QED BY <1>3, <2>1, <2>2 DEF StopVerifies, linkVars
<1>4. CASE StopBanner(r) \/ StopBaseline(r) \/ StopIdle(r)
  <2>1. PICK l \in {"baseline", "fail", "pollAdmit", "finish"} : Goto(p, l)
    BY <1>4 DEF p, StopBanner, StopBaseline, StopIdle
  <2> QED BY <1>4, <2>1 DEF StopBanner, StopBaseline, StopIdle, linkVars
<1>5. CASE StopPoll(r)
  BY <1>5, PollReserved DEF p, StopPoll, linkVars
<1>6. CASE StopFinishes(r) \/ StopFails(r)
  <2>1. PICK l \in {"done", "fail"} : Goto(p, l)
    BY <1>6 DEF p, StopFinishes, StopFails
  <2>2. Leaves(ctl, ctl')
    BY <1>6, LeavesStop DEF StopFinishes, StopFails
  <2> QED BY <1>6, <2>1, <2>2 DEF StopFinishes, StopFails, linkVars
<1> QED BY <1>1, <1>2, <1>3, <1>4, <1>5, <1>6, StopProgramReserved, StopHoldWrittenReserved,
           StopMarksResetReserved, StopResetReserved DEF StopStep

LEMMA ClientReserved ==
  ASSUME TypeInv, Reserved, Behind, NEW i \in 1..MaxClients,
         \/ BeginPause(i) \/ BeginResume(i) \/ ClientStep(i)
         \/ \E a \in Actions : BeginAction(i, a)
         \/ ActionStep(i)
  PROVE  Reserved' /\ Passes
<1> DEFINE p == Client(i)
<1> p \in Writers /\ p \in Procs /\ PcOK /\ ctl \in Controller
  BY Identities DEF TypeInv
<1> HIDE DEF p
<1> USE QuietMove, NotOwn, SameLeaves
<1>1. CASE BeginPause(i) \/ BeginResume(i)
  BY <1>1, LeavesRun DEF p, BeginPause, BeginResume, linkVars
<1>2. CASE PauseAdmit(i) \/ ResumeAdmit(i)
  BY <1>2, AdmitTakes DEF p, PauseAdmit, ResumeAdmit, MayHold, Admitted, Eligible, linkVars
<1>3. CASE HoldWritten(i) \/ HoldWriteFails(i) \/ ResumeWritten(i) \/ ResumeWriteFails(i)
  BY <1>3, WrittenFrees DEF p, HoldWritten, HoldWriteFails, ResumeWritten, ResumeWriteFails,
     WritingPC
<1>4. CASE PauseReturns(i) \/ ResumeReturns(i)
  <2> DEFINE d == EndPauseTransition(ctl, Client(i))
  <2>1. d \in Controller /\ Leaves(ctl, d)
    BY LeavesRun, EndPauseTransitionType
  <2>2. \/ ctl' = ctl \/ ctl' = d \/ ctl' = [d EXCEPT !.status = "paused"]
        \/ \E st \in {"draining", "running"} : ctl' = [ctl EXCEPT !.status = st]
    BY <1>4 DEF PauseReturns, ResumeReturns, CommitPause, CommitResume
  <2> HIDE DEF d
  <2>3. Leaves(ctl, ctl')
    BY <2>1, <2>2 DEF Leaves, Controller
  <2> QED BY <1>4, <2>3 DEF p, PauseReturns, ResumeReturns, linkVars
<1>5. ASSUME NEW a \in Actions, BeginAction(i, a) \/ ActionAdmit(i, a)
      PROVE  Reserved' /\ Passes
  <2>1. a \notin OwnLabels
    BY NotOwn DEF Actions, ActionWrite
  <2>2. UNCHANGED <<stalled, port>>
    BY <1>5 DEF BeginAction, ActionAdmit, linkVars
  <2>3. CASE Goto(p, "idle") /\ UNCHANGED ctl
    BY <2>2, <2>3
  <2>4. CASE BeginAction(i, a)
    BY <2>1, <2>2, <2>4 DEF p, BeginAction
  <2>5. CASE /\ Admitted(ctl, AdmissionOf(ctl, a), FALSE)
             /\ ctl' = Reserve(ctl, p) /\ Goto(p, ActionWrite[a])
    <3>1. AdmissionOf(ctl, a) # "disconnect"
      BY DEF AdmissionOf
    <3>2. ctl.write = Nobody /\ ctl.transition # "connecting"
      BY <2>5, <3>1 DEF Admitted, Eligible
    <3>3. ActionWrite[a] # pc[p]
      <4>1. ActionWrite[a] # a /\ ActionWrite[a] # "idle"
        BY DEF Actions, ActionWrite
      <4> QED BY <1>5, <4>1 DEF p, BeginAction, ActionAdmit
    <3> QED BY <2>2, <2>5, <3>2, <3>3, AdmitTakes
  <2> QED BY <1>5, <2>3, <2>4, <2>5 DEF p, ActionAdmit
<1>6. ASSUME NEW a \in Actions, ActionReturns(i, a)
      PROVE  Reserved' /\ Passes
  <2>1. pc[p] \in DOMAIN WritingPC \ {"hold", "reset", "resetErr"}
    BY <1>6 DEF p, ActionReturns, Actions, ActionWrite, WritingPC
  <2>2. PICK msg : Delivered(p, msg) \/ WriteFails(p, msg)
    BY <1>6 DEF p, ActionReturns
  <2> QED BY <1>6, <2>1, <2>2, WrittenFrees DEF p, ActionReturns
<1> QED BY <1>1, <1>2, <1>3, <1>4, <1>5, <1>6 DEF ClientStep, ActionStep

LEMMA VerifierReserved ==
  ASSUME TypeInv, Reserved, Behind, NEW g \in Generation,
         BeginStatusPoll(g) \/ EndStatusPoll(g) \/ VerifierStep(g)
  PROVE  Reserved' /\ Passes
<1> DEFINE p == Verifier(g)
           q == Poller(g)
<1> /\ p \in Writers /\ p \in Procs /\ q \in Writers /\ q \in Procs
    /\ PcOK /\ ctl \in Controller
  BY Identities DEF TypeInv
<1> HIDE DEF p, q
<1> USE QuietMove, NotOwn, SameLeaves
<1>1. CASE BeginStatusPoll(g)
  BY <1>1, AdmitTakes DEF q, BeginStatusPoll, Admitted, Eligible, linkVars
<1>2. CASE EndStatusPoll(g)
  BY <1>2, WrittenFrees DEF q, EndStatusPoll, WritingPC
<1>3. CASE VerifierPoll(g)
  BY <1>3, PollReserved DEF p, VerifierPoll, linkVars
<1>4. CASE VerifierBaseline(g) \/ VerifierIdle(g)
  <2>1. PICK l \in {"pollAdmit", "unverified", "verified"} : Goto(p, l)
    BY <1>4 DEF p, VerifierBaseline, VerifierIdle
  <2> QED BY <1>4, <2>1 DEF VerifierBaseline, VerifierIdle, linkVars
<1>5. CASE VerifierConcludes(g)
  <2>1. Leaves(ctl, ctl')
    BY <1>5 DEF VerifierConcludes, ConcludeVerification, Leaves, Controller
  <2> QED BY <1>5, <2>1 DEF p, VerifierConcludes, linkVars
<1> QED BY <1>1, <1>2, <1>3, <1>4, <1>5 DEF VerifierStep

LEMMA LinkReserved ==
  ASSUME TypeInv, Reserved, Machine \/ PortDrops \/ WatchdogEStop \/ \E p \in Writers : WriteStalls(p)
  PROVE  Reserved' /\ Passes
<1> ctl \in Controller /\ PcOK
  BY DEF TypeInv
<1>1. CASE Machine \/ PortDrops
  BY <1>1, QuietStay, SameLeaves DEF Machine, PortDrops
<1>2. CASE WatchdogEStop
  <2>1. Leaves(ctl, ctl')
    BY <1>2, LeavesBridge DEF WatchdogEStop, MachineState
  <2> QED BY <1>2, <2>1, QuietStay DEF WatchdogEStop
<1>3. ASSUME NEW p \in Writers, WriteStalls(p)
      PROVE  Reserved' /\ Passes
  <2>1. /\ UNCHANGED <<ctl, pc, port>> /\ pc[p] \in DOMAIN WritingPC /\ stalled[p] = NoWrite
        /\ stalled' = [stalled EXCEPT ![p] = [gen |-> port, msg |-> WritingPC[pc[p]]]]
    BY <1>3 DEF WriteStalls
  <2> SUFFICES ASSUME NEW q \in Writers, Owns(q)' PROVE Owns(q)
    BY <2>1, ReservedKept
  <2>2. CASE q = p
    BY <2>1, <2>2 DEF Owns, InWrite, Handle, Holds, TypeInv, LinkOK
  <2>3. CASE q # p
    BY <2>1, <2>3 DEF Owns, InWrite, Handle, Holds, TypeInv, LinkOK
  <2> QED BY <2>2, <2>3
<1> QED BY <1>1, <1>2, <1>3

LEMMA BridgeReserved ==
  ASSUME TypeInv, Reserved, BridgeStep
  PROVE  Reserved' /\ Passes
<1> ctl \in Controller /\ PcOK /\ Bridge \in Procs
  BY Identities DEF TypeInv
<1> USE QuietMove, QuietStay, NotOwn, SameLeaves
<1>1. CASE BridgeDiscards
  BY <1>1 DEF BridgeDiscards
<1>2. CASE BridgeStatus
  <2>1. NextEvent.kind \in MachineState
    BY <1>2 DEF BridgeStatus, IsStatus, MachineState
  <2>2. Leaves(ctl, ctl')
    BY <1>2, <2>1, LeavesBridge DEF BridgeStatus
  <2> QED BY <1>2, <2>2 DEF BridgeStatus, BridgeAccepts
<1>3. CASE BridgeEStop
  <2> DEFINE d == NoteInput(ctl, NextEvent)
  <2>1. d \in Controller /\ Leaves(ctl, d)
    BY NoteInputType, LeavesBridge DEF MachineState
  <2>2. ctl' = EnterEStop(d)
    BY <1>3 DEF BridgeEStop
  <2> HIDE DEF d
  <2>3. Leaves(d, ctl')
    BY <2>1, <2>2, LeavesBridge DEF MachineState
  <2>4. Leaves(ctl, ctl')
    BY <2>1, <2>3 DEF Leaves
  <2> QED BY <1>3, <2>4 DEF BridgeEStop, BridgeAccepts
<1>4. CASE BridgeLine
  <2>1. Leaves(ctl, ctl')
    BY <1>4, LeavesBridge DEF BridgeLine, MachineState
  <2>2. UNCHANGED pc \/ Goto(Bridge, "fail")
    BY <1>4 DEF BridgeLine
  <2> QED BY <1>4, <2>1, <2>2 DEF BridgeLine, BridgeAccepts
<1>5. CASE BridgeFailsRun
  BY <1>5, LeavesRun DEF BridgeFailsRun, linkVars
<1>6. CASE BridgeIgnoresDisconnect
  <2>1. Leaves(ctl, [ctl EXCEPT !.suppress = 0]) /\ Leaves(ctl, NoteAttemptDisconnected(ctl, NextEvent.gen))
    BY LeavesConnection DEF Leaves, Controller
  <2> QED BY <1>6, <2>1 DEF BridgeIgnoresDisconnect
<1>7. CASE BridgeDisconnected
  BY <1>7, LeavesConnection DEF BridgeDisconnected
<1>8. CASE BridgeClears
  <2>1. Leaves(ctl, ctl')
    BY <1>8, LeavesLost DEF BridgeClears, Leaves
  <2> QED BY <1>8, <2>1 DEF BridgeClears, linkVars
<1> QED BY <1>1, <1>2, <1>3, <1>4, <1>5, <1>6, <1>7, <1>8 DEF BridgeStep

\* With the port closed under it, whoever wrote owns nothing that matters.
LEMMA ClosedReserved ==
  ASSUME PcOK, Reserved, NEW p \in Procs, NEW l, Goto(p, l), l \notin OwnLabels,
         UNCHANGED <<ctl, stalled>>, ClosesPort
  PROVE  Reserved' /\ Passes
<1>1. port' = 0
  BY DEF ClosesPort
<1> SUFFICES ASSUME NEW q \in Writers, Owns(q)' PROVE Owns(q)
  BY ReservedKept
<1>2. ~Forced
  BY <1>1 DEF Owns
<1>3. q \in Procs
  BY DEF Procs
<1>4. pc'[q] = pc[q] \/ pc'[q] = l
  BY <1>3, GotoHere, GotoElsewhere
<1> QED BY <1>2, <1>4 DEF Owns, InWrite, Holds, OwnLabels, WritingPC

LEMMA OpenPortReserved ==
  ASSUME IInv, Reserved, Older, Serialisable, OpenPort
  PROVE  Reserved' /\ Passes
<1> ctl \in Controller /\ PcOK /\ Connector \in Procs /\ TypeInv /\ Safe
  BY Identities DEF IInv, TypeInv
<1>1. /\ Goto(Connector, "opened") /\ UNCHANGED <<ctl, stalled>> /\ pc[Connector] = "open"
      /\ port' = opened + 1
  BY DEF OpenPort
<1>2. ctl.stop.run = 0
  BY <1>1, TransitionHasNoRun DEF Safe, LifecycleOwned, RunOver
<1> SUFFICES ASSUME NEW q \in Writers, Owns(q)' PROVE Owns(q)
  BY <1>1, ReservedKept
<1>3. q \in Procs /\ q # Connector
  BY DEF Procs, Writers, Runners, Stoppers, ClientSet, Pollers, Verifiers, Runner, Stopper, Client,
     Poller, Verifier, Connector
<1>4. pc'[q] = pc[q]
  BY <1>1, <1>3, GotoElsewhere
<1>5. ~Holds(q)'
  BY <1>1, <1>2 DEF Holds, Writers, Runners, Stoppers, ClientSet, Pollers, Verifiers, Runner,
     Stopper, Client, Poller, Verifier, RunID
<1>6. CASE ~Forced
  BY <1>1, <1>4, <1>5, <1>6 DEF Owns, InWrite
<1>7. CASE Forced
  <2>1. ~LateEntry
    BY <1>7 DEF Serialisable, Forced
  <2>2. pc[q] \in DOMAIN WritingPC => stalled[q] # NoWrite
    BY <2>1 DEF OpenPort
  <2>3. stalled[q] # NoWrite
    BY <1>1, <1>4, <1>5, <2>2 DEF Owns, InWrite
  <2>4. stalled[q].gen <= opened /\ stalled[q].gen = opened + 1
    BY <1>1, <1>5, <1>7, <2>3 DEF Owns, Handle, Older
  <2>5. opened \in Nat
    BY BoundsAssumption DEF TypeInv, LinkOK
  <2>6. stalled[q].gen \in Nat
    BY <2>4, <2>5
  <2> QED BY <2>4, <2>5, <2>6
<1> QED BY <1>6, <1>7

LEMMA ConnectorReserved ==
  ASSUME IInv, Reserved, Older, Serialisable, Connect \/ ConnectorStep
  PROVE  Reserved' /\ Passes
<1> ctl \in Controller /\ PcOK /\ Connector \in Procs
  BY Identities DEF IInv, TypeInv
<1> USE QuietMove, NotOwn, SameLeaves
<1>1. CASE Connect
  BY <1>1, LeavesConnection DEF Connect, linkVars
<1>2. CASE OpenPort
  BY <1>2, OpenPortReserved
<1>3. CASE OpenFails \/ Validated \/ ValidationFails
  BY <1>3 DEF OpenFails, Validated, ValidationFails, linkVars
<1>4. CASE NoteOpen
  <2>1. PICK l \in {"close", "validate"} : Goto(Connector, l)
    BY <1>4 DEF NoteOpen
  <2> QED BY <1>4, <2>1, LeavesConnection DEF NoteOpen, linkVars
<1>5. CASE CommitConnect
  <2>1. UNCHANGED <<stalled, port>>
    BY <1>5 DEF CommitConnect, linkVars
  <2>2. CASE ctl.attemptErr
    BY <1>5, <2>1, <2>2 DEF CommitConnect
  <2>3. CASE ~ctl.attemptErr
    <3>1. Leaves(ctl, ctl')
      BY <1>5, <2>3, LeavesConnection DEF CommitConnect
    <3>2. \A q \in Writers : pc'[q] = pc[q] \/ pc'[q] \in {"idle", "off", "baseline"}
      BY <1>5, <2>3 DEF CommitConnect, PcOK, Procs
    <3>3. \A q \in Writers : pc'[q] = pc[q] \/ pc'[q] \notin OwnLabels
      BY <3>2
    <3> QED BY <2>1, <3>1, <3>3, LeavesStays, OwnsLeft, ReservedKept
  <2> QED BY <2>2, <2>3
<1>6. CASE SuppressCandidate
  <2>1. Leaves(ctl, [ctl EXCEPT !.suppress = opened])
    BY DEF Leaves, Controller
  <2> QED BY <1>6, <2>1 DEF SuppressCandidate, linkVars
<1>7. CASE CloseCandidate
  BY <1>7, ClosedReserved DEF CloseCandidate
<1>8. CASE AbandonConnect
  BY <1>8, LeavesConnection DEF AbandonConnect, linkVars
<1> QED BY <1>1, <1>2, <1>3, <1>4, <1>5, <1>6, <1>7, <1>8 DEF ConnectorStep

LEMMA CloserReserved ==
  ASSUME TypeInv, Reserved, Closing, Disconnect \/ CloserStep
  PROVE  Reserved' /\ Passes
<1> ctl \in Controller /\ PcOK /\ Closer \in Procs
  BY Identities DEF TypeInv
<1> USE QuietMove, NotOwn, SameLeaves
<1>1. CASE Disconnect
  BY <1>1, LeavesLost DEF Disconnect, linkVars
<1>2. CASE DisconnectStopsPolling
  BY <1>2, LeavesConnection DEF DisconnectStopsPolling, linkVars
<1>3. CASE DisconnectDrains
  BY <1>3 DEF DisconnectDrains, linkVars
<1>4. CASE DisconnectCloses
  BY <1>4, ClosedReserved DEF DisconnectCloses
<1>5. CASE DisconnectFails
  BY <1>5, LeavesConnection DEF DisconnectFails, linkVars
<1>6. CASE DisconnectReleases
  <2>1. Forced /\ port' = 0
    BY <1>6 DEF Closing, DisconnectReleases, linkVars
  <2>2. ctl'.write \in {ctl.write, Nobody}
    BY <1>6 DEF DisconnectReleases, EndReservation, EndRealtimeWrite, Controller
  <2> QED BY <2>1, <2>2 DEF Owns, Reserved, Passes
<1>7. CASE DisconnectClears
  <2> DEFINE d == ClearConnectionState(ctl)
  <2>1. d \in Controller /\ Leaves(ctl, d)
    BY ClearConnectionStateType, LeavesConnection
  <2> HIDE DEF d
  <2>2. Leaves(ctl, [d EXCEPT !.transition = "stable"])
    BY <2>1 DEF Leaves, Controller
  <2> QED BY <1>7, <2>2 DEF d, DisconnectClears, linkVars
<1> QED BY <1>1, <1>2, <1>3, <1>4, <1>5, <1>6, <1>7 DEF CloserStep

-----------------------------------------------------------------------------
(* A step of the controller is a step of one goroutine. *)

Acts(p) ==
  \/ \E r \in RunID : p = Runner(r) /\ (StartProgram(r) \/ RunnerStep(r))
  \/ \E r \in RunID : p = Stopper(r) /\ (StopProgram(r) \/ StopStep(r))
  \/ \E i \in 1..MaxClients : /\ p = Client(i)
                             /\ \/ BeginPause(i) \/ BeginResume(i) \/ ClientStep(i)
                                \/ \E a \in Actions : BeginAction(i, a)
                                \/ ActionStep(i)
  \/ \E g \in Generation : p = Poller(g) /\ (BeginStatusPoll(g) \/ EndStatusPoll(g))
  \/ \E g \in Generation : p = Verifier(g) /\ VerifierStep(g)
  \/ p = Connector /\ (Connect \/ ConnectorStep)
  \/ p = Closer /\ (Disconnect \/ CloserStep)
  \/ p = Bridge /\ BridgeStep
  \/ p \in {Poller(opened), Verifier(opened)} /\ CommitConnect

LEMMA RunnerGoes ==
  ASSUME NEW r \in RunID, StartProgram(r) \/ RunnerStep(r)
  PROVE  \E l : Goto(Runner(r), l)
<1>1. CASE DrainPoll(r)
  BY <1>1 DEF DrainPoll, PollAdmitted, PollWritten, PollWriteFails
<1>2. CASE StartProgram(r) \/ RunnerGate(r) \/ RunnerAdmit(r) \/ RunnerUnblocked(r) \/ LineWritten(r)
           \/ LineWriteFails(r) \/ RunnerResponse(r) \/ RunnerCancelled(r)
  BY <1>2 DEF StartProgram, RunnerGate, RunnerAdmit, RunnerUnblocked, LineWritten, LineWriteFails,
     RunnerResponse, RunnerCancelled
<1>3. CASE BeginProgramDraining(r) \/ DrainGate(r) \/ DrainBaseline(r) \/ DrainIdle(r)
           \/ DrainResponse(r) \/ DrainCheck(r) \/ RunnerFinish(r) \/ RunnerFail(r)
  BY <1>3 DEF BeginProgramDraining, DrainGate, DrainBaseline, DrainIdle, DrainResponse, DrainCheck,
     RunnerFinish, RunnerFail
<1> QED BY <1>1, <1>2, <1>3 DEF RunnerStep

LEMMA StopperGoes ==
  ASSUME NEW r \in RunID, StopProgram(r) \/ StopStep(r)
  PROVE  \E l : Goto(Stopper(r), l)
<1>1. CASE StopPoll(r)
  BY <1>1 DEF StopPoll, PollAdmitted, PollWritten, PollWriteFails
<1>2. CASE StopProgram(r) \/ StopAcquires(r) \/ StopCannotAcquire(r) \/ StopHoldWritten(r)
           \/ StopMarksReset(r) \/ StopResetWritten(r) \/ StopWriteTimesOut(r)
  BY <1>2 DEF StopProgram, StopAcquires, StopCannotAcquire, StopHoldWritten, StopMarksReset,
     StopResetWritten, StopWriteTimesOut
<1>3. CASE StopVerifies(r) \/ StopBanner(r) \/ StopBaseline(r) \/ StopIdle(r) \/ StopFinishes(r)
           \/ StopFails(r)
  BY <1>3 DEF StopVerifies, StopBanner, StopBaseline, StopIdle, StopFinishes, StopFails
<1> QED BY <1>1, <1>2, <1>3 DEF StopStep

LEMMA ClientGoes ==
  ASSUME NEW i \in 1..MaxClients,
         \/ BeginPause(i) \/ BeginResume(i) \/ ClientStep(i)
         \/ \E a \in Actions : BeginAction(i, a)
         \/ ActionStep(i)
  PROVE  \E l : Goto(Client(i), l)
BY DEF BeginPause, BeginResume, ClientStep, PauseAdmit, HoldWritten, HoldWriteFails, PauseReturns,
   ResumeAdmit, ResumeWritten, ResumeWriteFails, ResumeReturns, BeginAction, ActionStep,
   ActionAdmit, ActionReturns

LEMMA VerifierGoes ==
  ASSUME NEW g \in Generation, VerifierStep(g)
  PROVE  \E l : Goto(Verifier(g), l)
<1>1. CASE VerifierPoll(g)
  BY <1>1 DEF VerifierPoll, PollAdmitted, PollWritten, PollWriteFails
<1>2. CASE VerifierBaseline(g) \/ VerifierIdle(g)
  BY <1>2 DEF VerifierBaseline, VerifierIdle
<1>3. CASE VerifierConcludes(g)
  BY <1>3 DEF VerifierConcludes
<1> QED BY <1>1, <1>2, <1>3 DEF VerifierStep

LEMMA ConnectorGoes ==
  ASSUME Connect \/ ConnectorStep
  PROVE  CommitConnect \/ \E l : Goto(Connector, l)
<1>1. CASE Connect \/ OpenPort \/ OpenFails \/ Validated \/ ValidationFails
  BY <1>1 DEF Connect, OpenPort, OpenFails, Validated, ValidationFails
<1>2. CASE NoteOpen
  BY <1>2 DEF NoteOpen
<1>3. CASE SuppressCandidate \/ CloseCandidate \/ AbandonConnect
  BY <1>3 DEF SuppressCandidate, CloseCandidate, AbandonConnect
<1> QED BY <1>1, <1>2, <1>3 DEF ConnectorStep

LEMMA CloserGoes ==
  ASSUME Disconnect \/ CloserStep
  PROVE  \E l : Goto(Closer, l)
<1>1. CASE Disconnect \/ DisconnectStopsPolling \/ DisconnectDrains \/ DisconnectCloses
  BY <1>1 DEF Disconnect, DisconnectStopsPolling, DisconnectDrains, DisconnectCloses
<1>2. CASE DisconnectFails \/ DisconnectReleases \/ DisconnectClears
  BY <1>2 DEF DisconnectFails, DisconnectReleases, DisconnectClears
<1> QED BY <1>1, <1>2 DEF CloserStep

LEMMA BridgeGoes ==
  ASSUME BridgeStep
  PROVE  UNCHANGED pc \/ \E l : Goto(Bridge, l)
BY DEF BridgeStep, BridgeDiscards, BridgeStatus, BridgeEStop, BridgeLine, BridgeFailsRun,
   BridgeIgnoresDisconnect, BridgeDisconnected, BridgeClears

LEMMA Stands ==
  ASSUME PcOK, [Next]_vars, NEW p \in Procs
  PROVE  pc'[p] = pc[p] \/ Acts(p)
<1> USE GotoElsewhere, Identities
<1>1. CASE UNCHANGED vars \/ Machine \/ PortDrops \/ WatchdogEStop
           \/ \E q \in Writers : WriteStalls(q)
  BY <1>1 DEF vars, Machine, PortDrops, WatchdogEStop, WriteStalls
<1>2. ASSUME NEW r \in RunID, StartProgram(r) \/ RunnerStep(r)
      PROVE  pc'[p] = pc[p] \/ Acts(p)
  BY <1>2, RunnerGoes DEF Acts
<1>3. ASSUME NEW r \in RunID, StopProgram(r) \/ StopStep(r) \/ PendingStopWriteReturns(r)
      PROVE  pc'[p] = pc[p] \/ Acts(p)
  <2>1. CASE PendingStopWriteReturns(r)
    BY <2>1 DEF PendingStopWriteReturns
  <2> QED BY <1>3, <2>1, StopperGoes DEF Acts
<1>4. ASSUME NEW i \in 1..MaxClients,
             \/ BeginPause(i) \/ BeginResume(i) \/ ClientStep(i)
             \/ \E a \in Actions : BeginAction(i, a)
             \/ ActionStep(i)
      PROVE  pc'[p] = pc[p] \/ Acts(p)
  BY <1>4, ClientGoes DEF Acts
<1>5. ASSUME NEW g \in Generation, BeginStatusPoll(g) \/ EndStatusPoll(g)
      PROVE  pc'[p] = pc[p] \/ Acts(p)
  BY <1>5 DEF Acts, BeginStatusPoll, EndStatusPoll
<1>6. ASSUME NEW g \in Generation, VerifierStep(g)
      PROVE  pc'[p] = pc[p] \/ Acts(p)
  BY <1>6, VerifierGoes DEF Acts
<1>7. CASE Connect \/ ConnectorStep
  <2>1. CASE CommitConnect
    <3>1. pc'[p] = pc[p] \/ p \in {Connector, Poller(opened), Verifier(opened)}
      BY <2>1 DEF CommitConnect, PcOK, Goto
    <3> QED BY <1>7, <2>1, <3>1 DEF Acts
  <2> QED BY <1>7, <2>1, ConnectorGoes DEF Acts
<1>8. CASE Disconnect \/ CloserStep
  BY <1>8, CloserGoes DEF Acts
<1>9. CASE BridgeStep
  BY <1>9, BridgeGoes DEF Acts
<1> QED BY <1>1, <1>2, <1>3, <1>4, <1>5, <1>6, <1>7, <1>8, <1>9 DEF Next

LEMMA WhoActs ==
  /\ \A r \in RunID : Acts(Runner(r)) => StartProgram(r) \/ RunnerStep(r)
  /\ \A r \in RunID : Acts(Stopper(r)) => StopProgram(r) \/ StopStep(r)
  /\ \A i \in 1..MaxClients : Acts(Client(i)) =>
       \/ BeginPause(i) \/ BeginResume(i) \/ ClientStep(i)
       \/ \E a \in Actions : BeginAction(i, a)
       \/ ActionStep(i)
  /\ \A g \in Generation : Acts(Poller(g)) =>
       BeginStatusPoll(g) \/ EndStatusPoll(g) \/ (CommitConnect /\ g = opened)
  /\ \A g \in Generation : Acts(Verifier(g)) => VerifierStep(g) \/ (CommitConnect /\ g = opened)
  /\ Acts(Connector) => Connect \/ ConnectorStep
  /\ Acts(Closer) => Disconnect \/ CloserStep
BY DEF Acts, Runner, Stopper, Client, Poller, Verifier, Connector, Closer, Bridge

-----------------------------------------------------------------------------
(* The rest of Serial. *)

LEMMA AskedNext ==
  ASSUME TypeInv, Asked, [Next]_vars
  PROVE  Asked'
<1> SUFFICES ASSUME NEW i \in 1..MaxClients, pc'[Client(i)] \in DOMAIN AskedFor
             PROVE  AskedFor[pc'[Client(i)]] \in Callers
  BY DEF Asked
<1> DEFINE p == Client(i)
<1>1. p \in Procs /\ PcOK
  BY Identities DEF TypeInv
<1>2. CASE pc'[p] = pc[p]
  BY <1>2 DEF Asked
<1>3. CASE Acts(p)
  <2> HIDE DEF p
  <2> USE <1>1, GotoHere DEF AskedFor
  <2>1. CASE BeginPause(i)
    BY <2>1 DEF p, BeginPause
  <2>2. CASE BeginResume(i) \/ ResumeAdmit(i) \/ ResumeWritten(i) \/ ResumeWriteFails(i)
             \/ ResumeReturns(i)
    <3>1. PICK l \in {"resumeAdmit", "resumeWrite", "resumeCommit", "idle"} : Goto(p, l)
      BY <2>2 DEF p, BeginResume, ResumeAdmit, ResumeWritten, ResumeWriteFails, ResumeReturns
    <3> QED BY <3>1 DEF p
  <2>3. CASE PauseAdmit(i)
    <3>1. pc[p] = "holdAdmit"
      BY <2>3 DEF p, PauseAdmit
    <3>2. PICK l \in {"holdWrite", "holdEnd"} : Goto(p, l)
      BY <2>3 DEF p, PauseAdmit
    <3> QED BY <3>1, <3>2 DEF p, Asked
  <2>4. CASE HoldWritten(i) \/ HoldWriteFails(i) \/ PauseReturns(i)
    <3>1. PICK l \in {"holdCommit", "holdEnd", "idle"} : Goto(p, l)
      BY <2>4 DEF p, HoldWritten, HoldWriteFails, PauseReturns
    <3> QED BY <3>1 DEF p
  <2>5. ASSUME NEW a \in Actions, BeginAction(i, a)
        PROVE  AskedFor[pc'[p]] \in Callers
    BY <2>5 DEF p, BeginAction, Actions, ActionWrite
  <2>6. ASSUME NEW a \in Actions, ActionAdmit(i, a)
        PROVE  AskedFor[pc'[p]] \in Callers
    <3>1. pc[p] = a
      BY <2>6 DEF p, ActionAdmit
    <3>2. PICK l \in {"idle", ActionWrite[a]} : Goto(p, l)
      BY <2>6 DEF p, ActionAdmit
    <3>3. pc'[p] = ActionWrite[a]
      BY <3>2 DEF p
    <3> QED BY <3>1, <3>3 DEF p, Asked, Actions, ActionWrite
  <2>7. ASSUME NEW a \in Actions, ActionReturns(i, a)
        PROVE  AskedFor[pc'[p]] \in Callers
    BY <2>7 DEF p, ActionReturns
  <2> QED BY <1>3, <2>1, <2>2, <2>3, <2>4, <2>5, <2>6, <2>7, WhoActs DEF p, ClientStep, ActionStep
<1> QED BY <1>1, <1>2, <1>3, Stands

\* The writes in flight and the port: where a step leaves them.
Flies(p) == /\ stalled' = stalled \/ stalled' = [stalled EXCEPT ![p] = NoWrite]
            /\ UNCHANGED <<port, opened>>

LEMMA Flights ==
  ASSUME TypeInv, [Next]_vars
  PROVE  \/ \E p \in Writers : Flies(p) \/ WriteStalls(p)
         \/ /\ stalled' = stalled
            /\ \/ UNCHANGED <<port, opened>> \/ OpenPort
               \/ PortDrops \/ CloseCandidate \/ DisconnectCloses
<1> USE Identities DEF Flies
<1>1. ASSUME NEW p \in Writers, NEW msg, Delivered(p, msg) \/ WriteFails(p, msg)
      PROVE  Flies(p)
  BY <1>1 DEF Delivered, WriteFails
<1>2. ASSUME NEW p \in Writers, NEW l, PollAdmitted(p) \/ PollWritten(p) \/ PollWriteFails(p, l)
      PROVE  Flies(p)
  BY <1>1, <1>2 DEF PollAdmitted, PollWritten, PollWriteFails, linkVars
<1>3. ASSUME NEW r \in RunID, StartProgram(r) \/ RunnerStep(r)
      PROVE  Flies(Runner(r))
  <2>1. CASE LineWritten(r) \/ LineWriteFails(r)
    BY <1>1, <2>1 DEF LineWritten, LineWriteFails
  <2>2. CASE DrainPoll(r)
    BY <1>2, <2>2 DEF DrainPoll, linkVars
  <2>3. CASE StartProgram(r) \/ RunnerGate(r) \/ RunnerAdmit(r) \/ RunnerUnblocked(r)
             \/ RunnerResponse(r) \/ RunnerCancelled(r)
    BY <2>3 DEF StartProgram, RunnerGate, RunnerAdmit, RunnerUnblocked, RunnerResponse,
       RunnerCancelled, linkVars
  <2>4. CASE BeginProgramDraining(r) \/ DrainGate(r) \/ DrainBaseline(r) \/ DrainIdle(r)
             \/ DrainResponse(r) \/ DrainCheck(r) \/ RunnerFinish(r) \/ RunnerFail(r)
    BY <2>4 DEF BeginProgramDraining, DrainGate, DrainBaseline, DrainIdle, DrainResponse,
       DrainCheck, RunnerFinish, RunnerFail, linkVars
  <2> QED BY <1>3, <2>1, <2>2, <2>3, <2>4 DEF RunnerStep
<1>4. ASSUME NEW r \in RunID, StopProgram(r) \/ StopStep(r) \/ PendingStopWriteReturns(r)
      PROVE  Flies(Stopper(r))
  <2>1. CASE StopHoldWritten(r) \/ StopResetWritten(r) \/ PendingStopWriteReturns(r)
    BY <1>1, <2>1 DEF StopHoldWritten, StopResetWritten, PendingStopWriteReturns
  <2>2. CASE StopPoll(r)
    BY <1>2, <2>2 DEF StopPoll, linkVars
  <2>3. CASE StopProgram(r) \/ StopAcquires(r) \/ StopCannotAcquire(r) \/ StopMarksReset(r)
             \/ StopWriteTimesOut(r) \/ StopVerifies(r) \/ StopBanner(r)
    BY <2>3 DEF StopProgram, StopAcquires, StopCannotAcquire, StopMarksReset, StopWriteTimesOut,
       StopVerifies, StopBanner, linkVars
  <2>4. CASE StopBaseline(r) \/ StopIdle(r) \/ StopFinishes(r) \/ StopFails(r)
    BY <2>4 DEF StopBaseline, StopIdle, StopFinishes, StopFails, linkVars
  <2> QED BY <1>4, <2>1, <2>2, <2>3, <2>4 DEF StopStep
<1>5. ASSUME NEW i \in 1..MaxClients,
             \/ BeginPause(i) \/ BeginResume(i) \/ ClientStep(i)
             \/ \E a \in Actions : BeginAction(i, a)
             \/ ActionStep(i)
      PROVE  Flies(Client(i))
  <2>1. CASE HoldWritten(i) \/ HoldWriteFails(i) \/ ResumeWritten(i) \/ ResumeWriteFails(i)
             \/ \E a \in Actions : ActionReturns(i, a)
    BY <1>1, <2>1 DEF HoldWritten, HoldWriteFails, ResumeWritten, ResumeWriteFails, ActionReturns
  <2>2. CASE BeginPause(i) \/ BeginResume(i) \/ PauseAdmit(i) \/ PauseReturns(i)
             \/ ResumeAdmit(i) \/ ResumeReturns(i)
    BY <2>2 DEF BeginPause, BeginResume, PauseAdmit, PauseReturns, ResumeAdmit, ResumeReturns,
       linkVars
  <2>3. CASE \E a \in Actions : BeginAction(i, a) \/ ActionAdmit(i, a)
    BY <2>3 DEF BeginAction, ActionAdmit, linkVars
  <2> QED BY <1>5, <2>1, <2>2, <2>3 DEF ClientStep, ActionStep
<1>6. ASSUME NEW g \in Generation, BeginStatusPoll(g) \/ EndStatusPoll(g)
      PROVE  Flies(Poller(g))
  BY <1>1, <1>6 DEF BeginStatusPoll, EndStatusPoll, linkVars
<1>7. ASSUME NEW g \in Generation, VerifierStep(g)
      PROVE  Flies(Verifier(g))
  <2>1. CASE VerifierPoll(g)
    BY <1>2, <2>1 DEF VerifierPoll, linkVars
  <2>2. CASE VerifierBaseline(g) \/ VerifierIdle(g) \/ VerifierConcludes(g)
    BY <2>2 DEF VerifierBaseline, VerifierIdle, VerifierConcludes, linkVars
  <2> QED BY <1>7, <2>1, <2>2 DEF VerifierStep
<1>8. CASE Connect \/ ConnectorStep
  <2>1. CASE Connect \/ OpenPort \/ OpenFails \/ NoteOpen \/ Validated
    BY <2>1 DEF Connect, OpenPort, OpenFails, NoteOpen, Validated, linkVars
  <2>2. CASE ValidationFails \/ CommitConnect \/ SuppressCandidate \/ CloseCandidate
             \/ AbandonConnect
    BY <2>2 DEF ValidationFails, CommitConnect, SuppressCandidate, CloseCandidate, AbandonConnect,
       linkVars
  <2> QED BY <1>8, <2>1, <2>2 DEF ConnectorStep
<1>9. CASE Disconnect \/ CloserStep
  BY <1>9 DEF Disconnect, CloserStep, DisconnectStopsPolling, DisconnectDrains, DisconnectCloses,
     DisconnectFails, DisconnectReleases, DisconnectClears, linkVars
<1>10. CASE BridgeStep
  <2>1. CASE BridgeDiscards \/ BridgeStatus \/ BridgeEStop \/ BridgeLine
    BY <2>1 DEF BridgeDiscards, BridgeStatus, BridgeEStop, BridgeLine, BridgeAccepts
  <2>2. CASE BridgeFailsRun \/ BridgeIgnoresDisconnect \/ BridgeDisconnected \/ BridgeClears
    BY <2>2 DEF BridgeFailsRun, BridgeIgnoresDisconnect, BridgeDisconnected, BridgeClears, linkVars
  <2> QED BY <1>10, <2>1, <2>2 DEF BridgeStep
<1>11. CASE UNCHANGED vars \/ Machine \/ PortDrops \/ WatchdogEStop
  BY <1>11 DEF vars, Machine, PortDrops, WatchdogEStop
<1> QED BY <1>3, <1>4, <1>5, <1>6, <1>7, <1>8, <1>9, <1>10, <1>11 DEF Next

LEMMA LaterNext ==
  ASSUME TypeInv, Later, [Next]_vars
  PROVE  Later'
<1> SUFFICES ASSUME NEW g \in Generation,
                    \/ g > opened'
                    \/ g = opened' /\ pc'[Connector] \in {"opened", "validate", "commit"}
             PROVE  pc'[Poller(g)] = "off" /\ pc'[Verifier(g)] = "off"
  BY DEF Later
<1> /\ PcOK /\ Connector \in Procs /\ Poller(g) \in Procs /\ Verifier(g) \in Procs
    /\ opened \in Nat
  BY Identities, BoundsAssumption DEF TypeInv, LinkOK
<1>1. /\ opened' = opened \/ OpenPort
  BY Flights DEF Flies, WriteStalls, PortDrops, CloseCandidate, DisconnectCloses
<1>2. CASE pc'[Connector] = pc[Connector]
  <2>1. opened' = opened
    BY <1>1, <1>2, GotoHere DEF OpenPort
  <2>2. pc[Poller(g)] = "off" /\ pc[Verifier(g)] = "off" /\ ~CommitConnect
    BY <1>2, <2>1 DEF Later, CommitConnect, Goto, PcOK
  <2>3. ~BeginStatusPoll(g) /\ ~EndStatusPoll(g) /\ ~VerifierStep(g)
    BY <2>2 DEF BeginStatusPoll, EndStatusPoll, VerifierStep, VerifierBaseline, VerifierPoll,
       VerifierIdle, VerifierConcludes, PollAdmitted, PollWritten, PollWriteFails
  <2> QED BY <2>2, <2>3, Stands, WhoActs
<1>3. CASE pc'[Connector] # pc[Connector]
  <2>1. Connect \/ ConnectorStep
    BY <1>3, Stands, WhoActs
  <2>2. \/ g > opened
        \/ g = opened /\ pc[Connector] \in {"opened", "validate", "commit"}
    <3>1. CASE OpenPort
      BY <3>1 DEF OpenPort, Generation
    <3>2. CASE ~OpenPort
      <4>1. CASE pc'[Connector] \in {"opened", "validate", "commit"}
        <5>1. CASE Connect \/ OpenFails \/ SuppressCandidate \/ CloseCandidate
                   \/ AbandonConnect
          BY <4>1, <5>1, GotoHere DEF Connect, OpenFails, SuppressCandidate, CloseCandidate,
             AbandonConnect
        <5>2. CASE NoteOpen \/ Validated \/ ValidationFails \/ CommitConnect
          BY <1>1, <3>2, <5>2 DEF NoteOpen, Validated, ValidationFails, CommitConnect
        <5> QED BY <2>1, <3>2, <5>1, <5>2 DEF ConnectorStep
      <4> QED BY <1>1, <3>2, <4>1
    <3> QED BY <3>1, <3>2
  <2>3. pc[Poller(g)] = "off" /\ pc[Verifier(g)] = "off"
    BY <2>2 DEF Later
  <2>4. CASE CommitConnect
    <3>1. \A p \in Procs : p \notin {Connector, Poller(opened), Verifier(opened)} => pc'[p] = pc[p]
      BY <2>4 DEF CommitConnect, Goto, PcOK
    <3>2. opened' = opened /\ pc'[Connector] \in {"close", "idle"}
      BY <2>4 DEF CommitConnect, Goto, PcOK, linkVars, Connector, Poller, Verifier
    <3>3. g # opened
      BY <3>2
    <3> QED BY <2>3, <3>1, <3>3 DEF Poller, Verifier, Connector
  <2>5. CASE ~CommitConnect
    <3>1. PICK l : Goto(Connector, l)
      BY <2>1, <2>5, ConnectorGoes
    <3> QED BY <2>3, <3>1, GotoElsewhere, Kinds
  <2> QED BY <2>4, <2>5
<1> QED BY <1>2, <1>3

\* A goroutine leaves a writing label only with its write, but for a Stop that
\* times out.
LEMMA WriteEnds ==
  ASSUME TypeInv, Later, NEW p \in Writers, Acts(p), pc[p] \in DOMAIN WritingPC,
         stalled'[p] # NoWrite
  PROVE  p[1] = "stopper" /\ pc'[p] = "fail"
<1> PcOK /\ p \in Procs /\ stalled \in [Writers -> WriteType]
  BY DEF TypeInv, LinkOK, Procs
<1>1. ASSUME NEW msg, Delivered(p, msg) \/ WriteFails(p, msg) PROVE FALSE
  BY <1>1 DEF Delivered, WriteFails
<1>2. ASSUME NEW l, PollAdmitted(p) \/ PollWritten(p) \/ PollWriteFails(p, l) PROVE FALSE
  BY <1>1, <1>2 DEF PollAdmitted, PollWritten, PollWriteFails, WritingPC
<1>3. ASSUME NEW r \in RunID, p = Runner(r), StartProgram(r) \/ RunnerStep(r) PROVE FALSE
  <2>1. CASE LineWritten(r) \/ LineWriteFails(r) \/ DrainPoll(r)
    BY <1>1, <1>2, <1>3, <2>1 DEF LineWritten, LineWriteFails, DrainPoll, PollRejected, WritingPC
  <2>2. CASE StartProgram(r) \/ RunnerGate(r) \/ RunnerAdmit(r) \/ RunnerUnblocked(r)
             \/ RunnerResponse(r) \/ RunnerCancelled(r) \/ BeginProgramDraining(r) \/ DrainGate(r)
    BY <1>3, <2>2 DEF StartProgram, RunnerGate, RunnerAdmit, RunnerUnblocked, RunnerResponse,
       RunnerCancelled, BeginProgramDraining, DrainGate, WritingPC
  <2>3. CASE DrainBaseline(r) \/ DrainIdle(r) \/ DrainResponse(r) \/ DrainCheck(r)
             \/ RunnerFinish(r) \/ RunnerFail(r)
    BY <1>3, <2>3 DEF DrainBaseline, DrainIdle, DrainResponse, DrainCheck, RunnerFinish,
       RunnerFail, WritingPC
  <2> QED BY <1>3, <2>1, <2>2, <2>3 DEF RunnerStep
<1>4. ASSUME NEW r \in RunID, p = Stopper(r), StopProgram(r) \/ StopStep(r)
      PROVE  pc'[p] = "fail"
  <2>1. CASE StopWriteTimesOut(r)
    BY <1>4, <2>1, GotoHere DEF StopWriteTimesOut
  <2>2. CASE StopHoldWritten(r) \/ StopResetWritten(r) \/ StopPoll(r)
    BY <1>1, <1>2, <1>4, <2>2 DEF StopHoldWritten, StopResetWritten, StopPoll, WritingPC
  <2>3. CASE StopProgram(r) \/ StopAcquires(r) \/ StopCannotAcquire(r) \/ StopMarksReset(r)
             \/ StopVerifies(r) \/ StopBanner(r)
    BY <1>4, <2>3 DEF StopProgram, StopAcquires, StopCannotAcquire, StopMarksReset, StopVerifies,
       StopBanner, WritingPC
  <2>4. CASE StopBaseline(r) \/ StopIdle(r) \/ StopFinishes(r) \/ StopFails(r)
    BY <1>4, <2>4 DEF StopBaseline, StopIdle, StopFinishes, StopFails, WritingPC
  <2> QED BY <1>4, <2>1, <2>2, <2>3, <2>4 DEF StopStep
<1>5. ASSUME NEW i \in 1..MaxClients, p = Client(i),
             \/ BeginPause(i) \/ BeginResume(i) \/ ClientStep(i)
             \/ \E a \in Actions : BeginAction(i, a)
             \/ ActionStep(i)
      PROVE  FALSE
  <2>1. CASE HoldWritten(i) \/ HoldWriteFails(i) \/ ResumeWritten(i) \/ ResumeWriteFails(i)
             \/ \E a \in Actions : ActionReturns(i, a)
    BY <1>1, <1>5, <2>1 DEF HoldWritten, HoldWriteFails, ResumeWritten, ResumeWriteFails,
       ActionReturns
  <2>2. CASE BeginPause(i) \/ BeginResume(i) \/ PauseAdmit(i) \/ PauseReturns(i)
             \/ ResumeAdmit(i) \/ ResumeReturns(i)
    BY <1>5, <2>2 DEF BeginPause, BeginResume, PauseAdmit, PauseReturns, ResumeAdmit,
       ResumeReturns, WritingPC
  <2>3. CASE \E a \in Actions : BeginAction(i, a) \/ ActionAdmit(i, a)
    BY <1>5, <2>3 DEF BeginAction, ActionAdmit, WritingPC, Actions, ActionWrite
  <2> QED BY <1>5, <2>1, <2>2, <2>3 DEF ClientStep, ActionStep
<1>6. ASSUME NEW g \in Generation, p = Poller(g), BeginStatusPoll(g) \/ EndStatusPoll(g)
      PROVE  FALSE
  BY <1>1, <1>6 DEF BeginStatusPoll, EndStatusPoll, WritingPC
<1>7. ASSUME NEW g \in Generation, p = Verifier(g), VerifierStep(g)
      PROVE  FALSE
  <2>1. CASE VerifierPoll(g)
    BY <1>2, <1>7, <2>1 DEF VerifierPoll, WritingPC
  <2>2. CASE VerifierBaseline(g) \/ VerifierIdle(g) \/ VerifierConcludes(g)
    BY <1>7, <2>2 DEF VerifierBaseline, VerifierIdle, VerifierConcludes, WritingPC
  <2> QED BY <1>7, <2>1, <2>2 DEF VerifierStep
<1>8. ASSUME p \in {Poller(opened), Verifier(opened)}, CommitConnect PROVE FALSE
  <2>1. opened \in Generation
    BY <1>8, BoundsAssumption DEF CommitConnect, TypeInv, Bounded, Opened, LinkOK, Generation
  <2> QED BY <1>8, <2>1 DEF CommitConnect, Later, WritingPC
<1>9. p \notin {Connector, Closer, Bridge}
  BY DEF Writers, Runners, Stoppers, ClientSet, Pollers, Verifiers, Runner, Stopper, Client,
     Poller, Verifier, Connector, Closer, Bridge
<1> QED BY <1>3, <1>4, <1>5, <1>6, <1>7, <1>8, <1>9, Kinds DEF Acts

LEMMA OutOfFail ==
  ASSUME TypeInv, NEW r \in RunID, StopProgram(r) \/ StopStep(r),
         pc[Stopper(r)] \in {"fail", "done"}
  PROVE  pc'[Stopper(r)] = "done"
<1> PcOK /\ Stopper(r) \in Procs
  BY Identities DEF TypeInv
<1>1. CASE StopFails(r)
  BY <1>1, GotoHere DEF StopFails
<1>2. CASE StopProgram(r) \/ StopAcquires(r) \/ StopCannotAcquire(r) \/ StopHoldWritten(r)
           \/ StopMarksReset(r) \/ StopResetWritten(r) \/ StopWriteTimesOut(r)
  BY <1>2 DEF StopProgram, StopAcquires, StopCannotAcquire, StopHoldWritten, StopMarksReset,
     StopResetWritten, StopWriteTimesOut
<1>3. CASE StopVerifies(r) \/ StopBanner(r) \/ StopBaseline(r) \/ StopIdle(r) \/ StopFinishes(r)
  BY <1>3 DEF StopVerifies, StopBanner, StopBaseline, StopIdle, StopFinishes
<1>4. CASE StopPoll(r)
  BY <1>4 DEF StopPoll, PollAdmitted, PollWritten, PollWriteFails
<1> QED BY <1>1, <1>2, <1>3, <1>4 DEF StopStep

LEMMA BehindNext ==
  ASSUME TypeInv, Later, Behind, Asked, Serialisable, [Next]_vars
  PROVE  Behind'
<1> SUFFICES ASSUME NEW p \in Writers, stalled'[p] # NoWrite
             PROVE  /\ \/ pc'[p] \in DOMAIN WritingPC
                       \/ p[1] = "stopper" /\ pc'[p] \in {"fail", "done"}
                    /\ Forced => p[1] = "stopper"
                                 /\ pc'[p] \in {"hold", "reset", "resetErr", "fail", "done"}
  BY DEF Behind
<1> PcOK /\ p \in Procs /\ stalled \in [Writers -> WriteType] /\ pc[p] \in Labels[p[1]]
  BY DEF TypeInv, LinkOK, Procs, PcOK
<1>1. CASE stalled[p] # NoWrite
  <2>1. CASE pc'[p] = pc[p]
    BY <1>1, <2>1 DEF Behind
  <2>2. CASE Acts(p) /\ pc[p] \in DOMAIN WritingPC
    BY <2>2, WriteEnds
  <2>3. CASE Acts(p) /\ p[1] = "stopper" /\ pc[p] \in {"fail", "done"}
    <3>1. PICK r \in RunID : p = Stopper(r)
      BY <2>3 DEF Writers, Runners, Stoppers, ClientSet, Pollers, Verifiers, Runner, Client,
         Poller, Verifier
    <3> QED BY <2>3, <3>1, WhoActs, OutOfFail
  <2> QED BY <1>1, <2>1, <2>2, <2>3, Stands DEF Behind
<1>2. CASE stalled[p] = NoWrite
  <2>1. PICK q \in Writers : WriteStalls(q)
    BY <1>2, Flights DEF Flies
  <2>2. q = p /\ UNCHANGED pc /\ pc[p] \in DOMAIN WritingPC /\ WritingPC[pc[p]] \in Stalls
    BY <1>2, <2>1 DEF WriteStalls
  <2>3. CASE ~Forced
    BY <2>2, <2>3
  <2>4. CASE Forced
    <3>1. /\ Stalls \subseteq {"hold", "reset"}
          /\ Callers \cap {"pause", "machineHold", "softReset"} = {}
      BY <2>2, <2>4 DEF Serialisable, Forced
    <3>2. pc[p] \in {"holdWrite", "machineHoldWrite", "softResetWrite", "hold", "reset", "resetErr"}
      BY <2>2, <3>1 DEF WritingPC
    <3>3. CASE p[1] = "client"
      <4>1. PICK i \in 1..MaxClients : p = Client(i)
        BY <3>3 DEF Writers, Runners, Stoppers, ClientSet, Pollers, Verifiers, Runner, Stopper,
           Poller, Verifier
      <4>2. pc[p] \in DOMAIN AskedFor
        BY <3>2, <3>3 DEF Labels, AskedFor
      <4>3. AskedFor[pc[p]] \in Callers
        BY <4>1, <4>2 DEF Asked
      <4> QED BY <3>1, <4>2, <4>3 DEF AskedFor
    <3>4. CASE p[1] # "client"
      <4>1. p[1] = "stopper"
        BY <3>2, <3>4 DEF Labels, Writers, Runners, Stoppers, ClientSet, Pollers, Verifiers,
           Runner, Stopper, Client, Poller, Verifier
      <4>2. pc[p] \in {"hold", "reset", "resetErr"}
        BY <3>2, <4>1 DEF Labels
      <4> QED BY <2>2, <4>1, <4>2 DEF WritingPC
    <3> QED BY <3>3, <3>4
  <2> QED BY <2>3, <2>4
<1> QED BY <1>1, <1>2

LEMMA OlderNext ==
  ASSUME TypeInv, Older, [Next]_vars
  PROVE  Older'
<1> SUFFICES ASSUME NEW p \in Writers PROVE stalled'[p].gen <= opened'
  BY DEF Older
<1>1. /\ stalled \in [Writers -> WriteType] /\ opened \in Nat /\ port \in 0..opened
      /\ NoWrite.gen = 0 /\ \A w \in WriteType : w.gen \in Nat
  BY BoundsAssumption DEF TypeInv, LinkOK, WriteType, NoWrite, Generation
<1>2. opened' \in Nat /\ opened <= opened'
  BY <1>1, Flights DEF Flies, WriteStalls, OpenPort, PortDrops, CloseCandidate, DisconnectCloses
<1>3. CASE \E q \in Writers : WriteStalls(q)
  BY <1>1, <1>2, <1>3 DEF Older, WriteStalls
<1>4. CASE ~\E q \in Writers : WriteStalls(q)
  <2>1. stalled'[p] \in {stalled[p], NoWrite}
    BY <1>1, <1>4, Flights DEF Flies
  <2> QED BY <1>1, <1>2, <2>1 DEF Older
<1> QED BY <1>3, <1>4

LEMMA ClosingNext ==
  ASSUME IInv, Closing, [Next]_vars
  PROVE  Closing'
<1> PcOK /\ Closer \in Procs /\ Connector \in Procs /\ Safe
  BY Identities DEF IInv, TypeInv
<1>1. CASE pc'[Closer] = pc[Closer]
  <2>1. CASE pc[Closer] \in {"clear", "cleared"}
    <3>1. port = 0 /\ pc[Connector] # "open"
      BY <2>1 DEF Closing, Safe, LifecycleOwned
    <3>2. port' = 0
      BY <3>1, Flights DEF IInv, Flies, WriteStalls, OpenPort, PortDrops, CloseCandidate,
         DisconnectCloses, ClosesPort
    <3> QED BY <1>1, <3>2 DEF Closing
  <2> QED BY <1>1, <2>1 DEF Closing
<1>2. CASE Disconnect \/ CloserStep
  <2>1. CASE Disconnect
    BY <2>1, GotoHere DEF Disconnect, Closing, Forced
  <2>2. CASE DisconnectCloses
    BY <2>2 DEF DisconnectCloses, ClosesPort, Closing, Forced
  <2>3. CASE DisconnectStopsPolling \/ DisconnectDrains \/ DisconnectFails \/ DisconnectClears
    <3>1. PICK l \in {"join", "close", "idle"} : Goto(Closer, l)
      BY <2>3 DEF DisconnectStopsPolling, DisconnectDrains, DisconnectFails, DisconnectClears
    <3>2. pc[Closer] # "idle"
      BY <2>3 DEF DisconnectStopsPolling, DisconnectDrains, DisconnectFails, DisconnectClears
    <3> QED BY <3>1, <3>2, GotoHere DEF Closing, Forced
  <2>4. CASE DisconnectReleases
    BY <2>4, GotoHere DEF DisconnectReleases, Closing, Forced, linkVars
  <2> QED BY <1>2, <2>1, <2>2, <2>3, <2>4 DEF CloserStep
<1> QED BY <1>1, <1>2, Stands, WhoActs DEF IInv

LEMMA OpeningNext ==
  ASSUME IInv, IInv', Opening, Passes, [Next]_vars
  PROVE  Opening'
<1> SUFFICES ASSUME ctl'.transition = "connecting" PROVE ctl'.write = Nobody
  BY DEF Opening
<1> PcOK /\ Connector \in Procs /\ ctl \in Controller
  BY Identities DEF IInv, TypeInv
<1>1. pc'[Connector] # "idle"
  BY DEF IInv, Safe, LifecycleOwned
<1>2. CASE pc[Connector] # "idle"
  <2>1. ctl.transition = "connecting"
    BY <1>2 DEF IInv, Safe, LifecycleOwned
  <2> QED BY <2>1 DEF Opening, Passes
<1>3. CASE pc[Connector] = "idle"
  <2>1. Connect
    <3>1. Connect \/ ConnectorStep
      BY <1>1, <1>3, Stands, WhoActs DEF IInv
    <3> QED BY <1>3, <3>1 DEF ConnectorStep, OpenPort, OpenFails, NoteOpen, Validated,
               ValidationFails, CommitConnect, SuppressCandidate, CloseCandidate, AbandonConnect
  <2> QED BY <2>1 DEF Connect, Admitted, BeginConnectAttempt, Controller
<1> QED BY <1>2, <1>3

LEMMA ReservedNext ==
  ASSUME IInv, Reserved, Behind, Older, Closing, Serialisable, [Next]_vars
  PROVE  Reserved' /\ Passes
<1> TypeInv
  BY DEF IInv
<1>1. CASE UNCHANGED vars
  BY <1>1, QuietStay, SameLeaves DEF vars
<1>2. CASE Machine \/ PortDrops \/ WatchdogEStop \/ \E p \in Writers : WriteStalls(p)
  BY <1>2, LinkReserved
<1>3. ASSUME NEW r \in RunID, StartProgram(r) \/ RunnerStep(r)
      PROVE  Reserved' /\ Passes
  BY <1>3, RunnerReserved
<1>4. ASSUME NEW r \in RunID, StopProgram(r) \/ StopStep(r) \/ PendingStopWriteReturns(r)
      PROVE  Reserved' /\ Passes
  BY <1>4, StopReserved
<1>5. ASSUME NEW i \in 1..MaxClients,
             \/ BeginPause(i) \/ BeginResume(i) \/ ClientStep(i)
             \/ \E a \in Actions : BeginAction(i, a)
             \/ ActionStep(i)
      PROVE  Reserved' /\ Passes
  BY <1>5, ClientReserved
<1>6. ASSUME NEW g \in Generation, BeginStatusPoll(g) \/ EndStatusPoll(g) \/ VerifierStep(g)
      PROVE  Reserved' /\ Passes
  BY <1>6, VerifierReserved
<1>7. CASE Connect \/ ConnectorStep
  BY <1>7, ConnectorReserved
<1>8. CASE Disconnect \/ CloserStep
  BY <1>8, CloserReserved
<1>9. CASE BridgeStep
  BY <1>9, BridgeReserved
<1> QED BY <1>1, <1>2, <1>3, <1>4, <1>5, <1>6, <1>7, <1>8, <1>9 DEF Next

LEMMA SerialInit == Init => Serial
<1> SUFFICES ASSUME Init PROVE Serial
  OBVIOUS
<1>1. /\ \A p \in Writers : stalled[p] = NoWrite
      /\ opened = 0 /\ port = 0 /\ NoWrite.gen = 0
      /\ ctl.write = Nobody /\ ctl.transition = "stable" /\ ctl.stop.run = 0
  BY DEF Init, NoWrite, InitController, NoStop
<1>2. \A p \in Procs : pc[p] = FirstLabel[p[1]]
  BY DEF Init
<1>3. \A p \in Writers : pc[p] \in {"off", "idle"}
  BY <1>2 DEF FirstLabel, Procs, Writers, Runners, Stoppers, ClientSet, Pollers, Verifiers,
     Runner, Stopper, Client, Poller, Verifier
<1>4. Reserved /\ Behind /\ Older
  BY <1>1, <1>3 DEF Reserved, Behind, Older, Owns, InWrite, Holds, WritingPC
<1>5. Asked
  BY <1>3, Identities DEF Asked, AskedFor
<1>6. pc[Closer] = "idle"
  BY <1>2, Identities, Kinds DEF FirstLabel
<1>7. Closing /\ Opening
  BY <1>1, <1>6 DEF Closing, Opening
<1>8. Later
  BY <1>2, Identities, Kinds DEF Later, FirstLabel
<1> QED BY <1>4, <1>5, <1>7, <1>8 DEF Serial

LEMMA RInvNext ==
  ASSUME RInv, [Next]_vars, Serialisable
  PROVE  RInv' /\ Passes
<1>1. IInv'
  BY IInvNext DEF RInv
<1>2. Reserved' /\ Passes
  BY ReservedNext DEF RInv, Serial
<1>3. Later' /\ Behind' /\ Asked' /\ Older'
  BY LaterNext, BehindNext, AskedNext, OlderNext DEF RInv, Serial, IInv
<1>4. Closing'
  BY ClosingNext DEF RInv, Serial
<1>5. Opening'
  BY <1>1, <1>2, OpeningNext DEF RInv, Serial
<1> QED BY <1>1, <1>2, <1>3, <1>4, <1>5 DEF RInv, Serial

LEMMA RInvAlways == Serialisable => (Spec => []RInv)
<1> SUFFICES ASSUME Serialisable PROVE Spec => []RInv
  OBVIOUS
<1>1. Init => RInv
  BY IInvInit, SerialInit DEF RInv
<1>2. RInv /\ [Next]_vars => RInv'
  BY RInvNext
<1> QED BY <1>1, <1>2, PTL DEF Spec

\* Two goroutines are never inside Write on the same open port: every path to
\* transport.Write goes through the realtime reservation (realtimeWriteDone),
\* and whoever frees the reservation is the one that has it.
THEOREM WritesSerialised == Serialisable => (Spec => []OneWriter)
<1>1. RInv => OneWriter
  <2>1. \A p : Writing(p) => Owns(p)
    BY DEF Writing, Owns, InWrite
  <2> QED BY <2>1 DEF RInv, Serial, Reserved, OneWriter
<1> QED BY <1>1, RInvAlways, PTL
-----------------------------------------------------------------------------
(***************************************************************************)
(* What the critical sections do to the fields that the machine's safety   *)
(* rests on.  Most only take something away: a run, a generation, a Stop,  *)
(* a pause token, a status report.                                         *)
(***************************************************************************)

\* The controller assumes that no line is in the machine: the current run has
\* submitted nothing, or there is no run and no recovery is required.
AtEase(c) == IF c.run.id = 0 THEN c.ready # "recovery" ELSE ~c.run.work

Calm(c, d) ==
  /\ d.gen \in {c.gen, 0}
  /\ d.gen = c.gen => (c.alarmed => d.alarmed)
  /\ d.run.id \in {c.run.id, 0}
  /\ d.status \in Executing => c.status \in Executing /\ d.run.id = c.run.id
  /\ AtEase(d) => AtEase(c)
  /\ d.stop.run # 0 => /\ d.stop.run = c.stop.run /\ d.stop.reset = c.stop.reset
                       /\ c.stop.invalid => d.stop.invalid

Steady(c, d) ==
  /\ Calm(c, d)
  /\ d.stop.run # 0 => d.stop.banner = c.stop.banner
  /\ d.machine \in {c.machine, ""}
  /\ d.ready = "normal" => c.ready = "normal"
  /\ d.status = "paused" => c.status = "paused"
  /\ d.run.pause \in {c.run.pause, Nobody}

LEMMA SteadySame == UNCHANGED ctl => Steady(ctl, ctl')
BY DEF Steady, Calm

LEMMA SteadyTrans ==
  ASSUME NEW c, NEW d, NEW e, Steady(c, d), Steady(d, e)
  PROVE  Steady(c, e)
<1>1. /\ e.gen \in {c.gen, 0}
      /\ e.run.id \in {c.run.id, 0}
      /\ e.status \in Executing => c.status \in Executing /\ e.run.id = c.run.id
  BY DEF Steady, Calm
<1>2. e.gen = c.gen => (c.alarmed => e.alarmed)
  BY DEF Steady, Calm
<1>3. e.stop.run # 0 => /\ e.stop.run = c.stop.run /\ e.stop.reset = c.stop.reset
                        /\ e.stop.banner = c.stop.banner
                        /\ c.stop.invalid => e.stop.invalid
  BY DEF Steady, Calm
<1>4. AtEase(e) => AtEase(c)
  BY DEF Steady, Calm
<1>5. /\ e.machine \in {c.machine, ""}
      /\ e.ready = "normal" => c.ready = "normal"
      /\ e.status = "paused" => c.status = "paused"
      /\ e.run.pause \in {c.run.pause, Nobody}
  BY DEF Steady
<1> QED BY <1>1, <1>2, <1>3, <1>4, <1>5 DEF Steady, Calm

LEMMA SteadyReservation ==
  ASSUME NEW c \in Controller, NEW p
  PROVE  /\ Steady(c, Reserve(c, p)) /\ Steady(c, EndRealtimeWrite(c))
         /\ Steady(c, EndReservation(c, p))
<1>1. \A q : Steady(c, [c EXCEPT !.write = q])
  BY DEF Steady, Calm, AtEase, Controller
<1>2. Steady(c, c)
  BY DEF Steady, Calm
<1> QED BY <1>1, <1>2 DEF Reserve, EndRealtimeWrite, EndReservation

LEMMA SteadyRun ==
  ASSUME NEW c \in Controller, NEW p, NEW r
  PROVE  /\ Steady(c, EndPauseTransition(c, p))
         /\ Steady(c, FinishProgramFailure(c, r))
         /\ Steady(c, [c EXCEPT !.run.inSync = TRUE])
         /\ c.run.id # 0 => Steady(c, [c EXCEPT !.run.work = TRUE])
         /\ c.status \in Executing =>
              \A st \in {"running", "draining"} : Steady(c, [c EXCEPT !.status = st])
<1>1. Steady(c, EndPauseTransition(c, p))
  BY DEF EndPauseTransition, Steady, Calm, AtEase, Controller, RunType
<1>2. Steady(c, FinishProgramFailure(c, r))
  <2> DEFINE d == FailRun(c)
             e == FinishProgramFailure(c, r)
  <2>1. /\ d \in Controller /\ d.run = NoRun /\ d.status = "failed" /\ d.gen = c.gen
        /\ d.alarmed = c.alarmed /\ d.machine = c.machine /\ d.ready = c.ready /\ d.stop = c.stop
    BY FailRunOver DEF FailRun, Controller
  <2>2. e = c \/ e = [d EXCEPT !.ready = IF c.run.work THEN "recovery" ELSE d.ready]
    BY DEF FinishProgramFailure
  <2> HIDE DEF d, e
  <2>3. ASSUME e # c
        PROVE  /\ e.run = NoRun /\ e.status = "failed" /\ e.gen = c.gen /\ e.alarmed = c.alarmed
               /\ e.machine = c.machine /\ e.stop = c.stop
               /\ e.ready = IF c.run.work THEN "recovery" ELSE c.ready
    BY <2>1, <2>2, <2>3 DEF Controller
  <2>4. NoRun.id = 0 /\ NoRun.pause = Nobody
    BY DEF NoRun
  <2>5. CASE e # c
    <3>1. Calm(c, e)
      <4>1. c.run.work \in BOOLEAN
        BY DEF Controller, RunType
      <4> QED BY <2>3, <2>4, <2>5, <4>1 DEF Calm, AtEase, Executing
    <3> QED BY <2>3, <2>4, <2>5, <3>1 DEF Steady, e
  <2>6. CASE e = c
    BY <2>6 DEF e, Steady, Calm
  <2> QED BY <2>5, <2>6
<1>3. /\ Steady(c, [c EXCEPT !.run.inSync = TRUE])
      /\ c.run.id # 0 => Steady(c, [c EXCEPT !.run.work = TRUE])
  BY DEF Steady, Calm, AtEase, Controller, RunType
<1>4. c.status \in Executing =>
              \A st \in {"running", "draining"} : Steady(c, [c EXCEPT !.status = st])
  BY DEF Steady, Calm, AtEase, Controller, Executing
<1> QED BY <1>1, <1>2, <1>3, <1>4

LEMMA SteadyStop ==
  ASSUME NEW c \in Controller, NEW r, NEW is3
  PROVE  /\ Steady(c, NoteAlarm(c, is3))
         /\ c.run.id # 0 => Steady(c, [c EXCEPT !.ready = "verifying"])
         /\ Steady(c, FailProgramStop(c, r))
<1>1. Steady(c, NoteAlarm(c, is3))
  BY DEF NoteAlarm, Steady, Calm, AtEase, Controller, StopType
<1>2. c.run.id # 0 => Steady(c, [c EXCEPT !.ready = "verifying"])
  BY DEF Steady, Calm, AtEase, Controller
<1>3. Steady(c, FailProgramStop(c, r))
  <2> DEFINE d == IF c.run.id = r THEN FailRun(c) ELSE c
  <2>1. /\ d \in Controller /\ d.gen = c.gen /\ d.alarmed = c.alarmed /\ d.machine = c.machine
        /\ d.run.pause \in {c.run.pause, Nobody}
        /\ \/ d.run.id = c.run.id /\ d.run.work = c.run.work /\ d.status = c.status
           \/ d.run.id = 0 /\ d.status = "failed"
    <3>1. /\ FailRun(c) \in Controller /\ FailRun(c).gen = c.gen /\ FailRun(c).run = NoRun
          /\ FailRun(c).alarmed = c.alarmed /\ FailRun(c).machine = c.machine
          /\ FailRun(c).status = "failed"
      BY FailRunType DEF FailRun, Controller
    <3> QED BY <3>1 DEF NoRun
  <2> HIDE DEF d
  <2> DEFINE e == [d EXCEPT !.ready = "recovery", !.stop = NoStop]
  <2>2. /\ e.run = d.run /\ e.status = d.status /\ e.gen = d.gen /\ e.alarmed = d.alarmed
        /\ e.machine = d.machine /\ e.stop = NoStop /\ e.ready = "recovery"
    BY <2>1 DEF Controller
  <2> HIDE DEF e
  <2>3. NoStop.run = 0
    BY DEF NoStop
  <2>4. Steady(c, e)
    BY <2>1, <2>2, <2>3 DEF Steady, Calm, AtEase, Executing
  <2>5. Steady(c, c)
    BY DEF Steady, Calm
  <2>6. FailProgramStop(c, r) \in {c, e}
    BY DEF d, e, FailProgramStop
  <2> QED BY <2>4, <2>5, <2>6
<1> QED BY <1>1, <1>2, <1>3

LEMMA CalmBridge ==
  ASSUME NEW c \in Controller, NEW ev, NEW state \in MachineState
  PROVE  /\ Calm(c, NoteInput(c, ev))
         /\ ev.kind # "banner" => Steady(c, NoteInput(c, ev))
         /\ Calm(c, NoteStatusReport(c, state))
         /\ Steady(c, EnterEStop(c))
<1>1. Steady(c, c) /\ Steady(c, NoteAlarm(c, ev.kind = "alarm3"))
  <2>1. Steady(c, c)
    BY DEF Steady, Calm
  <2>2. \A is3 : Steady(c, NoteAlarm(c, is3))
    BY SteadyStop
  <2> QED BY <2>1, <2>2
<1>2. Calm(c, NoteResetBanner(c, ev.new))
  BY DEF NoteResetBanner, Calm, AtEase, Controller, StopType
<1>3. Calm(c, NoteInput(c, ev)) /\ (ev.kind # "banner" => Steady(c, NoteInput(c, ev)))
  BY <1>1, <1>2 DEF NoteInput, Steady
<1>4. Calm(c, NoteStatusReport(c, state))
  <2> DEFINE d == IF state = "Alarm" THEN NoteAlarm(c, FALSE) ELSE c
             e == [d EXCEPT !.machine = state]
  <2>1. d \in Controller /\ Calm(c, d)
    BY NoteAlarmType, SteadyStop, <1>1 DEF Steady
  <2> HIDE DEF d
  <2>2. e \in Controller /\ Calm(c, e)
    BY <2>1 DEF Calm, AtEase, Controller
  <2> HIDE DEF e
  <2>3. Calm(c, NoteStatusResponse(e, state))
    BY <2>2 DEF Calm, AtEase, NoteStatusResponse, Controller
  <2> QED BY <2>3 DEF d, e, NoteStatusReport
<1>5. Steady(c, EnterEStop(c))
  BY DEF EnterEStop, Steady, Calm, AtEase, Controller, RunType, NoRun, NoStop, Executing, Active,
     ProgramActive
<1> QED BY <1>3, <1>4, <1>5

LEMMA SteadyConnection ==
  ASSUME NEW c \in Controller, NEW g
  PROVE  /\ Steady(c, BeginConnectAttempt(c))
         /\ Steady(c, NoteOpened(c, g))
         /\ Steady(c, AbandonConnectAttempt(c))
         /\ Steady(c, NoteAttemptDisconnected(c, g))
         /\ Steady(c, StopStatusPolling(c))
         /\ Steady(c, ClearConnectionState(c))
         /\ Steady(c, [ClearConnectionState(c) EXCEPT !.transition = "stable"])
         /\ Steady(c, DisconnectFailed(c))
         /\ Steady(c, [c EXCEPT !.suppress = g])
<1>1. /\ Steady(c, BeginConnectAttempt(c)) /\ Steady(c, StopStatusPolling(c))
      /\ Steady(c, [c EXCEPT !.suppress = g])
  BY DEF BeginConnectAttempt, StopStatusPolling, Steady, Calm, AtEase, Controller
<1>2. Steady(c, NoteOpened(c, g)) /\ Steady(c, NoteAttemptDisconnected(c, g))
  BY DEF NoteOpened, NoteAttemptDisconnected, Steady, Calm, AtEase, Controller
<1>3. Steady(c, ClearConnectionState(c))
  BY DEF ClearConnectionState, Steady, Calm, AtEase, Controller
<1>4. Steady(c, DisconnectFailed(c))
  BY DEF DisconnectFailed, Steady, Calm, AtEase, Controller
<1>5. Steady(c, AbandonConnectAttempt(c))
  <2> DEFINE d == FinishConnectAttempt(c)
  <2>1. d \in Controller /\ Steady(c, d)
    BY ZenonT(60), FinishConnectAttemptType DEF FinishConnectAttempt, Steady, Calm, AtEase, Controller
  <2>2. AbandonConnectAttempt(c) =
          [d EXCEPT !.conn = IF d.conn = "connecting" THEN "disconnected" ELSE d.conn]
    BY DEF AbandonConnectAttempt
  <2> HIDE DEF d
  <2> DEFINE e == AbandonConnectAttempt(c)
  <2>3. /\ e.run = d.run /\ e.status = d.status /\ e.gen = d.gen /\ e.alarmed = d.alarmed
        /\ e.machine = d.machine /\ e.stop = d.stop /\ e.ready = d.ready
    BY <2>1, <2>2 DEF Controller
  <2> HIDE DEF e
  <2>4. Steady(d, e)
    BY <2>3 DEF Steady, Calm, AtEase
  <2> QED BY <2>1, <2>4, SteadyTrans DEF e
<1>6. Steady(c, [ClearConnectionState(c) EXCEPT !.transition = "stable"])
  <2> DEFINE d == ClearConnectionState(c)
  <2>1. d \in Controller
    BY ClearConnectionStateType
  <2> HIDE DEF d
  <2>2. Steady(d, [d EXCEPT !.transition = "stable"])
    BY <2>1 DEF Steady, Calm, AtEase, Controller
  <2> QED BY <1>3, <2>2, SteadyTrans DEF d
<1> QED BY <1>1, <1>2, <1>3, <1>4, <1>5, <1>6

LEMMA SteadyLost ==
  ASSUME NEW c \in Controller
  PROVE  Steady(c, BeginDisconnect(c)) /\ Steady(c, HandleTransportDisconnected(c))
<1> DEFINE d == IF c.run.id # 0 THEN [FailRun(c) EXCEPT !.ready = "recovery"] ELSE c
           e == [d EXCEPT !.owner = NoOwner, !.stop = NoStop]
<1>1. d \in Controller /\ Steady(c, d)
  <2>1. /\ FailRun(c) \in Controller
        /\ FailRun(c) = [c EXCEPT !.run = NoRun, !.status = "failed", !.owner = NoOwner]
    BY FailRunType DEF FailRun
  <2>2. [FailRun(c) EXCEPT !.ready = "recovery"] \in Controller
    BY <2>1 DEF Controller
  <2>3. c.run.id # 0 => Steady(c, [FailRun(c) EXCEPT !.ready = "recovery"])
    BY <2>1 DEF Controller, Steady, Calm, AtEase, Executing, NoRun, RunType
  <2> QED BY ZenonT(60), <2>2, <2>3 DEF Steady, Calm
<1> HIDE DEF d
<1>2. Steady(d, [d EXCEPT !.transition = "disconnecting", !.stop = NoStop,
                          !.owner = NoOwner, !.suppress = c.gen])
  BY ZenonT(60), <1>1 DEF Steady, Calm, AtEase, Controller, NoStop
<1>3. e \in Controller /\ Steady(d, e)
  BY ZenonT(60), <1>1, ZeroType DEF Steady, Calm, AtEase, Controller, NoStop
<1> HIDE DEF e
<1>4. Steady(e, ClearConnectionState(e))
  BY <1>3, SteadyConnection
<1> QED BY <1>1, <1>2, <1>3, <1>4, SteadyTrans DEF d, e, BeginDisconnect,
           HandleTransportDisconnected

\* The critical sections that give something, or hear from the machine.
Gives ==
  \/ \E r \in RunID : StartProgram(r) \/ RunnerFinish(r) \/ StopProgram(r) \/ StopMarksReset(r)
                      \/ StopFinishes(r)
  \/ CommitConnect

Hears ==
  \/ BridgeLine \/ BridgeStatus
  \/ \E g \in Generation : VerifierConcludes(g)
  \/ \E i \in 1..MaxClients : BeginPause(i) \/ PauseReturns(i)

Turns == Steady(ctl, ctl') \/ (Calm(ctl, ctl') /\ Hears) \/ Gives

LEMMA PollTurns ==
  ASSUME ctl \in Controller, NEW p, NEW l,
         PollAdmitted(p) \/ PollWritten(p) \/ PollWriteFails(p, l)
  PROVE  Steady(ctl, ctl')
BY SteadySame, SteadyReservation DEF PollAdmitted, PollWritten, PollWriteFails

LEMMA RunnerTurns ==
  ASSUME IInv, NEW r \in RunID, StartProgram(r) \/ RunnerStep(r)
  PROVE  Turns
<1> ctl \in Controller
  BY DEF IInv, TypeInv
<1> USE SteadySame DEF Turns, Gives
<1>1. CASE StartProgram(r) \/ RunnerFinish(r)
  BY <1>1
<1>2. CASE RunnerGate(r) \/ RunnerUnblocked(r) \/ RunnerResponse(r) \/ RunnerCancelled(r)
           \/ DrainGate(r) \/ DrainIdle(r) \/ DrainResponse(r) \/ DrainCheck(r)
  BY <1>2 DEF RunnerGate, RunnerUnblocked, RunnerResponse, RunnerCancelled, DrainGate, DrainIdle,
     DrainResponse, DrainCheck
<1>3. CASE RunnerAdmit(r)
  <2> DEFINE d == Reserve(ctl, Runner(r))
  <2>1. CASE MayWriteLine(ctl, r) /\ ctl' = [d EXCEPT !.run.work = TRUE]
    <3>1. d \in Controller /\ Steady(ctl, d) /\ d.run = ctl.run
      BY Identities, ReserveType, SteadyReservation DEF Reserve, Controller
    <3>2. d.run.id # 0
      BY <2>1, <3>1 DEF MayWriteLine, RunID
    <3> HIDE DEF d
    <3>3. Steady(d, ctl')
      BY <2>1, <3>1, <3>2, SteadyRun
    <3> QED BY <3>1, <3>3, SteadyTrans
  <2> QED BY <1>3, <2>1 DEF RunnerAdmit
<1>4. CASE LineWritten(r) \/ LineWriteFails(r)
  BY <1>4, SteadyReservation DEF LineWritten, LineWriteFails
<1>5. CASE BeginProgramDraining(r)
  <2> DEFINE d == [ctl EXCEPT !.run.draining = TRUE]
  <2>1. d \in Controller /\ Steady(ctl, d) /\ d.status = ctl.status
    <3>1. d \in Controller /\ d.status = ctl.status
      BY DEF Controller, RunType
    <3>2. Steady(ctl, d)
      BY DEF Steady, Calm, AtEase, Controller, RunType
    <3> QED BY <3>1, <3>2
  <2>2. \/ ctl' = ctl \/ ctl' = [d EXCEPT !.status = ctl.status]
        \/ ctl.status \in Executing /\ ctl' = [d EXCEPT !.status = "draining"]
    <3>1. \/ ctl' = ctl
          \/ /\ ctl.status \in {"running", "paused"}
             /\ ctl' = [d EXCEPT !.status = IF d.status = "paused" THEN d.status ELSE "draining"]
      BY <1>5 DEF BeginProgramDraining, CanBeginDraining
    <3> HIDE DEF d
    <3> QED BY <2>1, <3>1 DEF Executing
  <2> HIDE DEF d
  <2>3. [d EXCEPT !.status = ctl.status] = d
    BY <2>1 DEF Controller
  <2> QED BY <2>1, <2>2, <2>3, SteadyRun, SteadyTrans
<1>6. CASE DrainBaseline(r)
  BY <1>6, SteadyRun DEF DrainBaseline
<1>7. CASE DrainPoll(r)
  BY <1>7, PollTurns DEF DrainPoll
<1>8. CASE RunnerFail(r)
  BY <1>8, SteadyRun DEF RunnerFail
<1> QED BY <1>1, <1>2, <1>3, <1>4, <1>5, <1>6, <1>7, <1>8 DEF RunnerStep

LEMMA StopTurns ==
  ASSUME IInv, NEW r \in RunID, StopProgram(r) \/ StopStep(r) \/ PendingStopWriteReturns(r)
  PROVE  Turns
<1> ctl \in Controller
  BY DEF IInv, TypeInv
<1> USE SteadySame DEF Turns, Gives
<1>1. CASE StopProgram(r) \/ StopMarksReset(r) \/ StopFinishes(r)
  BY <1>1
<1>2. CASE StopAcquires(r) \/ StopResetWritten(r) \/ PendingStopWriteReturns(r)
  BY <1>2, SteadyReservation DEF StopAcquires, StopResetWritten, PendingStopWriteReturns
<1>3. CASE StopCannotAcquire(r) \/ StopHoldWritten(r) \/ StopWriteTimesOut(r) \/ StopBanner(r)
           \/ StopBaseline(r) \/ StopIdle(r)
  BY <1>3 DEF StopCannotAcquire, StopHoldWritten, StopWriteTimesOut, StopBanner, StopBaseline,
     StopIdle
<1>4. CASE StopVerifies(r)
  BY <1>4, SteadyStop DEF StopVerifies, StopCurrent, RunID
<1>5. CASE StopPoll(r)
  BY <1>5, PollTurns DEF StopPoll
<1>6. CASE StopFails(r)
  BY <1>6, SteadyStop DEF StopFails
<1> QED BY <1>1, <1>2, <1>3, <1>4, <1>5, <1>6 DEF StopStep

LEMMA ClientTurns ==
  ASSUME IInv, NEW i \in 1..MaxClients,
         \/ BeginPause(i) \/ BeginResume(i) \/ ClientStep(i)
         \/ \E a \in Actions : BeginAction(i, a)
         \/ ActionStep(i)
  PROVE  Turns
<1> ctl \in Controller
  BY DEF IInv, TypeInv
<1> USE SteadySame DEF Turns
<1>1. CASE BeginPause(i)
  <2>1. Calm(ctl, ctl')
    BY <1>1 DEF BeginPause, BeginPauseTransition, Calm, AtEase, Controller, RunType
  <2> QED BY <1>1, <2>1 DEF Hears
<1>2. CASE PauseReturns(i)
  <2> DEFINE d == EndPauseTransition(ctl, Client(i))
  <2>1. d \in Controller /\ Steady(ctl, d)
    BY EndPauseTransitionType, SteadyRun
  <2>2. \/ ctl' = ctl \/ ctl' = d
        \/ d.status \in Executing /\ ctl' = [d EXCEPT !.status = "paused"]
    BY <1>2 DEF PauseReturns, CommitPause, EndPauseTransition, Controller, Executing
  <2> HIDE DEF d
  <2>3. Calm(ctl, ctl')
    <3>1. CASE d.status \in Executing /\ ctl' = [d EXCEPT !.status = "paused"]
      <4>1. /\ ctl'.gen = d.gen /\ ctl'.alarmed = d.alarmed /\ ctl'.run = d.run
            /\ ctl'.stop = d.stop /\ ctl'.ready = d.ready
        BY <2>1, <3>1 DEF Controller
      <4> QED BY <2>1, <3>1, <4>1 DEF Steady, Calm, AtEase, Executing
    <3> QED BY <2>1, <2>2, <3>1 DEF Steady
  <2> QED BY <1>2, <2>3 DEF Hears
<1>3. CASE PauseAdmit(i) \/ ResumeAdmit(i)
  BY <1>3, SteadyReservation DEF PauseAdmit, ResumeAdmit
<1>4. CASE HoldWritten(i) \/ HoldWriteFails(i) \/ ResumeWritten(i) \/ ResumeWriteFails(i)
  BY <1>4, SteadyReservation DEF HoldWritten, HoldWriteFails, ResumeWritten, ResumeWriteFails
<1>5. CASE BeginResume(i) \/ \E a \in Actions : BeginAction(i, a)
  BY <1>5 DEF BeginResume, BeginAction
<1>6. CASE ResumeReturns(i)
  <2>1. \/ ctl' = ctl
        \/ ctl.status \in Executing /\ \E st \in {"running", "draining"} : ctl' = [ctl EXCEPT !.status = st]
    BY <1>6 DEF ResumeReturns, CommitResume, Executing
  <2> QED BY <2>1, SteadyRun
<1>7. CASE ActionStep(i)
  BY <1>7, SteadyReservation DEF ActionStep, ActionAdmit, ActionReturns
<1> QED BY <1>1, <1>2, <1>3, <1>4, <1>5, <1>6, <1>7 DEF ClientStep

LEMMA BridgeTurns ==
  ASSUME IInv, BridgeStep \/ WatchdogEStop
  PROVE  Turns
<1> ctl \in Controller
  BY DEF IInv, TypeInv
<1> USE SteadySame DEF Turns
<1>1. CASE BridgeDiscards
  BY <1>1 DEF BridgeDiscards
<1>2. CASE BridgeStatus
  <2>1. NextEvent.kind \in MachineState
    BY <1>2 DEF BridgeStatus, IsStatus, MachineState
  <2> QED BY <1>2, <2>1, CalmBridge DEF BridgeStatus, Hears
<1>3. CASE BridgeEStop
  <2> DEFINE d == NoteInput(ctl, NextEvent)
  <2>1. d \in Controller /\ Steady(ctl, d)
    BY <1>3, NoteInputType, CalmBridge DEF BridgeEStop, MachineState
  <2>2. ctl' = EnterEStop(d)
    BY <1>3 DEF BridgeEStop
  <2> HIDE DEF d
  <2>3. Steady(d, ctl')
    BY <2>1, <2>2, CalmBridge DEF MachineState
  <2> QED BY <2>1, <2>3, SteadyTrans
<1>4. CASE BridgeLine
  BY <1>4, CalmBridge DEF BridgeLine, Hears, MachineState
<1>5. CASE BridgeFailsRun
  BY <1>5, SteadyRun DEF BridgeFailsRun
<1>6. CASE BridgeIgnoresDisconnect \/ BridgeDisconnected
  BY <1>6, SteadyConnection DEF BridgeIgnoresDisconnect, BridgeDisconnected
<1>7. CASE BridgeClears
  BY <1>7, SteadyLost DEF BridgeClears
<1>8. CASE WatchdogEStop
  BY <1>8, CalmBridge DEF WatchdogEStop, MachineState
<1> QED BY <1>1, <1>2, <1>3, <1>4, <1>5, <1>6, <1>7, <1>8 DEF BridgeStep

LEMMA ConnectionTurns ==
  ASSUME IInv, Connect \/ ConnectorStep \/ Disconnect \/ CloserStep
  PROVE  Turns
<1> ctl \in Controller
  BY DEF IInv, TypeInv
<1> USE SteadySame DEF Turns, Gives
<1>1. CASE Connect \/ NoteOpen \/ SuppressCandidate \/ AbandonConnect
  BY <1>1, SteadyConnection DEF Connect, NoteOpen, SuppressCandidate, AbandonConnect
<1>2. CASE OpenPort \/ OpenFails \/ Validated \/ ValidationFails \/ CloseCandidate
  BY <1>2 DEF OpenPort, OpenFails, Validated, ValidationFails, CloseCandidate
<1>3. CASE Disconnect
  BY <1>3, SteadyLost DEF Disconnect
<1>4. CASE DisconnectStopsPolling \/ DisconnectFails \/ DisconnectClears
  BY <1>4, SteadyConnection DEF DisconnectStopsPolling, DisconnectFails, DisconnectClears
<1>5. CASE DisconnectDrains \/ DisconnectCloses \/ DisconnectReleases
  BY <1>5, SteadyReservation DEF DisconnectDrains, DisconnectCloses, DisconnectReleases
<1> QED BY <1>1, <1>2, <1>3, <1>4, <1>5 DEF ConnectorStep, CloserStep

LEMMA VerifierTurns ==
  ASSUME IInv, NEW g \in Generation, BeginStatusPoll(g) \/ EndStatusPoll(g) \/ VerifierStep(g)
  PROVE  Turns
<1> ctl \in Controller
  BY DEF IInv, TypeInv
<1> USE SteadySame DEF Turns
<1>1. CASE BeginStatusPoll(g) \/ EndStatusPoll(g)
  BY <1>1, SteadyReservation DEF BeginStatusPoll, EndStatusPoll
<1>2. CASE VerifierBaseline(g) \/ VerifierIdle(g)
  BY <1>2 DEF VerifierBaseline, VerifierIdle
<1>3. CASE VerifierPoll(g)
  BY <1>3, PollTurns DEF VerifierPoll
<1>4. CASE VerifierConcludes(g)
  <2>1. Calm(ctl, ctl')
    BY <1>4 DEF VerifierConcludes, ConcludeVerification, Calm, AtEase, Controller
  <2> QED BY <1>4, <2>1 DEF Hears
<1> QED BY <1>1, <1>2, <1>3, <1>4 DEF VerifierStep

LEMMA CtlTurns ==
  ASSUME IInv, [Next]_vars
  PROVE  Turns
<1>1. CASE UNCHANGED vars \/ Machine \/ PortDrops \/ \E p \in Writers : WriteStalls(p)
  BY <1>1, SteadySame DEF Turns, vars, Machine, PortDrops, WriteStalls
<1> QED BY <1>1, RunnerTurns, StopTurns, ClientTurns, BridgeTurns, ConnectionTurns, VerifierTurns
        DEF Next

-----------------------------------------------------------------------------
(* The line of a stopped run. *)

Sends(r) == pc[Runner(r)] = "write" /\ Owns(Runner(r))

StopHasSent == \A r \in RunID : ctl.stop.run = r /\ ctl.stop.reset => ~Sends(r)

LEMMA RunnerArrives ==
  ASSUME PcOK, NEW r \in RunID, StartProgram(r) \/ RunnerStep(r)
  PROVE  /\ pc'[Runner(r)] = "write" =>
              /\ pc[Runner(r)] = "admit" /\ MayWriteLine(ctl, r)
              /\ ctl.run.pause = Nobody /\ ctl.write = Nobody
              /\ ctl' = [Reserve(ctl, Runner(r)) EXCEPT !.run.work = TRUE]
              /\ UNCHANGED <<runVars, closer, bridge, linkVars, fresh>>
         /\ pc'[Runner(r)] = "await" => LineWritten(r)
<1> DEFINE p == Runner(r)
<1> p \in Procs
  BY Identities
<1>1. \A l : Goto(p, l) => pc'[p] = l
  BY GotoHere
<1> HIDE DEF p
<1>2. CASE StartProgram(r)
  BY <1>1, <1>2 DEF p, StartProgram
<1>3. CASE RunnerAdmit(r)
  BY <1>1, <1>3 DEF p, RunnerAdmit
<1>4. CASE RunnerGate(r) \/ RunnerUnblocked(r) \/ LineWriteFails(r) \/ RunnerCancelled(r)
  BY <1>1, <1>4 DEF p, RunnerGate, RunnerUnblocked, LineWriteFails, RunnerCancelled
<1>5. CASE LineWritten(r)
  BY <1>1, <1>5 DEF p, LineWritten
<1>6. CASE RunnerResponse(r) \/ DrainResponse(r) \/ DrainCheck(r) \/ BeginProgramDraining(r)
  <2>1. PICK l \in {"gate", "drain", "fail", "waitIdle", "drainGate", "finish", "done"} : Goto(p, l)
    BY <1>6 DEF p, RunnerResponse, DrainResponse, DrainCheck, AfterLine, BeginProgramDraining
  <2> QED BY <1>1, <2>1 DEF p
<1>7. CASE DrainGate(r) \/ DrainBaseline(r) \/ DrainIdle(r)
  BY <1>1, <1>7 DEF p, DrainGate, DrainBaseline, DrainIdle
<1>8. CASE DrainPoll(r)
  <2>1. PICK l \in {"waitIdle", "pollWrite", "fail"} : Goto(p, l)
    BY <1>8 DEF p, DrainPoll, PollAdmitted, PollWritten, PollWriteFails
  <2> QED BY <1>1, <2>1 DEF p
<1>9. CASE RunnerFinish(r) \/ RunnerFail(r)
  <2>1. PICK l \in {"drainGate", "done"} : Goto(p, l)
    BY <1>9 DEF p, RunnerFinish, RunnerFail
  <2> QED BY <1>1, <2>1 DEF p
<1> QED BY <1>2, <1>3, <1>4, <1>5, <1>6, <1>7, <1>8, <1>9 DEF RunnerStep

\* A Stop marks its reset once, and no other section does.
LEMMA ResetMarked ==
  ASSUME IInv, [Next]_vars, NEW r \in RunID, ctl'.stop.run = r, ctl'.stop.reset
  PROVE  (ctl.stop.run = r /\ ctl.stop.reset) \/ (StopMarksReset(r) /\ StopCurrent(ctl, r))
<1> ctl \in Controller
  BY DEF IInv, TypeInv
<1> r # 0
  BY DEF RunID
<1>1. CASE Calm(ctl, ctl')
  BY <1>1 DEF Calm
<1>2. CASE Gives
  <2>1. ASSUME NEW q \in RunID, StartProgram(q) \/ RunnerFinish(q)
        PROVE  ctl'.stop = ctl.stop
    BY <2>1 DEF StartProgram, StartRun, RunnerFinish, FinishProgramSuccess, Controller
  <2>2. ASSUME NEW q \in RunID, StopProgram(q)
        PROVE  FALSE
    <3>1. ctl'.stop = [NoStop EXCEPT !.run = ctl.run.id, !.gen = ctl.run.gen]
      BY <2>2 DEF StopProgram, BeginStop, Controller
    <3> QED BY <3>1 DEF NoStop
  <2>3. ASSUME NEW q \in RunID, StopFinishes(q)
        PROVE  ctl'.stop = ctl.stop \/ ctl'.stop.run = 0
    <3>1. ctl' = ctl \/ ctl'.stop = NoStop
      BY <2>3 DEF StopFinishes, FinishProgramStop, Controller
    <3> QED BY <3>1 DEF NoStop
  <2>4. ASSUME NEW q \in RunID, StopMarksReset(q)
        PROVE  ctl'.stop = ctl.stop \/ (StopMarksReset(r) /\ StopCurrent(ctl, r))
    <3>1. CASE StopCurrent(ctl, q)
      <4>1. ctl'.stop.run = ctl.stop.run
        BY <2>4, <3>1 DEF StopMarksReset, MarkStopResetWriteIssued, Controller, StopType
      <4> QED BY <2>4, <3>1, <4>1 DEF StopCurrent
    <3>2. CASE ~StopCurrent(ctl, q)
      BY <2>4, <3>2 DEF StopMarksReset, EndReservation, EndRealtimeWrite, Controller
    <3> QED BY <3>1, <3>2
  <2>5. CASE CommitConnect
    BY <2>5 DEF CommitConnect, CommitConnection, FinishConnectAttempt, Controller
  <2> QED BY <1>2, <2>1, <2>2, <2>3, <2>4, <2>5 DEF Gives
<1> QED BY <1>1, <1>2, CtlTurns DEF Turns, Steady

\* A line leaves a runner at "write" only by being delivered there, and one comes
\* there only while the program runs, so not in a Stop.
LEMMA StopHasSentNext ==
  ASSUME RInv, StopHasSent, [Next]_vars, Passes
  PROVE  StopHasSent'
<1> USE DEF RInv, Serial
<1> SUFFICES ASSUME NEW r \in RunID, ctl'.stop.run = r, ctl'.stop.reset, Sends(r)'
             PROVE  FALSE
  BY DEF StopHasSent
<1> DEFINE p == Runner(r)
<1> p \in Writers /\ p \in Procs /\ PcOK /\ r # 0
  BY Identities DEF IInv, TypeInv, RunID
<1>1. pc'[p] = "write" /\ Owns(p)'
  BY DEF Sends
<1> HIDE DEF p
<1>2. CASE pc'[p] = pc[p]
  <2>1. Owns(p)
    BY <1>1, <1>2 DEF Passes
  <2>2. Sends(r)
    BY <1>1, <1>2, <2>1 DEF p, Sends
  <2>3. StopMarksReset(r) /\ StopCurrent(ctl, r)
    BY <2>2, ResetMarked DEF StopHasSent
  <2>4. Holds(Stopper(r))
    BY <2>3 DEF StopMarksReset, StopCurrent, Holds, Stopper
  <2>5. Owns(Stopper(r))
    BY <2>1, <2>4 DEF Owns
  <2>6. Stopper(r) \in Writers /\ Stopper(r) # p
    BY Identities DEF p, Stopper, Runner
  <2> QED BY <2>1, <2>5, <2>6 DEF Reserved
<1>3. CASE pc'[p] # pc[p]
  <2>1. Acts(p)
    BY <1>3, Stands
  <2>2. StartProgram(r) \/ RunnerStep(r)
    BY <2>1, WhoActs DEF p
  <2>3. /\ MayWriteLine(ctl, r)
        /\ ctl' = [Reserve(ctl, Runner(r)) EXCEPT !.run.work = TRUE]
    BY <1>1, <2>2, RunnerArrives DEF p
  <2>4. ctl.stop.run = 0
    BY <2>3 DEF MayWriteLine, IInv, Safe, ExecutingImpliesReady, Executing
  <2>5. ctl'.stop = ctl.stop
    BY <2>3 DEF Reserve, Controller, IInv, TypeInv
  <2> QED BY <2>4, <2>5
<1> QED BY <1>2, <1>3

\* Once a Stop has issued its Ctrl-X no line of the stopped run reaches the machine
\* behind it: whoever sends a line has the reservation that the Stop keeps from its
\* Hold to its Ctrl-X (program_stop.go), so it has returned before.
THEOREM NothingBehindReset == Serialisable => (Spec => NoLineAfterStopReset)
<1> SUFFICES ASSUME Serialisable PROVE Spec => NoLineAfterStopReset
  OBVIOUS
<1>1. Init => RInv /\ StopHasSent
  <2>1. Init => RInv
    BY IInvInit, SerialInit DEF RInv
  <2>2. Init => StopHasSent
    <3>1. Init => ctl.stop.run = 0
      <4>1. InitController.stop = NoStop /\ NoStop.run = 0
        BY DEF InitController, NoStop
      <4> QED BY <4>1 DEF Init
    <3> QED BY <3>1 DEF StopHasSent, RunID
  <2> QED BY <2>1, <2>2
<1>2. (RInv /\ StopHasSent) /\ [Next]_vars => (RInv /\ StopHasSent)'
  BY RInvNext, StopHasSentNext
<1>3. (RInv /\ StopHasSent) /\ [Next]_vars =>
        [\A r \in RunID : LineLands(r) => ~(ctl.stop.run = r /\ ctl.stop.reset)]_vars
  <2> SUFFICES ASSUME RInv, StopHasSent, [Next]_vars, NEW r \in RunID, LineLands(r)
               PROVE  ~(ctl.stop.run = r /\ ctl.stop.reset)
    OBVIOUS
  <2>1. PcOK /\ Runner(r) \in Procs
    BY Identities DEF RInv, IInv, TypeInv
  <2>2. pc[Runner(r)] = "write" /\ pc'[Runner(r)] = "await"
    BY DEF LineLands
  <2>3. LineWritten(r)
    BY <2>1, <2>2, Stands, WhoActs, RunnerArrives
  <2>4. Handle(Runner(r)) # 0 /\ Handle(Runner(r)) = port
    BY <2>3 DEF LineWritten, Delivered
  <2>5. Owns(Runner(r))
    BY <2>2, <2>4 DEF Owns, InWrite, WritingPC
  <2> QED BY <2>2, <2>5 DEF StopHasSent, Sends
<1> QED BY <1>1, <1>2, <1>3, PTL DEF Spec, NoLineAfterStopReset

-----------------------------------------------------------------------------
(***************************************************************************)
(* What a step does to the machine and to the events on their way.         *)
(***************************************************************************)

\* A write reaches the machine: lines come from runners, and a Resume from a caller
\* of ResumeProgram or of the machine-wide action.
Lands(p) ==
  \E msg \in Messages :
    /\ Delivered(p, msg) /\ InWrite(p)
    /\ msg = "line" => \E r \in RunID : p = Runner(r) /\ LineWritten(r)
    /\ msg = "resume" => \E i \in 1..MaxClients :
         p = Client(i) /\ (ResumeWritten(i) \/ ActionReturns(i, "machineResume"))

LosesPort ==
  /\ port # 0 /\ port' = 0
  /\ rx' = Append(rx, [kind |-> "disconnected", gen |-> port, new |-> TRUE])
  /\ UNCHANGED <<opened, dev>>

Deeds ==
  \/ UNCHANGED <<port, opened, rx, dev>>
  \/ Machine \/ OpenPort \/ LosesPort
  \/ \E p \in Writers : Lands(p)
  \/ BridgeStep /\ BridgeReads /\ UNCHANGED <<port, opened, dev>>
  \/ \E r \in RunID : StopMarksReset(r)

\* What the goroutine that a Stop left behind still writes.
Loaded ==
  \A r \in RunID : stalled[Stopper(r)] # NoWrite =>
    stalled[Stopper(r)].msg \in {"hold", "reset", "poll"}

LEMMA LoadedNext ==
  ASSUME TypeInv, Loaded, [Next]_vars
  PROVE  Loaded'
<1> SUFFICES ASSUME NEW r \in RunID, stalled'[Stopper(r)] # NoWrite
             PROVE  stalled'[Stopper(r)].msg \in {"hold", "reset", "poll"}
  BY DEF Loaded
<1> DEFINE q == Stopper(r)
<1> q \in Writers /\ q \in Procs /\ q[1] = "stopper" /\ stalled \in [Writers -> WriteType]
  BY Identities, Kinds DEF TypeInv, LinkOK
<1>1. CASE stalled' = stalled
  BY <1>1 DEF Loaded
<1>2. ASSUME NEW p \in Writers, Flies(p) \/ WriteStalls(p), stalled' # stalled
      PROVE  stalled'[q].msg \in {"hold", "reset", "poll"}
  <2>1. CASE WriteStalls(p) /\ q = p
    <3>1. pc[q] \in Labels.stopper
      BY Kinds DEF TypeInv, PcOK
    <3>2. /\ pc[q] \in DOMAIN WritingPC
          /\ stalled'[q] = [gen |-> port, msg |-> WritingPC[pc[q]]]
      BY <2>1 DEF WriteStalls
    <3>3. pc[q] \in {"hold", "reset", "resetErr", "pollWrite"}
      BY <3>1, <3>2 DEF Labels, WritingPC
    <3> QED BY <3>2, <3>3 DEF WritingPC
  <2>2. CASE WriteStalls(p) /\ q # p
    BY <2>2 DEF WriteStalls, Loaded
  <2>3. CASE Flies(p)
    BY <1>2, <2>3 DEF Flies, Loaded
  <2> QED BY <1>2, <2>1, <2>2, <2>3
<1> QED BY <1>1, <1>2, Flights

LEMMA PollLands ==
  ASSUME PcOK, NEW p \in Writers, NEW l,
         PollAdmitted(p) \/ PollWritten(p) \/ PollWriteFails(p, l)
  PROVE  Lands(p) \/ UNCHANGED <<port, opened, rx, dev>>
<1>1. CASE PollWritten(p)
  BY <1>1 DEF PollWritten, Lands, Messages, InWrite, WritingPC
<1>2. CASE PollAdmitted(p) \/ PollWriteFails(p, l)
  BY <1>2 DEF PollAdmitted, PollWriteFails, WriteFails, linkVars
<1> QED BY <1>1, <1>2

LEMMA RunnerDeeds ==
  ASSUME PcOK, NEW r \in RunID, StartProgram(r) \/ RunnerStep(r)
  PROVE  Deeds
<1> DEFINE p == Runner(r)
<1> p \in Writers
  BY Identities
<1> USE DEF Deeds
<1>1. CASE LineWritten(r)
  <2>1. Delivered(p, "line") /\ InWrite(p)
    BY <1>1 DEF LineWritten, InWrite, WritingPC
  <2>2. Lands(p)
    BY <1>1, <2>1 DEF Lands, Messages
  <2> HIDE DEF p
  <2> QED BY <2>2
<1> HIDE DEF p
<1>2. CASE DrainPoll(r)
  BY <1>2, PollLands DEF p, DrainPoll, linkVars
<1>3. CASE LineWriteFails(r)
  BY <1>3 DEF LineWriteFails, WriteFails
<1>4. CASE StartProgram(r) \/ RunnerGate(r) \/ RunnerAdmit(r) \/ RunnerUnblocked(r)
           \/ RunnerResponse(r) \/ RunnerCancelled(r)
  BY <1>4 DEF StartProgram, RunnerGate, RunnerAdmit, RunnerUnblocked, RunnerResponse,
     RunnerCancelled, linkVars
<1>5. CASE BeginProgramDraining(r) \/ DrainGate(r) \/ DrainBaseline(r) \/ DrainIdle(r)
           \/ DrainResponse(r) \/ DrainCheck(r) \/ RunnerFinish(r) \/ RunnerFail(r)
  BY <1>5 DEF BeginProgramDraining, DrainGate, DrainBaseline, DrainIdle, DrainResponse,
     DrainCheck, RunnerFinish, RunnerFail, linkVars
<1> QED BY <1>1, <1>2, <1>3, <1>4, <1>5 DEF RunnerStep

LEMMA StopDeeds ==
  ASSUME PcOK, Loaded, NEW r \in RunID,
         StopProgram(r) \/ StopStep(r) \/ PendingStopWriteReturns(r)
  PROVE  Deeds
<1> DEFINE p == Stopper(r)
<1> p \in Writers
  BY Identities
<1> USE DEF Deeds
<1> HIDE DEF p
<1>1. CASE StopHoldWritten(r) \/ StopResetWritten(r)
  <2>1. InWrite(p)
    BY <1>1 DEF p, StopHoldWritten, StopResetWritten, InWrite, WritingPC
  <2>2. \/ \E msg \in {"hold", "reset"} : Delivered(p, msg)
        \/ \E msg : WriteFails(p, msg)
    BY <1>1 DEF p, StopHoldWritten, StopResetWritten
  <2> QED BY <2>1, <2>2 DEF Lands, Messages, WriteFails
<1>2. CASE PendingStopWriteReturns(r)
  <2>1. InWrite(p) /\ stalled[p].msg \in {"hold", "reset", "poll"}
    BY <1>2 DEF p, PendingStopWriteReturns, InWrite, Loaded
  <2>2. Delivered(p, stalled[p].msg) \/ WriteFails(p, stalled[p].msg)
    BY <1>2 DEF p, PendingStopWriteReturns
  <2> QED BY <2>1, <2>2 DEF Lands, Messages, WriteFails
<1>3. CASE StopPoll(r)
  BY <1>3, PollLands DEF p, StopPoll, linkVars
<1>4. CASE StopProgram(r) \/ StopAcquires(r) \/ StopCannotAcquire(r)
           \/ StopWriteTimesOut(r) \/ StopVerifies(r) \/ StopBanner(r)
  BY <1>4 DEF StopProgram, StopAcquires, StopCannotAcquire, StopWriteTimesOut,
     StopVerifies, StopBanner, linkVars
<1>5. CASE StopBaseline(r) \/ StopIdle(r) \/ StopFinishes(r) \/ StopFails(r)
  BY <1>5 DEF StopBaseline, StopIdle, StopFinishes, StopFails, linkVars
<1> QED BY <1>1, <1>2, <1>3, <1>4, <1>5 DEF StopStep

LEMMA ClientDeeds ==
  ASSUME PcOK, NEW i \in 1..MaxClients,
         \/ BeginPause(i) \/ BeginResume(i) \/ ClientStep(i)
         \/ \E a \in Actions : BeginAction(i, a)
         \/ ActionStep(i)
  PROVE  Deeds
<1> DEFINE p == Client(i)
<1> p \in Writers
  BY Identities
<1> USE DEF Deeds
<1>1. CASE HoldWritten(i)
  BY <1>1 DEF HoldWritten, Lands, Messages, InWrite, WritingPC
<1>2. CASE ResumeWritten(i)
  <2>1. Delivered(p, "resume") /\ InWrite(p)
    BY <1>2 DEF ResumeWritten, InWrite, WritingPC
  <2>2. Lands(p)
    BY <1>2, <2>1 DEF Lands, Messages
  <2> QED BY <2>2
<1>3. ASSUME NEW a \in Actions, ActionReturns(i, a)
      PROVE  Deeds
  <2>1. pc[p] = ActionWrite[a] /\ a \in {"machineHold", "machineResume", "softReset"}
    BY <1>3 DEF ActionReturns, Actions, ActionWrite
  <2>2. InWrite(p) /\ WritingPC[pc[p]] \in {"hold", "resume", "reset"}
        /\ (WritingPC[pc[p]] = "resume" => a = "machineResume")
    BY <2>1 DEF InWrite, WritingPC, ActionWrite
  <2>3. Delivered(p, WritingPC[pc[p]]) \/ WriteFails(p, WritingPC[pc[p]])
    BY <1>3 DEF ActionReturns
  <2>4. Delivered(p, WritingPC[pc[p]]) => Lands(p)
    BY <1>3, <2>2 DEF Lands, Messages
  <2> QED BY <2>3, <2>4 DEF WriteFails
<1>4. CASE HoldWriteFails(i) \/ ResumeWriteFails(i)
  BY <1>4 DEF HoldWriteFails, ResumeWriteFails, WriteFails
<1>5. CASE BeginPause(i) \/ BeginResume(i) \/ PauseAdmit(i) \/ PauseReturns(i)
             \/ ResumeAdmit(i) \/ ResumeReturns(i)
  BY <1>5 DEF BeginPause, BeginResume, PauseAdmit, PauseReturns, ResumeAdmit, ResumeReturns,
     linkVars
<1>6. CASE \E a \in Actions : BeginAction(i, a) \/ ActionAdmit(i, a)
  BY <1>6 DEF BeginAction, ActionAdmit, linkVars
<1> QED BY <1>1, <1>2, <1>3, <1>4, <1>5, <1>6 DEF ClientStep, ActionStep

LEMMA OtherDeeds ==
  ASSUME PcOK,
         \/ \E g \in Generation : BeginStatusPoll(g) \/ EndStatusPoll(g) \/ VerifierStep(g)
         \/ Connect \/ ConnectorStep \/ Disconnect \/ CloserStep
         \/ BridgeStep \/ WatchdogEStop
         \/ Machine \/ PortDrops \/ \E p \in Writers : WriteStalls(p)
         \/ UNCHANGED vars
  PROVE  Deeds
<1> USE DEF Deeds
<1>1. ASSUME NEW g \in Generation, BeginStatusPoll(g) \/ EndStatusPoll(g)
      PROVE  Deeds
  <2>1. Poller(g) \in Writers
    BY Identities
  <2>2. CASE BeginStatusPoll(g)
    BY <2>2 DEF BeginStatusPoll, linkVars
  <2>3. CASE EndStatusPoll(g)
    BY <2>1, <2>3 DEF EndStatusPoll, Lands, Messages, InWrite, WritingPC, WriteFails
  <2> QED BY <1>1, <2>2, <2>3
<1>2. ASSUME NEW g \in Generation, VerifierStep(g)
      PROVE  Deeds
  <2>1. Verifier(g) \in Writers
    BY Identities
  <2>2. CASE VerifierPoll(g)
    BY <2>1, <2>2, PollLands DEF VerifierPoll, linkVars
  <2>3. CASE VerifierBaseline(g) \/ VerifierIdle(g) \/ VerifierConcludes(g)
    BY <2>3 DEF VerifierBaseline, VerifierIdle, VerifierConcludes, linkVars
  <2> QED BY <1>2, <2>2, <2>3 DEF VerifierStep
<1>3. CASE CloseCandidate \/ DisconnectCloses
  BY <1>3 DEF CloseCandidate, DisconnectCloses, ClosesPort, LosesPort
<1>4. CASE Connect \/ OpenPort \/ OpenFails \/ NoteOpen \/ Validated
  BY <1>4 DEF Connect, OpenPort, OpenFails, NoteOpen, Validated, linkVars
<1>5. CASE ValidationFails \/ CommitConnect \/ SuppressCandidate \/ AbandonConnect
  BY <1>5 DEF ValidationFails, CommitConnect, SuppressCandidate, AbandonConnect, linkVars
<1>6. CASE Disconnect \/ DisconnectStopsPolling \/ DisconnectDrains \/ DisconnectFails
           \/ DisconnectReleases \/ DisconnectClears
  BY <1>6 DEF Disconnect, DisconnectStopsPolling, DisconnectDrains, DisconnectFails,
     DisconnectReleases, DisconnectClears, linkVars
<1>7. CASE BridgeStep
  <2>1. CASE BridgeDiscards \/ BridgeStatus \/ BridgeEStop \/ BridgeLine
    BY <1>7, <2>1 DEF BridgeDiscards, BridgeStatus, BridgeEStop, BridgeLine, BridgeAccepts
  <2>2. CASE BridgeIgnoresDisconnect \/ BridgeDisconnected
    BY <1>7, <2>2 DEF BridgeIgnoresDisconnect, BridgeDisconnected
  <2>3. CASE BridgeFailsRun \/ BridgeClears
    BY <2>3 DEF BridgeFailsRun, BridgeClears, linkVars
  <2> QED BY <1>7, <2>1, <2>2, <2>3 DEF BridgeStep
<1>8. CASE PortDrops
  BY <1>8 DEF PortDrops, LosesPort
<1>9. CASE WatchdogEStop \/ Machine \/ UNCHANGED vars \/ \E p \in Writers : WriteStalls(p)
  BY <1>9 DEF WatchdogEStop, vars, WriteStalls
<1> QED BY <1>1, <1>2, <1>3, <1>4, <1>5, <1>6, <1>7, <1>8, <1>9 DEF ConnectorStep, CloserStep

LEMMA DoesDeeds ==
  ASSUME TypeInv, Loaded, [Next]_vars
  PROVE  Deeds
BY RunnerDeeds, StopDeeds, ClientDeeds, OtherDeeds DEF Next, TypeInv

-----------------------------------------------------------------------------
(* Where a run, its pause token and its paused state come from. *)

LEMMA RunKept ==
  ASSUME NEW c \in Controller, NEW ev, NEW state \in MachineState, NEW g, NEW b
  PROVE  /\ NoteInput(c, ev).run = c.run /\ NoteInput(c, ev).status = c.status
         /\ NoteStatusReport(c, state).run = c.run /\ NoteStatusReport(c, state).status = c.status
         /\ ConcludeVerification(c, g, b).run = c.run
         /\ ConcludeVerification(c, g, b).status = c.status
         /\ CommitConnection(c, g).run = c.run /\ CommitConnection(c, g).status = c.status
<1>1. NoteInput(c, ev).run = c.run /\ NoteInput(c, ev).status = c.status
  BY DEF NoteInput, NoteAlarm, NoteResetBanner, Controller
<1>2. NoteStatusReport(c, state).run = c.run /\ NoteStatusReport(c, state).status = c.status
  BY DEF NoteStatusReport, NoteAlarm, NoteStatusResponse, Controller
<1>3. /\ ConcludeVerification(c, g, b).run = c.run
      /\ ConcludeVerification(c, g, b).status = c.status
  BY DEF ConcludeVerification, Controller
<1>4. CommitConnection(c, g).run = c.run /\ CommitConnection(c, g).status = c.status
  BY DEF CommitConnection, FinishConnectAttempt, Controller
<1> QED BY <1>1, <1>2, <1>3, <1>4

\* A pause token is given by the Pause that asks for it.
PauseFrom == ctl'.run.pause = ctl.run.pause \/ ctl'.run.pause = Nobody
             \/ \E i \in 1..MaxClients : BeginPause(i) /\ ctl'.run.pause = Client(i)
RunFrom == ctl'.run.id = ctl.run.id \/ ctl'.run.id = 0
           \/ \E r \in RunID : StartProgram(r) /\ ctl'.run.pause = Nobody
CommitsPause(i) ==
  /\ PauseReturns(i) /\ pc[Client(i)] = "holdCommit" /\ ctl.run.pause = Client(i)
  /\ ctl.status \in {"running", "draining"} /\ ctl'.run.id = ctl.run.id
PausedFrom == ctl'.status = "paused" =>
  \/ ctl.status = "paused" /\ ctl'.run.id = ctl.run.id
  \/ \E i \in 1..MaxClients : CommitsPause(i)

LEMMA RunHistory ==
  ASSUME IInv, [Next]_vars
  PROVE  PauseFrom /\ RunFrom /\ PausedFrom
<1> ctl \in Controller
  BY DEF IInv, TypeInv
<1>1. CASE Steady(ctl, ctl')
  BY <1>1 DEF Steady, Calm, PauseFrom, RunFrom, PausedFrom, Executing
<1>2. CASE ctl'.run = ctl.run /\ ctl'.status = ctl.status
  BY <1>2 DEF PauseFrom, RunFrom, PausedFrom
<1>3. CASE BridgeLine \/ BridgeStatus \/ \E g \in Generation : VerifierConcludes(g)
  <2>1. BridgeStatus => NextEvent.kind \in MachineState
    BY DEF BridgeStatus, IsStatus, MachineState
  <2>2. "Idle" \in MachineState
    BY DEF MachineState
  <2>3. \/ ctl' = NoteInput(ctl, NextEvent)
        \/ \E state \in MachineState : ctl' = NoteStatusReport(ctl, state)
        \/ \E g, b : ctl' = ConcludeVerification(ctl, g, b)
    BY <1>3, <2>1 DEF BridgeLine, BridgeStatus, VerifierConcludes
  <2>4. ctl'.run = ctl.run /\ ctl'.status = ctl.status
    BY <2>2, <2>3, RunKept
  <2> QED BY <1>2, <2>4
<1>4. ASSUME NEW i \in 1..MaxClients, BeginPause(i)
      PROVE  PauseFrom /\ RunFrom /\ PausedFrom
  <2>1. /\ ctl'.run.pause = Client(i) /\ ctl'.run.id = ctl.run.id
        /\ ctl'.status = ctl.status
    BY <1>4 DEF BeginPause, BeginPauseTransition, Controller, RunType
  <2> QED BY <1>4, <2>1 DEF PauseFrom, RunFrom, PausedFrom
<1>5. ASSUME NEW i \in 1..MaxClients, PauseReturns(i)
      PROVE  PauseFrom /\ RunFrom /\ PausedFrom
  <2> DEFINE d == EndPauseTransition(ctl, Client(i))
  <2>1. /\ d \in Controller /\ d.run.id = ctl.run.id /\ d.run.pause \in {ctl.run.pause, Nobody}
        /\ d.status = ctl.status
    <3>1. d \in Controller
      BY EndPauseTransitionType
    <3>2. d.run.id = ctl.run.id /\ d.run.pause \in {ctl.run.pause, Nobody} /\ d.status = ctl.status
      BY DEF EndPauseTransition, Controller, RunType
    <3> QED BY <3>1, <3>2
  <2>2. \/ ctl' = ctl \/ ctl' = d
        \/ /\ pc[Client(i)] = "holdCommit" /\ ctl.run.pause = Client(i)
           /\ ctl.status \in {"running", "draining"}
           /\ ctl' = [d EXCEPT !.status = "paused"]
    BY <1>5 DEF PauseReturns, CommitPause
  <2> HIDE DEF d
  <2>3. CASE ctl' = ctl \/ ctl' = d
    BY <2>1, <2>3 DEF PauseFrom, RunFrom, PausedFrom
  <2>4. CASE /\ pc[Client(i)] = "holdCommit" /\ ctl.run.pause = Client(i)
             /\ ctl.status \in {"running", "draining"}
             /\ ctl' = [d EXCEPT !.status = "paused"]
    <3>1. ctl'.run = d.run
      BY <2>1, <2>4 DEF Controller
    <3> QED BY <1>5, <2>1, <2>4, <3>1 DEF PauseFrom, RunFrom, PausedFrom, CommitsPause
  <2> QED BY <2>2, <2>3, <2>4
<1>6. ASSUME NEW r \in RunID, StartProgram(r)
      PROVE  PauseFrom /\ RunFrom /\ PausedFrom
  <2>1. ctl'.run.pause = Nobody /\ ctl'.status = "running"
    <3>1. ctl'.run = [NoRun EXCEPT !.id = r, !.gen = ctl.gen] /\ ctl'.status = "running"
      BY <1>6 DEF StartProgram, StartRun, Controller
    <3> QED BY <3>1 DEF NoRun
  <2> QED BY <1>6, <2>1 DEF PauseFrom, RunFrom, PausedFrom
<1>7. ASSUME NEW r \in RunID, RunnerFinish(r) \/ StopFinishes(r)
      PROVE  PauseFrom /\ RunFrom /\ PausedFrom
  <2>1. ctl' = ctl \/ (ctl'.run = NoRun /\ ctl'.status # "paused")
    BY <1>7 DEF RunnerFinish, FinishProgramSuccess, StopFinishes, FinishProgramStop, Controller
  <2> QED BY <2>1 DEF NoRun, PauseFrom, RunFrom, PausedFrom
<1>8. ASSUME NEW r \in RunID, StopProgram(r)
      PROVE  PauseFrom /\ RunFrom /\ PausedFrom
  <2>1. ctl'.run.pause = Nobody /\ ctl'.run.id = ctl.run.id /\ ctl'.status = "stopping"
    BY <1>8 DEF StopProgram, BeginStop, Controller, RunType
  <2> QED BY <2>1 DEF PauseFrom, RunFrom, PausedFrom
<1>9. ASSUME NEW r \in RunID, StopMarksReset(r)
      PROVE  PauseFrom /\ RunFrom /\ PausedFrom
  BY <1>2, <1>9 DEF StopMarksReset, MarkStopResetWriteIssued, EndReservation, EndRealtimeWrite,
     Controller
<1>10. CASE CommitConnect
  <2>1. "Idle" \in MachineState
    BY DEF MachineState
  <2>2. ctl' = ctl \/ ctl' = CommitConnection(ctl, opened)
    BY <1>10 DEF CommitConnect
  <2>3. ctl'.run = ctl.run /\ ctl'.status = ctl.status
    BY <2>1, <2>2, RunKept
  <2> QED BY <1>2, <2>3
<1> QED BY <1>1, <1>3, <1>4, <1>5, <1>6, <1>7, <1>8, <1>9, <1>10, CtlTurns DEF Turns, Hears, Gives

\* A caller's aim is its own.
LEMMA AimStays ==
  ASSUME TypeInv, [Next]_vars, NEW i \in 1..MaxClients, pc'[Client(i)] = pc[Client(i)]
  PROVE  aim'[i] = aim[i]
<1> PcOK /\ aim \in [1..MaxClients -> 0..MaxRuns]
  BY DEF TypeInv, RunsOK
<1>1. CASE \E r \in RunID : \/ StartProgram(r) \/ RunnerStep(r) \/ StopProgram(r) \/ StopStep(r)
                            \/ PendingStopWriteReturns(r)
  <2>1. ASSUME NEW r \in RunID, NEW p, NEW l, PollAdmitted(p) \/ PollWritten(p) \/ PollWriteFails(p, l)
        PROVE  aim' = aim
    BY <2>1 DEF PollAdmitted, PollWritten, PollWriteFails, runVars
  <2>2. ASSUME NEW r \in RunID, StartProgram(r) \/ RunnerStep(r)
        PROVE  aim' = aim
    BY <2>1, <2>2 DEF StartProgram, RunnerStep, RunnerGate, RunnerAdmit, RunnerUnblocked, LineWritten,
       LineWriteFails, RunnerResponse, RunnerCancelled, BeginProgramDraining, DrainGate,
       DrainBaseline, DrainPoll, DrainIdle, DrainResponse, DrainCheck, RunnerFinish, RunnerFail,
       runVars
  <2>3. ASSUME NEW r \in RunID, StopProgram(r) \/ StopStep(r) \/ PendingStopWriteReturns(r)
        PROVE  aim' = aim
    BY <2>1, <2>3 DEF StopProgram, StopStep, PendingStopWriteReturns, StopAcquires,
       StopCannotAcquire, StopHoldWritten, StopMarksReset, StopResetWritten, StopWriteTimesOut,
       StopVerifies, StopBanner, StopBaseline, StopPoll, StopIdle, StopFinishes, StopFails, runVars
  <2> QED BY <1>1, <2>2, <2>3
<1>2. ASSUME NEW k \in 1..MaxClients, ClientStep(k) \/ BeginPause(k) \/ BeginResume(k)
      PROVE  aim'[i] = aim[i]
  <2>1. \A l : Goto(Client(k), l) => pc'[Client(k)] = l
    BY GotoHere, Identities
  <2>2. aim' = aim \/ \E x : aim' = [aim EXCEPT ![k] = x]
    BY <1>2 DEF ClientStep, BeginPause, BeginResume, PauseAdmit, HoldWritten, HoldWriteFails,
       PauseReturns, ResumeAdmit, ResumeWritten, ResumeWriteFails, ResumeReturns, runVars
  <2>3. CASE k # i
    BY <2>2, <2>3
  <2>4. CASE k = i
    <3>1. CASE BeginPause(i) \/ PauseReturns(i) \/ BeginResume(i) \/ ResumeWriteFails(i)
               \/ ResumeReturns(i) \/ ResumeAdmit(i)
      BY <2>1, <2>4, <3>1 DEF BeginPause, PauseReturns, BeginResume, ResumeWriteFails, ResumeReturns,
         ResumeAdmit
    <3>2. CASE PauseAdmit(i) \/ HoldWritten(i) \/ HoldWriteFails(i) \/ ResumeWritten(i)
      BY <3>2 DEF PauseAdmit, HoldWritten, HoldWriteFails, ResumeWritten, runVars
    <3> QED BY <1>2, <2>4, <3>1, <3>2 DEF ClientStep
  <2> QED BY <2>3, <2>4
<1>3. ASSUME NEW k \in 1..MaxClients, (\E a \in Actions : BeginAction(k, a)) \/ ActionStep(k)
      PROVE  aim' = aim
  BY <1>3 DEF BeginAction, ActionStep, ActionAdmit, ActionReturns, runVars
<1>4. CASE \E g \in Generation : BeginStatusPoll(g) \/ EndStatusPoll(g) \/ VerifierStep(g)
  BY <1>4 DEF BeginStatusPoll, EndStatusPoll, VerifierStep, VerifierBaseline, VerifierPoll,
     VerifierIdle, VerifierConcludes, PollAdmitted, PollWritten, PollWriteFails, runVars
<1>5. CASE Connect \/ ConnectorStep \/ Disconnect \/ CloserStep
  BY <1>5 DEF Connect, ConnectorStep, OpenPort, OpenFails, NoteOpen, Validated, ValidationFails,
     CommitConnect, SuppressCandidate, CloseCandidate, AbandonConnect, Disconnect, CloserStep,
     DisconnectStopsPolling, DisconnectDrains, DisconnectCloses, DisconnectFails,
     DisconnectReleases, DisconnectClears, runVars
<1>6. CASE BridgeStep \/ WatchdogEStop
  BY <1>6 DEF BridgeStep, BridgeDiscards, BridgeAccepts, BridgeStatus, BridgeEStop, BridgeLine,
     BridgeFailsRun, BridgeIgnoresDisconnect, BridgeDisconnected, BridgeClears, WatchdogEStop,
     runVars
<1>7. CASE Machine \/ PortDrops \/ UNCHANGED vars \/ \E p \in Writers : WriteStalls(p)
  BY <1>7 DEF Machine, PortDrops, vars, WriteStalls, runVars
<1> QED BY <1>1, <1>2, <1>3, <1>4, <1>5, <1>6, <1>7 DEF Next

-----------------------------------------------------------------------------
(* The paused machine. *)

Halted(d) == d.held \/ d.alarm \/ (~d.motion /\ d.lines = 0)

\* An alarm ends motion.
AlarmStops == dev.alarm => ~dev.motion

\* A line on its way belongs to the current run, or to none.
LinesOwned == \A r \in RunID : Sends(r) => ctl.run.id \in {0, r}

\* While the run is paused the machine is held, has stopped or has nothing to do,
\* or a Resume has released it and has still to commit.
HeldWhilePaused ==
  ctl.status = "paused" =>
    /\ pc[Runner(ctl.run.id)] # "write"
    /\ \/ Halted(dev)
       \/ \E i \in 1..MaxClients : pc[Client(i)] = "resumeCommit" /\ aim[i] = ctl.run.id

\* A Pause whose Hold was written, and that still has its token, finds the machine held.
HeldBeforePause ==
  \A i \in 1..MaxClients :
    pc[Client(i)] = "holdCommit" /\ ctl.run.pause = Client(i) /\ ctl.run.id # 0 =>
      pc[Runner(ctl.run.id)] # "write" /\ Halted(dev)

Pausing(k) == pc[Client(k)] = "holdCommit" /\ ctl.run.pause = Client(k)

\* A Resume that is being written is of the current run, and no Pause is about to
\* commit; a machine-wide Resume is written without a run.
ResumesOwn ==
  \A i \in 1..MaxClients :
    pc[Client(i)] = "resumeWrite" /\ Owns(Client(i)) =>
      ctl.run.id \in {0, aim[i]} /\ \A k \in 1..MaxClients : ~Pausing(k)
ResumesAlone ==
  \A i \in 1..MaxClients :
    pc[Client(i)] = "machineResumeWrite" /\ Owns(Client(i)) => ctl.run.id = 0

Holding == /\ Loaded /\ AlarmStops /\ LinesOwned /\ HeldWhilePaused /\ HeldBeforePause
           /\ ResumesOwn /\ ResumesAlone

LEMMA LandsOwns ==
  ASSUME Reserved, NEW p \in Writers, Lands(p)
  PROVE  Owns(p) /\ ctl.write = p /\ port # 0
BY DEF Lands, Delivered, Owns, Reserved

\* While a port is open, whoever writes and is no coordinator of a Stop writes to it.
LEMMA WritesHere ==
  ASSUME Behind, NEW p \in Writers, p[1] # "stopper", port # 0, InWrite(p)
  PROVE  Owns(p)
BY DEF Behind, Owns, InWrite, Handle

LEMMA DevType == dev \in DeviceType => /\ dev.lines \in Nat /\ dev.motion \in BOOLEAN
                                       /\ dev.held \in BOOLEAN /\ dev.alarm \in BOOLEAN
BY DEF DeviceType

\* The fields of the machine after a message has reached it.
LEMMA Reacts ==
  ASSUME NEW d \in DeviceType, NEW msg \in Messages, NEW x, x \in Reactions(d, msg)
  PROVE  /\ x.dev.alarm /\ x.dev.motion => d.alarm /\ d.motion
         /\ x.dev.motion => d.motion
         /\ msg = "hold" => x.dev.held \/ x.dev.alarm
         /\ msg = "poll" => x.dev = d
         /\ msg = "reset" => x.dev.lines = 0 /\ ~x.dev.motion
<1>1. d = [lines |-> d.lines, motion |-> d.motion, held |-> d.held, alarm |-> d.alarm]
      /\ d.alarm \in BOOLEAN /\ d.motion \in BOOLEAN
  BY DEF DeviceType
<1>2. CASE msg = "line"
  <2>1. x.dev = [d EXCEPT !.lines = d.lines + 1]
    BY <1>2 DEF Reactions
  <2>2. x.dev.motion = d.motion /\ x.dev.alarm = d.alarm
    BY <1>1, <2>1
  <2> QED BY <1>2, <2>2
<1>3. CASE msg = "hold"
  <2>1. x.dev = [d EXCEPT !.held = ~d.alarm]
    BY <1>3 DEF Reactions
  <2>2. x.dev.motion = d.motion /\ x.dev.alarm = d.alarm /\ x.dev.held = ~d.alarm
    BY <1>1, <2>1
  <2> QED BY <1>3, <2>2
<1>4. CASE msg = "resume"
  <2>1. x.dev = [d EXCEPT !.held = FALSE]
    BY <1>4 DEF Reactions
  <2>2. x.dev.motion = d.motion /\ x.dev.alarm = d.alarm
    BY <1>1, <2>1
  <2> QED BY <1>4, <2>2
<1>5. CASE msg = "poll"
  <2>1. x.dev = d
    BY <1>5 DEF Reactions
  <2> QED BY <1>5, <2>1
<1>6. CASE msg = "reset"
  <2>1. Reactions(d, msg) =
          {[dev |-> AtRest, says |-> <<"banner">>]}
          \cup {[dev |-> [AtRest EXCEPT !.alarm = locked],
                 says |-> <<"alarm3", "banner">>] :
                  locked \in IF d.motion THEN BOOLEAN ELSE {}}
    BY <1>6 DEF Reactions
  <2>2. x.dev = AtRest \/ \E b : x.dev = [AtRest EXCEPT !.alarm = b]
    BY <2>1
  <2>3. AtRest.lines = 0 /\ AtRest.motion = FALSE
    BY DEF AtRest
  <2>4. \A b : [AtRest EXCEPT !.alarm = b].lines = 0 /\ [AtRest EXCEPT !.alarm = b].motion = FALSE
    BY DEF AtRest
  <2>5. x.dev.lines = 0 /\ x.dev.motion = FALSE
    BY <2>2, <2>3, <2>4
  <2> QED BY <1>6, <2>5
<1> QED BY <1>2, <1>3, <1>4, <1>5, <1>6 DEF Messages

\* What the machine does of itself never starts a motion without a line.
LEMMA MachineMoves ==
  ASSUME dev \in DeviceType, Machine
  PROVE  \/ /\ dev.lines > 0 /\ ~dev.alarm /\ ~dev'.alarm /\ dev'.held = dev.held
         \/ /\ dev.lines > 0 /\ dev'.lines = dev.lines - 1 /\ dev'.motion = dev.motion
            /\ dev'.alarm = dev.alarm /\ dev'.held = dev.held
         \/ /\ dev'.lines = dev.lines /\ ~dev'.motion
            /\ dev'.alarm = dev.alarm /\ dev'.held = dev.held
         \/ /\ dev'.alarm /\ ~dev'.motion
         \/ dev' = AtRest
<1>1. dev = [lines |-> dev.lines, motion |-> dev.motion, held |-> dev.held, alarm |-> dev.alarm]
      /\ dev.alarm \in BOOLEAN
  BY DEF DeviceType
<1>2. CASE MachineAccepts
  <2>1. dev' = [dev EXCEPT !.lines = dev.lines - 1, !.motion = TRUE]
    BY <1>2 DEF MachineAccepts
  <2>2. dev'.alarm = dev.alarm /\ dev'.held = dev.held
    BY <1>1, <2>1
  <2> QED BY <1>2, <2>2 DEF MachineAccepts
<1>3. CASE MachineRejects
  <2>1. dev' = [dev EXCEPT !.lines = dev.lines - 1]
    BY <1>3 DEF MachineRejects
  <2>2. dev'.lines = dev.lines - 1 /\ dev'.motion = dev.motion /\ dev'.alarm = dev.alarm
        /\ dev'.held = dev.held
    BY <1>1, <2>1
  <2> QED BY <1>3, <2>2 DEF MachineRejects
<1>4. CASE MachineFinishes
  <2>1. dev' = [dev EXCEPT !.motion = FALSE]
    BY <1>4 DEF MachineFinishes
  <2>2. dev'.lines = dev.lines /\ dev'.motion = FALSE /\ dev'.alarm = dev.alarm
        /\ dev'.held = dev.held
    BY <1>1, <2>1
  <2> QED BY <2>2
<1>5. CASE MachineUpset
  <2>1. dev' = [AtRest EXCEPT !.alarm = TRUE, !.lines = dev.lines] \/ dev' = AtRest
    BY <1>5 DEF MachineUpset
  <2>2. ASSUME dev' = [AtRest EXCEPT !.alarm = TRUE, !.lines = dev.lines]
        PROVE  dev'.alarm = TRUE /\ dev'.motion = FALSE
    BY <2>2 DEF AtRest
  <2> QED BY <2>1, <2>2
<1> QED BY <1>2, <1>3, <1>4, <1>5 DEF Machine

LEMMA AlarmStopsNext ==
  ASSUME TypeInv, Loaded, AlarmStops, [Next]_vars
  PROVE  AlarmStops'
<1> dev \in DeviceType
  BY DEF TypeInv, LinkOK
<1>1. CASE dev' = dev
  BY <1>1 DEF AlarmStops
<1>2. CASE Machine
  <2>1. AtRest.lines = 0 /\ AtRest.motion = FALSE
    BY DEF AtRest
  <2> QED BY <1>2, <2>1, MachineMoves DEF AlarmStops
<1>3. CASE OpenPort
  BY <1>3 DEF OpenPort, AtRest, AlarmStops
<1>4. ASSUME NEW p \in Writers, Lands(p)
      PROVE  AlarmStops'
  <2>1. PICK msg \in Messages : \E x \in Reactions(dev, msg) : dev' = x.dev
    BY <1>4 DEF Lands, Delivered
  <2>2. PICK x \in Reactions(dev, msg) : dev' = x.dev
    BY <2>1
  <2> QED BY <2>1, <2>2, Reacts DEF AlarmStops
<1> QED BY <1>1, <1>2, <1>3, <1>4, DoesDeeds DEF Deeds, LosesPort, StopMarksReset

\* Only a line or a Resume brings a halted machine out of it.
LEMMA HaltedNext ==
  ASSUME TypeInv, Loaded, Reserved, [Next]_vars, Halted(dev)
  PROVE  \/ Halted(dev')
         \/ \E r \in RunID : LineWritten(r) /\ Sends(r)
         \/ \E i \in 1..MaxClients :
              Owns(Client(i)) /\ (ResumeWritten(i) \/ ActionReturns(i, "machineResume"))
<1> dev \in DeviceType
  BY DEF TypeInv, LinkOK
<1>1. CASE dev' = dev
  BY <1>1 DEF Halted
<1>2. CASE Machine
  <2>1. AtRest.lines = 0 /\ AtRest.motion = FALSE /\ dev.lines \in Nat
    BY DEF AtRest, DeviceType
  <2> QED BY <1>2, <2>1, MachineMoves DEF Halted
<1>3. CASE OpenPort
  BY <1>3 DEF OpenPort, AtRest, Halted
<1>4. ASSUME NEW p \in Writers, Lands(p)
      PROVE  \/ Halted(dev')
             \/ \E r \in RunID : LineWritten(r) /\ Sends(r)
             \/ \E i \in 1..MaxClients :
                  Owns(Client(i)) /\ (ResumeWritten(i) \/ ActionReturns(i, "machineResume"))
  <2>1. Owns(p)
    BY <1>4, LandsOwns
  <2>2. PICK msg \in Messages :
          /\ (\E x \in Reactions(dev, msg) : dev' = x.dev)
          /\ msg = "line" => \E r \in RunID : p = Runner(r) /\ LineWritten(r)
          /\ msg = "resume" => \E i \in 1..MaxClients :
               p = Client(i) /\ (ResumeWritten(i) \/ ActionReturns(i, "machineResume"))
    BY <1>4 DEF Lands, Delivered
  <2>3. CASE msg = "line"
    BY <2>1, <2>2, <2>3 DEF LineWritten, Sends
  <2>4. CASE msg = "resume"
    BY <2>1, <2>2, <2>4
  <2>5. CASE msg \in {"hold", "poll", "reset"}
    <3>1. PICK x \in Reactions(dev, msg) : dev' = x.dev
      BY <2>2
    <3> QED BY <2>5, <3>1, Reacts DEF Halted
  <2> QED BY <2>3, <2>4, <2>5 DEF Messages
<1> QED BY <1>1, <1>2, <1>3, <1>4, DoesDeeds DEF Deeds, LosesPort, StopMarksReset

\* How a client comes to the labels that matter, and leaves the one before the
\* commit of a Resume.
LEMMA ClientArrives ==
  ASSUME PcOK, NEW i \in 1..MaxClients, Acts(Client(i)), pc'[Client(i)] # pc[Client(i)]
  PROVE  /\ pc'[Client(i)] = "holdCommit" => HoldWritten(i)
         /\ pc'[Client(i)] = "resumeWrite" =>
              /\ ctl.run.id = aim[i] /\ ctl.run.pause = Nobody /\ ctl.write = Nobody
              /\ ctl' = Reserve(ctl, Client(i)) /\ aim' = aim
         /\ pc'[Client(i)] = "machineResumeWrite" =>
              ~ProgramActive(ctl) /\ ctl' = Reserve(ctl, Client(i))
         /\ pc[Client(i)] = "resumeCommit" => ResumeReturns(i)
<1> DEFINE p == Client(i)
<1> p \in Procs
  BY Identities
<1>1. \A l : Goto(p, l) => pc'[p] = l
  BY GotoHere
<1>2. \/ BeginPause(i) \/ BeginResume(i) \/ ClientStep(i)
      \/ \E a \in Actions : BeginAction(i, a)
      \/ ActionStep(i)
  BY WhoActs
<1> HIDE DEF p
<1>3. CASE BeginPause(i) \/ BeginResume(i)
  BY <1>1, <1>3 DEF p, BeginPause, BeginResume
<1>4. CASE PauseAdmit(i) \/ HoldWritten(i) \/ HoldWriteFails(i) \/ PauseReturns(i)
  BY <1>1, <1>4 DEF p, PauseAdmit, HoldWritten, HoldWriteFails, PauseReturns
<1>5. CASE ResumeWritten(i) \/ ResumeWriteFails(i) \/ ResumeReturns(i)
  BY <1>1, <1>5 DEF p, ResumeWritten, ResumeWriteFails, ResumeReturns
<1>6. CASE ResumeAdmit(i)
  BY <1>1, <1>6 DEF p, ResumeAdmit, MayWriteAction, MayResume, Admitted
<1>7. ASSUME NEW a \in Actions, BeginAction(i, a) \/ ActionReturns(i, a)
      PROVE  pc'[p] \notin {"holdCommit", "resumeWrite", "machineResumeWrite"}
             /\ pc[p] # "resumeCommit"
  BY <1>1, <1>7 DEF p, BeginAction, ActionReturns, Actions, ActionWrite
<1>8. ASSUME NEW a \in Actions, ActionAdmit(i, a)
      PROVE  /\ pc'[p] \notin {"holdCommit", "resumeWrite"} /\ pc[p] # "resumeCommit"
             /\ pc'[p] = "machineResumeWrite" => ~ProgramActive(ctl) /\ ctl' = Reserve(ctl, p)
  <2>1. a \in {"machineHold", "machineResume", "softReset"}
    BY DEF Actions, ActionWrite
  <2>2. /\ ActionWrite[a] \notin {"holdCommit", "resumeWrite"}
        /\ ActionWrite[a] = "machineResumeWrite" => a = "machineResume"
    BY <2>1 DEF ActionWrite
  <2>3. /\ pc[p] = a
        /\ \/ pc'[p] = "idle"
           \/ /\ pc'[p] = ActionWrite[a] /\ ctl' = Reserve(ctl, p)
              /\ ActionAllowed(ctl, a)
    BY <1>1, <1>8 DEF p, ActionAdmit
  <2> QED BY <2>1, <2>2, <2>3 DEF ActionAllowed
<1> QED BY <1>2, <1>3, <1>4, <1>5, <1>6, <1>7, <1>8 DEF p, ClientStep, ActionStep

\* No run begins while somebody owns the transport.
LEMMA NoRunBegins ==
  ASSUME RInv, [Next]_vars, NEW p \in Writers, Owns(p)
  PROVE  ctl'.run.id \in {ctl.run.id, 0}
<1>1. ctl.write # Nobody
  BY FreeMeansUnowned DEF RInv, Serial
<1>2. \A r \in RunID : ~StartProgram(r)
  BY <1>1 DEF StartProgram, Admitted
<1> QED BY <1>2, RunHistory DEF RunFrom, RInv

\* A Pause gets to its commit by writing its Hold.
LEMMA PausingFrom ==
  ASSUME RInv, [Next]_vars, NEW k \in 1..MaxClients, Pausing(k)'
  PROVE  HoldWritten(k) \/ (Pausing(k) /\ pc'[Client(k)] = pc[Client(k)])
<1> DEFINE p == Client(k)
<1> p \in Procs /\ PcOK /\ ClientSet \subseteq Writers
  BY Identities DEF RInv, IInv, TypeInv, Writers
<1>1. CASE pc'[p] # pc[p]
  BY <1>1, Stands, ClientArrives DEF Pausing
<1>2. CASE pc'[p] = pc[p]
  <2>1. Client(k) # Nobody
    BY DEF Client, Nobody
  <2>2. ASSUME NEW i \in 1..MaxClients, BeginPause(i), ctl'.run.pause = Client(i)
        PROVE  FALSE
    <3>1. i = k
      BY <2>2 DEF Pausing, Client
    <3>2. pc'[p] = "holdAdmit"
      BY <2>2, <3>1, GotoHere DEF BeginPause
    <3> QED BY <3>2 DEF Pausing
  <2> QED BY <1>2, <2>1, <2>2, RunHistory DEF PauseFrom, Pausing, RInv
<1> QED BY <1>1, <1>2

LEMMA WrittenOwns ==
  ASSUME Reserved, NEW i \in 1..MaxClients, HoldWritten(i)
  PROVE  Owns(Client(i)) /\ ctl.write = Client(i) /\ port # 0 /\ pc[Client(i)] = "holdWrite"
<1>1. Client(i) \in Writers
  BY Identities
<1>2. Owns(Client(i)) /\ port # 0 /\ pc[Client(i)] = "holdWrite"
  BY DEF HoldWritten, Delivered, Owns, InWrite, WritingPC
<1> QED BY <1>1, <1>2 DEF Reserved

LEMMA LinesOwnedNext ==
  ASSUME RInv, LinesOwned, [Next]_vars, Passes
  PROVE  LinesOwned'
<1> SUFFICES ASSUME NEW r \in RunID, Sends(r)' PROVE ctl'.run.id \in {0, r}
  BY DEF LinesOwned
<1> DEFINE p == Runner(r)
<1> p \in Writers /\ p \in Procs /\ PcOK /\ ctl \in Controller
  BY Identities DEF RInv, IInv, TypeInv
<1>1. CASE pc'[p] = pc[p]
  <2>1. Owns(p)
    BY <1>1 DEF Passes, Sends
  <2>2. Sends(r)
    BY <1>1, <2>1 DEF Sends
  <2> QED BY <2>1, <2>2, NoRunBegins DEF LinesOwned
<1>2. CASE pc'[p] # pc[p]
  <2>1. StartProgram(r) \/ RunnerStep(r)
    BY <1>2, Stands, WhoActs
  <2>2. /\ MayWriteLine(ctl, r)
        /\ ctl' = [Reserve(ctl, Runner(r)) EXCEPT !.run.work = TRUE]
    BY <2>1, RunnerArrives DEF Sends
  <2>3. ctl'.run.id = ctl.run.id
    BY <2>2 DEF Reserve, Controller, RunType
  <2> QED BY <2>2, <2>3 DEF MayWriteLine
<1> QED BY <1>1, <1>2

LEMMA ResumesAloneNext ==
  ASSUME RInv, ResumesAlone, [Next]_vars, Passes
  PROVE  ResumesAlone'
<1> SUFFICES ASSUME NEW i \in 1..MaxClients, pc'[Client(i)] = "machineResumeWrite", Owns(Client(i))'
             PROVE  ctl'.run.id = 0
  BY DEF ResumesAlone
<1> DEFINE p == Client(i)
<1> p \in Writers /\ p \in Procs /\ PcOK /\ ctl \in Controller
  BY Identities DEF RInv, IInv, TypeInv
<1>1. CASE pc'[p] = pc[p]
  <2>1. Owns(p)
    BY <1>1 DEF Passes
  <2> QED BY <1>1, <2>1, NoRunBegins DEF ResumesAlone
<1>2. CASE pc'[p] # pc[p]
  <2>1. ~ProgramActive(ctl) /\ ctl' = Reserve(ctl, p)
    BY <1>2, Stands, ClientArrives
  <2> QED BY <2>1 DEF ProgramActive, Reserve, Controller
<1> QED BY <1>1, <1>2

LEMMA ResumesOwnNext ==
  ASSUME RInv, ResumesOwn, [Next]_vars, Passes
  PROVE  ResumesOwn'
<1> SUFFICES ASSUME NEW i \in 1..MaxClients, pc'[Client(i)] = "resumeWrite", Owns(Client(i))'
             PROVE  ctl'.run.id \in {0, aim'[i]} /\ \A k \in 1..MaxClients : ~Pausing(k)'
  BY DEF ResumesOwn, Pausing
<1> DEFINE p == Client(i)
<1> p \in Writers /\ p \in Procs /\ PcOK /\ ctl \in Controller /\ TypeInv
  BY Identities DEF RInv, IInv, TypeInv
<1>1. CASE pc'[p] = pc[p]
  <2>1. Owns(p)
    BY <1>1 DEF Passes
  <2>2. ctl.run.id \in {0, aim[i]} /\ \A k \in 1..MaxClients : ~Pausing(k)
    BY <1>1, <2>1 DEF ResumesOwn
  <2>3. aim'[i] = aim[i]
    BY <1>1, AimStays
  <2>4. ctl'.run.id \in {0, aim'[i]}
    BY <2>1, <2>2, <2>3, NoRunBegins
  <2>5. ASSUME NEW k \in 1..MaxClients, Pausing(k)' PROVE FALSE
    <3>1. HoldWritten(k)
      BY <2>2, <2>5, PausingFrom
    <3>2. ctl.write = Client(k) /\ pc[Client(k)] = "holdWrite"
      BY <3>1, WrittenOwns DEF RInv, Serial
    <3>3. ctl.write = p
      BY <2>1 DEF RInv, Serial, Reserved
    <3> QED BY <1>1, <3>2, <3>3
  <2> QED BY <2>4, <2>5
<1>2. CASE pc'[p] # pc[p]
  <2>1. ctl.run.id = aim[i] /\ ctl.run.pause = Nobody /\ ctl' = Reserve(ctl, p) /\ aim' = aim
    BY <1>2, Stands, ClientArrives
  <2>2. ctl'.run = ctl.run
    BY <2>1 DEF Reserve, Controller
  <2>3. \A k : Client(k) # Nobody
    BY DEF Client, Nobody
  <2> QED BY <2>1, <2>2, <2>3 DEF Pausing
<1> QED BY <1>1, <1>2

LEMMA RunNumber ==
  ASSUME ctl \in Controller, ctl.run.id # 0
  PROVE  ctl.run.id \in RunID
BY BoundsAssumption DEF Controller, RunType, RunID

LEMMA HeldBeforePauseNext ==
  ASSUME RInv, Holding, [Next]_vars
  PROVE  HeldBeforePause'
<1> USE DEF Holding
<1> SUFFICES ASSUME NEW i \in 1..MaxClients, Pausing(i)', ctl'.run.id # 0
             PROVE  pc'[Runner(ctl'.run.id)] # "write" /\ Halted(dev')
  BY DEF HeldBeforePause, Pausing, Halted
<1> DEFINE p == Client(i)
<1> /\ p \in Writers /\ p \in Procs /\ PcOK /\ ctl \in Controller /\ TypeInv /\ dev \in DeviceType
    /\ Reserved /\ Behind
  BY Identities DEF RInv, IInv, TypeInv, LinkOK, Serial
<1>1. CASE HoldWritten(i)
  <2>1. Owns(p) /\ ctl.write = p /\ port # 0
    BY <1>1, WrittenOwns
  <2>2. ctl'.run.id = ctl.run.id
    BY <1>1 DEF HoldWritten, EndRealtimeWrite, Controller
  <2>3. ctl.run.id \in RunID
    BY <2>2, RunNumber
  <2> DEFINE q == Runner(ctl.run.id)
  <2>4. q \in Writers /\ q \in Procs /\ q[1] = "runner" /\ p[1] = "client"
    BY <2>3, Identities, Kinds
  <2>5. pc'[q] = pc[q]
    BY <1>1, <2>4, GotoElsewhere DEF HoldWritten
  <2>6. pc[q] # "write"
    <3> SUFFICES ASSUME pc[q] = "write" PROVE FALSE
      OBVIOUS
    <3>1. InWrite(q)
      BY DEF InWrite, WritingPC
    <3>2. Owns(q)
      BY <2>1, <2>4, <3>1, WritesHere
    <3> QED BY <2>1, <2>4, <3>2 DEF Reserved
  <2>7. \E x : x \in Reactions(dev, "hold") /\ dev' = x.dev
    BY <1>1 DEF HoldWritten, Delivered
  <2>8. dev'.held \/ dev'.alarm
    BY <2>7, Reacts DEF Messages
  <2> QED BY <2>2, <2>5, <2>6, <2>8 DEF Halted
<1>2. CASE Pausing(i) /\ pc'[p] = pc[p]
  <2>1. ctl'.run.id = ctl.run.id
    <3>1. \A r \in RunID : StartProgram(r) => ctl'.run.pause # Nobody
      BY DEF Pausing, Client, Nobody
    <3> QED BY <3>1, RunHistory DEF RunFrom, RInv
  <2>2. pc[Runner(ctl.run.id)] # "write" /\ Halted(dev) /\ ctl.run.id \in RunID
    BY <1>2, <2>1, RunNumber DEF HeldBeforePause, Pausing
  <2> DEFINE q == Runner(ctl.run.id)
  <2>3. pc'[q] # "write"
    <3>1. q \in Procs
      BY <2>2, Identities
    <3>2. CASE pc'[q] # pc[q]
      <4>1. StartProgram(ctl.run.id) \/ RunnerStep(ctl.run.id)
        BY <2>2, <3>1, <3>2, Stands, WhoActs
      <4>2. pc'[q] = "write" => ctl.run.pause = Nobody
        BY <2>2, <4>1, RunnerArrives
      <4> QED BY <1>2, <4>2 DEF Pausing, Client, Nobody
    <3> QED BY <2>2, <3>2
  <2>4. ASSUME NEW r \in RunID, LineWritten(r), Sends(r) PROVE FALSE
    BY <2>1, <2>2, <2>4 DEF LinesOwned, Sends
  <2>5. ASSUME NEW k \in 1..MaxClients, Owns(Client(k)),
               ResumeWritten(k) \/ ActionReturns(k, "machineResume")
        PROVE  FALSE
    <3>1. CASE ResumeWritten(k)
      BY <1>2, <2>5, <3>1 DEF ResumeWritten, ResumesOwn
    <3>2. CASE ActionReturns(k, "machineResume")
      <4>1. pc[Client(k)] = "machineResumeWrite"
        BY <3>2 DEF ActionReturns, ActionWrite
      <4> QED BY <2>1, <2>5, <4>1 DEF ResumesAlone
    <3> QED BY <2>5, <3>1, <3>2
  <2>6. Halted(dev')
    BY <2>2, <2>4, <2>5, HaltedNext
  <2> QED BY <2>1, <2>3, <2>6
<1> QED BY <1>1, <1>2, PausingFrom

LEMMA HeldWhilePausedNext ==
  ASSUME RInv, Holding, [Next]_vars
  PROVE  HeldWhilePaused'
<1> USE DEF Holding
<1> SUFFICES ASSUME ctl'.status = "paused"
             PROVE  /\ pc'[Runner(ctl'.run.id)] # "write"
                    /\ \/ Halted(dev')
                       \/ \E i \in 1..MaxClients :
                            pc'[Client(i)] = "resumeCommit" /\ aim'[i] = ctl'.run.id
  BY DEF HeldWhilePaused, Halted
<1> DEFINE r == ctl.run.id
           q == Runner(r)
<1> PcOK /\ ctl \in Controller /\ TypeInv /\ Reserved
  BY DEF RInv, IInv, TypeInv, Serial
<1>1. ctl.status \in Executing => r \in RunID /\ q \in Procs
  <2>1. ctl.status \in Executing => r \in RunID
    BY RunNumber DEF RInv, IInv, Safe, ExecutingImpliesReady
  <2> QED BY <2>1, Identities
<1> HIDE DEF q
<1>2. CASE ctl.status = "paused" /\ ctl'.run.id = ctl.run.id
  <2>1. /\ r \in RunID /\ q \in Procs /\ r # 0 /\ pc[q] # "write"
        /\ \/ Halted(dev)
           \/ \E i \in 1..MaxClients : pc[Client(i)] = "resumeCommit" /\ aim[i] = r
    BY <1>1, <1>2 DEF Executing, HeldWhilePaused, q, RunID
  <2>2. pc'[q] # "write"
    <3>1. CASE pc'[q] # pc[q]
      <4>1. StartProgram(r) \/ RunnerStep(r)
        BY <2>1, <3>1, Stands, WhoActs DEF q
      <4>2. pc'[q] = "write" => MayWriteLine(ctl, r)
        BY <2>1, <4>1, RunnerArrives DEF q
      <4> QED BY <1>2, <4>2 DEF MayWriteLine
    <3> QED BY <2>1, <3>1
  <2>3. ASSUME NEW i \in 1..MaxClients, pc[Client(i)] = "resumeCommit", aim[i] = r
        PROVE  pc'[Client(i)] = "resumeCommit" /\ aim'[i] = r
    <3>1. Client(i) \in Procs
      BY Identities
    <3>2. ~ResumeReturns(i)
      <4>1. ASSUME ResumeReturns(i) PROVE FALSE
        <5>1. \E st \in {"draining", "running"} : ctl' = [ctl EXCEPT !.status = st]
          BY <1>2, <2>3, <4>1 DEF ResumeReturns, CommitResume
        <5>2. ctl'.status # "paused"
          BY <5>1 DEF Controller
        <5> QED BY <5>2
      <4> QED BY <4>1
    <3>3. pc'[Client(i)] = pc[Client(i)]
      BY <2>3, <3>1, <3>2, Stands, ClientArrives
    <3> QED BY <2>3, <3>3, AimStays
  <2>4. CASE Halted(dev)
    <3>1. ASSUME NEW k \in RunID, LineWritten(k), Sends(k) PROVE FALSE
      <4>1. k = r
        BY <2>1, <3>1 DEF LinesOwned
      <4> QED BY <2>1, <3>1, <4>1 DEF LineWritten, q
    <3>2. ASSUME NEW k \in 1..MaxClients, Owns(Client(k)), ResumeWritten(k)
          PROVE  pc'[Client(k)] = "resumeCommit" /\ aim'[k] = r
      <4>1. Client(k) \in Procs
        BY Identities
      <4>2. pc'[Client(k)] = "resumeCommit" /\ aim' = aim
        BY <3>2, <4>1, GotoHere DEF ResumeWritten, runVars
      <4>3. r \in {0, aim[k]}
        BY <3>2 DEF ResumeWritten, ResumesOwn
      <4> QED BY <2>1, <4>2, <4>3
    <3>3. ASSUME NEW k \in 1..MaxClients, Owns(Client(k)), ActionReturns(k, "machineResume")
          PROVE  FALSE
      <4>1. pc[Client(k)] = "machineResumeWrite"
        BY <3>3 DEF ActionReturns, ActionWrite
      <4> QED BY <2>1, <3>3, <4>1 DEF ResumesAlone
    <3>4. \/ Halted(dev')
          \/ \E i \in 1..MaxClients : pc'[Client(i)] = "resumeCommit" /\ aim'[i] = r
      BY <2>4, <3>1, <3>2, <3>3, HaltedNext
    <3> QED BY <1>2, <2>2, <3>4 DEF q
  <2>5. CASE \E i \in 1..MaxClients : pc[Client(i)] = "resumeCommit" /\ aim[i] = r
    BY <1>2, <2>2, <2>3, <2>5 DEF q
  <2> QED BY <2>1, <2>4, <2>5
<1>3. ASSUME NEW i \in 1..MaxClients, CommitsPause(i)
      PROVE  /\ pc'[Runner(ctl'.run.id)] # "write" /\ Halted(dev')
  <2>1. /\ ctl'.run.id = r /\ r \in RunID /\ q \in Procs /\ r # 0 /\ dev' = dev
    BY <1>1, <1>3 DEF CommitsPause, Executing, PauseReturns, linkVars, RunID
  <2>2. pc[q] # "write" /\ Halted(dev)
    BY <1>3, <2>1 DEF CommitsPause, HeldBeforePause, q
  <2>3. pc'[q] = pc[q]
    <3>1. Client(i) \in Procs /\ q # Client(i)
      BY <2>1, Identities, Kinds DEF q
    <3> QED BY <1>3, <2>1, <3>1, GotoElsewhere DEF CommitsPause, PauseReturns
  <2> QED BY <2>1, <2>2, <2>3 DEF q
<1> QED BY <1>2, <1>3, RunHistory DEF PausedFrom, RInv

LEMMA HoldingNext ==
  ASSUME RInv, Holding, [Next]_vars, Passes
  PROVE  Holding'
<1>1. TypeInv /\ Reserved
  BY DEF RInv, IInv, Serial
<1>2. Loaded' /\ AlarmStops'
  BY <1>1, LoadedNext, AlarmStopsNext DEF Holding
<1>3. LinesOwned' /\ ResumesAlone' /\ ResumesOwn'
  BY LinesOwnedNext, ResumesAloneNext, ResumesOwnNext DEF Holding
<1>4. HeldBeforePause' /\ HeldWhilePaused'
  BY HeldBeforePauseNext, HeldWhilePausedNext
<1> QED BY <1>2, <1>3, <1>4 DEF Holding

LEMMA HoldingInit == Init => Holding
<1> SUFFICES ASSUME Init PROVE Holding
  OBVIOUS
<1>1. /\ \A p \in Writers : stalled[p] = NoWrite
      /\ dev.alarm = FALSE /\ ctl.status = "loaded" /\ ctl.run = NoRun
  BY DEF Init, AtRest, InitController
<1>2. ctl.run.id = 0
  BY <1>1 DEF NoRun
<1>3. \A i \in 1..MaxClients : pc[Client(i)] = "idle"
  <2>1. \A p \in Procs : pc[p] = FirstLabel[p[1]]
    BY DEF Init
  <2> QED BY <2>1, Identities, Kinds DEF FirstLabel
<1>4. \A r \in RunID : Stopper(r) \in Writers
  BY Identities
<1> QED BY <1>1, <1>2, <1>3, <1>4 DEF Holding, Loaded, AlarmStops, LinesOwned, HeldWhilePaused,
           HeldBeforePause, ResumesOwn, ResumesAlone

\* While the run is paused and no Resume is under way the machine is held or at
\* rest, and no line is on its way to it: PauseProgram gives the run its token
\* before it writes Hold, so the runner sends nothing behind it, and Resume, of the
\* program or of the machine, is written only under the reservation.
THEOREM PausedIsHeld == Serialisable => (Spec => []PausedMachineHeld)
<1> SUFFICES ASSUME Serialisable PROVE Spec => []PausedMachineHeld
  OBVIOUS
<1>1. Init => RInv /\ Holding
  BY IInvInit, SerialInit, HoldingInit DEF RInv
<1>2. (RInv /\ Holding) /\ [Next]_vars => (RInv /\ Holding)'
  BY RInvNext, HoldingNext
<1>3. RInv /\ Holding => PausedMachineHeld
  <2> SUFFICES ASSUME Holding, ctl.status = "paused", ~(\E p \in ClientSet : Moves(p))
               PROVE  (dev.motion => dev.held) /\ pc[Runner(ctl.run.id)] # "write"
    BY DEF PausedMachineHeld
  <2>1. \A i \in 1..MaxClients : pc[Client(i)] # "resumeCommit"
    BY Identities DEF Moves
  <2> QED BY <2>1 DEF Holding, HeldWhilePaused, AlarmStops, Halted
<1> QED BY <1>1, <1>2, <1>3, PTL DEF Spec
==============================================================================
