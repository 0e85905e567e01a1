--------------------------- MODULE CommandSessions ---------------------------
(***************************************************************************)
(* Interactive macros, manual lines, Unlock and Soft Reset on a committed  *)
(* connection without a program, with the heartbeat poll, the watchdog,    *)
(* the event bridge and a machine that may die, reject lines or raise      *)
(* ALARM:50.  Manual and interactive lines are written without the         *)
(* realtime reservation: ownership alone serialises them.                  *)
(***************************************************************************)
EXTENDS CommandState, Sequences

CONSTANTS
  Kinds,      \* what the operator issues: manual, macro, unlock, reset
  Offered,    \* lines commands are made of
  MaxLines,   \* lines of an interactive macro
  MaxBacklog, \* rxCh of an interactive session (64 in the code)
  MaxRx,      \* bound on the transport's event channel
  Lag,        \* ticks an event may wait for the bridge
  Upsets,     \* what may go wrong: reject, write, dead, alarm50, silentreset
  MaxUpsets

ASSUME SessionAssumption ==
  /\ Kinds \subseteq {"manual", "macro", "unlock", "reset"} /\ Offered \subseteq Line
  /\ MaxLines \in Nat \ {0} /\ MaxBacklog \in Nat \ {0} /\ MaxRx \in Nat \ {0} /\ Lag \in Nat
  /\ Upsets \subseteq {"reject", "write", "dead", "alarm50", "silentreset"} /\ MaxUpsets \in Nat

VARIABLES
  ctl,   \* the record under Controller.mu
  cmd,   \* the goroutines of the commands
  rx,    \* the transport's event channel: lines with the ticks since they were read
  dev,   \* the machine
  clock  \* what the poll and the watchdog still have to do in this tick; upsets so far

vars == <<ctl, cmd, rx, dev, clock>>

NoLine == [kind |-> "move", value |-> 0]
NoCommand == [kind |-> "none", pc |-> "new", line |-> NoLine, at |-> 0, rxCh |-> <<>>,
              canceled |-> FALSE]
LinesOf(kind) ==
  CASE kind = "unlock" -> {[kind |-> "unlock", value |-> 0]}
    [] kind = "reset" -> {NoLine}
    [] OTHER -> Offered
Op(s) == [cmd |-> s, at |-> cmd[s].at]

InitMachine ==
  [alive |-> TRUE, alarm |-> FALSE, setting |-> 1, homing |-> NotSet, op |-> NoOp,
   kind |-> "home", leg |-> 0, input |-> <<>>, ask |-> FALSE, dead |-> 0]

Init ==
  /\ ctl = InitCommands /\ cmd = [s \in Commands |-> NoCommand] /\ rx = <<>>
  /\ dev = InitMachine /\ clock = [polled |-> FALSE, checked |-> FALSE, upsets |-> 0]

Upset(kind) == kind \in Upsets /\ clock.upsets < MaxUpsets
CountUpset == clock' = [clock EXCEPT !.upsets = @ + 1]
Goes(s, pc) == cmd' = [cmd EXCEPT ![s].pc = pc]

\* terminateResponseOwnerLocked cancels the session it takes ownership from.
Cancels(s) == IF s = 0 THEN cmd ELSE [cmd EXCEPT ![s].canceled = TRUE]

-----------------------------------------------------------------------------
(* Commands. *)

\* SendConsoleLine, Action: beginForegroundAdmission registers the waiter.
Issue(s) ==
  /\ cmd[s] = NoCommand /\ \A r \in Commands : r < s => cmd[r] # NoCommand
  /\ \E kind \in Kinds : \E line \in LinesOf(kind) :
       cmd' = [cmd EXCEPT ![s] = [NoCommand EXCEPT !.kind = kind, !.pc = "admission", !.at = 1,
                                                   !.line = line]]
  /\ ctl' = [ctl EXCEPT !.waiters = @ \cup {s}]
  /\ UNCHANGED <<rx, dev, clock>>

\* beginForegroundAdmission returns when no status poll holds the reservation.
Waiting(s) == cmd[s].pc = "admission" /\ ctl.write # "poll"
Registered(s) == [ctl EXCEPT !.waiters = @ \ {s}]

\* writeManualResponseMessageForAdmission acquires and prepares in one section;
\* beginInteractiveSession only acquires.
Admit(s) ==
  LET x == cmd[s]
      owned == [Registered(s) EXCEPT !.owner = [kind |-> IF x.kind = "macro" THEN "macro" ELSE "manual",
                                                cmd |-> s]]
  IN  /\ Waiting(s) /\ x.kind # "reset"
      /\ IF ~AdmitsOwner(ctl, x.kind) THEN ctl' = Registered(s) /\ Goes(s, "done")
         ELSE IF x.kind = "macro" THEN ctl' = owned /\ Goes(s, "prepare")
         ELSE IF PrepareFails(owned, x.line) THEN ctl' = ReleaseOwner(owned, s) /\ Goes(s, "done")
         ELSE ctl' = Prepare(owned, Op(s), x.line) /\ Goes(s, "write")
      /\ UNCHANGED <<rx, dev, clock>>

\* prepareCommandForLine: a line that needs no preparation is not checked against
\* the owner. The foreground admission around it is left out: it holds no poll back.
PrepareLine(s) ==
  LET x == cmd[s] IN
  /\ x.pc = "prepare"
  /\ IF x.line.kind = "move" THEN Goes(s, "write") /\ UNCHANGED ctl
     ELSE /\ ctl.write # "poll"
          /\ IF ctl.owner # [kind |-> "macro", cmd |-> s] \/ PrepareFails(ctl, x.line)
             THEN Goes(s, "end") /\ UNCHANGED ctl
             ELSE ctl' = Prepare(ctl, Op(s), x.line) /\ Goes(s, "write")
  /\ UNCHANGED <<rx, dev, clock>>

\* Mutant: a manual line gives ownership back when it is written.
WriteLineReleases(s) ==
  LET x == cmd[s] IN
  /\ x.pc = "write"
  /\ dev' = IF dev.alive THEN [dev EXCEPT !.input = Append(@, [cmd |-> s, at |-> x.at, line |-> x.line])]
            ELSE dev
  /\ Goes(s, IF x.kind = "macro" THEN "wait" ELSE "done")
  /\ ctl' = IF x.kind = "macro" THEN ctl ELSE ReleaseOwner(ctl, s)
  /\ UNCHANGED <<rx, clock>>

\* transport.Write. A manual line returns; its response is the bridge's affair.
WriteLine(s) ==
  LET x == cmd[s] IN
  /\ x.pc = "write"
  /\ dev' = IF dev.alive THEN [dev EXCEPT !.input = Append(@, [cmd |-> s, at |-> x.at, line |-> x.line])]
            ELSE dev
  /\ Goes(s, IF x.kind = "macro" THEN "wait" ELSE "done")
  /\ UNCHANGED <<ctl, rx, clock>>

WriteLineFails(s) ==
  /\ cmd[s].pc = "write" /\ Upset("write") /\ CountUpset
  /\ LET cleared == ClearPreparation(ctl, Op(s)) IN
     IF cmd[s].kind = "macro" THEN ctl' = cleared /\ Goes(s, "end")
     ELSE ctl' = ReleaseOwner(cleared, s) /\ Goes(s, "done")
  /\ UNCHANGED <<rx, dev>>

\* sendLineAndWaitOK: the response of the line, or the end of the session.
TakeOK(s) ==
  /\ cmd[s].pc = "wait" /\ cmd[s].rxCh # <<>> /\ Head(cmd[s].rxCh).text = "ok"
  /\ ctl' = ClearPreparation(CommitMutation(ctl, Op(s)), Op(s))
  /\ LET answered == [cmd[s] EXCEPT !.rxCh = Tail(@), !.pc = "end"] IN
     \/ cmd' = [cmd EXCEPT ![s] = answered]
     \/ /\ cmd[s].at < MaxLines
        /\ \E line \in Offered :
             cmd' = [cmd EXCEPT ![s] = [answered EXCEPT !.pc = "prepare", !.at = @ + 1, !.line = line]]
  /\ UNCHANGED <<rx, dev, clock>>

TakeFailure(s) ==
  /\ cmd[s].pc = "wait"
  /\ ~cmd[s].canceled => cmd[s].rxCh # <<>> /\ Head(cmd[s].rxCh).text # "ok"
  /\ ctl' = ClearPreparation(ctl, Op(s)) /\ Goes(s, "end")
  /\ UNCHANGED <<rx, dev, clock>>

\* endInteractiveSession
EndSession(s) ==
  /\ cmd[s].pc = "end"
  /\ ctl' = IF ctl.owner.kind = "macro" THEN ReleaseOwner(ctl, s) ELSE ctl
  /\ Goes(s, "done")
  /\ UNCHANGED <<rx, dev, clock>>

\* Action(SoftReset): ownership is cancelled before Ctrl-X is written.
AdmitReset(s) ==
  /\ Waiting(s) /\ cmd[s].kind = "reset"
  /\ IF ctl.estop = "active" \/ ctl.write # "none"
     THEN /\ ctl' = Registered(s) /\ Goes(s, "done")
     ELSE /\ ctl' = [ReleaseOwner(Registered(s), ctl.owner.cmd) EXCEPT !.write = "reset"]
          /\ cmd' = [Cancels(ctl.owner.cmd) EXCEPT ![s].pc = "write ctrl-x"]
  /\ UNCHANGED <<rx, dev, clock>>

WriteReset(s) ==
  /\ cmd[s].pc = "write ctrl-x" /\ Goes(s, "done")
  /\ ctl' = [ctl EXCEPT !.write = "none"]
  /\ \/ /\ dev.alive /\ Len(rx) < MaxRx
        /\ dev' = [dev EXCEPT !.input = <<>>, !.homing = NotSet, !.ask = FALSE]
        /\ rx' = Append(rx, [text |-> "banner", age |-> 0, op |-> NoOp])
        /\ UNCHANGED clock
     \/ ~dev.alive /\ UNCHANGED <<dev, rx, clock>>
     \/ Upset("write") /\ CountUpset /\ UNCHANGED <<dev, rx>>

-----------------------------------------------------------------------------
(* Heartbeat and watchdog, once a tick each. *)

PollRefused ==
  /\ ~clock.polled /\ ~AdmitsPoll(ctl)
  /\ clock' = [clock EXCEPT !.polled = TRUE]
  /\ UNCHANGED <<ctl, cmd, rx, dev>>

PollAdmitted ==
  /\ ~clock.polled /\ AdmitsPoll(ctl)
  /\ clock' = [clock EXCEPT !.polled = TRUE]
  /\ ctl' = BeginPoll(ctl)
  /\ UNCHANGED <<cmd, rx, dev>>

WritePoll ==
  /\ ctl.write = "poll"
  /\ ctl' = [ctl EXCEPT !.write = "none"]
  /\ \/ dev' = [dev EXCEPT !.ask = @ \/ dev.alive] /\ UNCHANGED clock
     \/ Upset("write") /\ CountUpset /\ UNCHANGED dev
  /\ UNCHANGED <<cmd, rx>>

CheckWatchdog ==
  /\ ~clock.checked
  /\ clock' = [clock EXCEPT !.checked = TRUE]
  /\ IF Unresponsive(ctl) THEN ctl' = EnterEStop(ctl) /\ cmd' = Cancels(ctl.owner.cmd)
     ELSE UNCHANGED <<ctl, cmd>>
  /\ UNCHANGED <<rx, dev>>

-----------------------------------------------------------------------------
(* The event bridge: one section per line, in the order of its tests. *)

\* deliverResponseLocked
Deliver(c, e) ==
  LET s == c.owner.cmd
      op == c.mutation.op
      full == Len(cmd[s].rxCh) >= MaxBacklog
  IN  CASE c.owner.kind = "none" -> ctl' = c /\ UNCHANGED cmd
        [] c.owner.kind = "manual" ->
             /\ ctl' = ReleaseOwner(IF e.text = "ok" THEN CommitMutation(c, op) ELSE c, s)
             /\ UNCHANGED cmd
        [] c.owner.kind = "macro" /\ ~full ->
             ctl' = c /\ cmd' = [cmd EXCEPT ![s].rxCh = Append(@, [text |-> e.text, op |-> e.op])]
        [] OTHER -> ctl' = ReleaseOwner(c, s) /\ cmd' = Cancels(s)

\* The adjustment lines of $L; the last stands for all that cannot be read.
Progress == {"adjust 0", "adjust 1", "adjust ?"}
Adjusted(text) == CASE text = "adjust 0" -> 0 [] text = "adjust 1" -> 1 [] OTHER -> NotSet

Bridge ==
  /\ rx # <<>> /\ rx' = Tail(rx)
  /\ LET e == Head(rx)
         noted == NoteActivity(ctl, e.age)
         heard == IF e.text \in Progress THEN NoteProgress(noted, e.age, Adjusted(e.text)) ELSE noted
     IN  CASE e.text \in {"idle", "alarm status"} ->
                ctl' = NoteStatus(heard, e.text = "idle") /\ UNCHANGED cmd
           [] e.text \in {"banner"} \cup Progress -> ctl' = heard /\ UNCHANGED cmd
           [] e.text = "alarm50" /\ ctl.estop # "active" ->
                ctl' = EnterEStop(heard) /\ cmd' = Cancels(ctl.owner.cmd)
           [] OTHER -> Deliver(heard, e)
  /\ UNCHANGED <<dev, clock>>

-----------------------------------------------------------------------------
(* The machine: one line at a time; deaf and mute while it homes. *)

Says(text, op) == Len(rx) < MaxRx /\ rx' = Append(rx, [text |-> text, age |-> 0, op |-> op])
Serving == dev.alive /\ dev.homing = NotSet

Takes ==
  /\ Serving /\ dev.input # <<>>
  /\ LET next == Head(dev.input)
         op == [cmd |-> next.cmd, at |-> next.at]
         line == next.line
         taken == [dev EXCEPT !.input = Tail(@)]
         refused == dev.alarm /\ line.kind = "move"
     IN  \/ /\ line.kind \in Silent
            /\ dev' = [taken EXCEPT !.homing = SilentTime(line.kind, dev.setting, 0, 0), !.op = op,
                                    !.kind = line.kind, !.leg = 0, !.alarm = FALSE]
            /\ UNCHANGED <<rx, clock>>
         \/ /\ line.kind \notin Silent /\ ~refused /\ Says("ok", op) /\ UNCHANGED clock
            /\ dev' = CASE line.kind = "set" -> [taken EXCEPT !.setting = line.value]
                        [] line.kind = "reset" -> [taken EXCEPT !.setting = 1]
                        [] line.kind = "unlock" -> [taken EXCEPT !.alarm = FALSE]
                        [] line.kind = "move" -> taken
         \/ /\ Says("error", op) /\ dev' = taken
            /\ IF refused THEN UNCHANGED clock ELSE Upset("reject") /\ CountUpset
         \/ /\ line.kind = "reset" /\ Upset("silentreset") /\ CountUpset /\ Says("banner", NoOp)
            /\ dev' = [taken EXCEPT !.setting = 1, !.input = <<>>]
  /\ UNCHANGED <<ctl, cmd>>

Homed ==
  /\ dev.alive /\ dev.homing = 0 /\ Says("ok", dev.op)
  /\ dev' = [dev EXCEPT !.homing = NotSet, !.op = NoOp, !.kind = "home", !.leg = 0]
  /\ UNCHANGED <<ctl, cmd, clock>>

\* $L prints an adjustment, readable or not, and makes it.
Adjusts ==
  /\ dev.alive /\ dev.homing = 0 /\ dev.kind = "level" /\ dev.leg < 3
  /\ \E text \in Progress : \E adjustment \in Adjustments :
       /\ Adjusted(text) \in {adjustment, NotSet} /\ Says(text, NoOp)
       /\ dev' = [dev EXCEPT !.leg = @ + 1,
                             !.homing = SilentTime("level", dev.setting, adjustment, dev.leg + 1)]
  /\ UNCHANGED <<ctl, cmd, clock>>

Reports ==
  /\ Serving /\ dev.ask /\ dev' = [dev EXCEPT !.ask = FALSE]
  /\ Says(IF dev.alarm THEN "alarm status" ELSE "idle", NoOp)
  /\ UNCHANGED <<ctl, cmd, clock>>

Dies ==
  /\ dev.alive /\ Upset("dead") /\ CountUpset
  /\ dev' = [dev EXCEPT !.alive = FALSE, !.input = <<>>, !.ask = FALSE]
  /\ UNCHANGED <<ctl, cmd, rx>>

RaisesAlarm50 ==
  /\ Serving /\ Upset("alarm50") /\ CountUpset /\ Says("alarm50", NoOp)
  /\ dev' = [dev EXCEPT !.alarm = TRUE, !.input = <<>>]
  /\ UNCHANGED <<ctl, cmd>>

-----------------------------------------------------------------------------
(***************************************************************************)
(* Time. A tick is a status poll interval; within one, goroutines that     *)
(* have something to do do it, a machine that is not homing answers, and   *)
(* an event waits at most Lag ticks for the bridge.                        *)
(***************************************************************************)
\* The longest time the watchdog may take; dev.dead stops counting past it. A silent
\* command and the Soft Reset that ends it cost the limit of a lease and the heartbeat's
\* timeout; the heartbeat also starts over when a silent line cannot be written.
LongestLease == 2 * MaxValue + 2 + Margin
Noticed ==
  Lag + MaxUpsets * (Timeout + 1)
      + ((MaxCommands + 1) \div 2) * (Timeout + 1 + LongestLease)

Timely ==
  /\ clock.polled /\ clock.checked /\ ctl.write = "none"
  /\ \A s \in Commands : cmd[s].pc \in {"new", "done", "wait"}
       /\ (cmd[s].pc = "wait" => cmd[s].rxCh = <<>> /\ ~cmd[s].canceled)
  /\ \A i \in 1..Len(rx) : rx[i].age < Lag
  /\ Serving => dev.input = <<>> /\ ~dev.ask
  /\ dev.alive => dev.homing # 0

Tick ==
  /\ Timely
  /\ ctl' = Ages(ctl)
  /\ rx' = [i \in 1..Len(rx) |-> [rx[i] EXCEPT !.age = @ + 1]]
  /\ dev' = IF ~dev.alive THEN [dev EXCEPT !.dead = IF @ > Noticed THEN @ ELSE @ + 1]
            ELSE IF dev.homing = NotSet THEN dev ELSE [dev EXCEPT !.homing = @ - 1]
  /\ clock' = [clock EXCEPT !.polled = FALSE, !.checked = FALSE]
  /\ UNCHANGED cmd

Command(s) ==
  \/ Admit(s) \/ PrepareLine(s) \/ WriteLine(s) \/ WriteLineFails(s)
  \/ TakeOK(s) \/ TakeFailure(s) \/ EndSession(s) \/ AdmitReset(s) \/ WriteReset(s)
Monitor == PollRefused \/ PollAdmitted \/ WritePoll \/ CheckWatchdog
Machine == Takes \/ Homed \/ Adjusts \/ Reports

Next ==
  \/ \E s \in Commands : Issue(s) \/ Command(s)
  \/ Monitor \/ Bridge \/ Machine \/ Dies \/ RaisesAlarm50 \/ Tick

Spec == Init /\ [][Next]_vars

(***************************************************************************)
(* Goroutines run, timers fire, the bridge reads and a live machine        *)
(* answers; nobody has to issue a command and nothing has to go wrong.     *)
(***************************************************************************)
FairSpec ==
  /\ Spec
  /\ \A s \in Commands : WF_vars(Command(s))
  /\ WF_vars(Monitor) /\ WF_vars(Bridge) /\ WF_vars(Machine) /\ WF_vars(Tick)

-----------------------------------------------------------------------------

TypeOK ==
  /\ ctl \in CommandsType
  /\ \A s \in Commands : cmd[s].at \in 0..MaxLines /\ cmd[s].line \in Line
       /\ Len(cmd[s].rxCh) <= MaxBacklog
  /\ dev.setting \in 1..MaxValue /\ dev.homing \in Age \cup {NotSet} /\ dev.leg \in 0..3
  /\ Len(rx) <= MaxRx /\ \A i \in 1..Len(rx) : rx[i].age <= Lag

\* A lease and a pending mutation belong to the session that owns responses:
\* no end of a command, whichever goroutine brings it about, leaves one behind,
\* where it would answer for the next command or silence the watchdog.
PreparedOwned ==
  /\ ctl.lease # NoLease => ctl.lease.op.cmd = ctl.owner.cmd
  /\ ctl.mutation # NoMutation => ctl.mutation.op.cmd = ctl.owner.cmd

\* Once no line and no response is under way, the snapshot, if there is one, is
\* what the machine has stored: the limits of later leases are computed from it.
Quiet == ctl.owner = NoOwner /\ rx = <<>> /\ dev.input = <<>>
         /\ \A s \in Commands : cmd[s].pc \in {"new", "admission", "done"}
SnapshotFaithful == Quiet => ctl.snapshot \in {0, dev.setting}

\* While settings are known, the watchdog stops only a dead machine: never one
\* that is silent for as long as its command may take.
NoFalseEmergency ==
  [][CheckWatchdog /\ ctl'.estop = "active" /\ ctl.estop # "active" =>
       ~dev.alive \/ ctl.snapshot = 0]_vars

\* A machine that dies is noticed: no interleaving of commands, polls, cancellations,
\* failed writes and lines read late delays the watchdog by more than the leases and
\* the timeouts that Noticed counts.
DeadNoticedInTime == dev.dead > Noticed => ctl.estop = "active"

\* A response completes the line it answers.
OwnAnswer == [][\A s \in Commands : TakeOK(s) => Head(cmd[s].rxCh).op = Op(s)]_vars

\* docs/architecture.md:23: "Successful numeric setting assignments update that
\* snapshot only after their matching terminal `ok`."
CommitMatches == [][ctl'.snapshot # ctl.snapshot => ctl'.snapshot \in {0, dev.setting}]_vars

\* Expected silence ends: whatever becomes of the command, the watchdog is back.
LeaseEnds == ctl.lease # NoLease ~> ctl.lease = NoLease
=============================================================================
