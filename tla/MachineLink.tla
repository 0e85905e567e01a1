----------------------------- MODULE MachineLink -----------------------------
(***************************************************************************)
(* What the goroutines share: the controller record, the serial transport, *)
(* the machine at its other end, and where each goroutine is.              *)
(*                                                                         *)
(* transport.Write is two-phased.  A goroutine whose pc is a writing pc is *)
(* inside Write; it either returns (Delivered, WriteFails) or is held in   *)
(* the operating system with the port handle it captured (WriteStalls) and *)
(* returns later.                                                          *)
(*                                                                         *)
(* The machine is firmware outside this repository, modelled from what the *)
(* code sends to it and accepts from it.                                   *)
(***************************************************************************)
EXTENDS ControllerState

CONSTANTS
    Lines,      \* lines of every program
    MaxRx,      \* transport events queued between readLoop and the bridge
    MaxBacklog, \* capacity of a response session's channel (64 in the code)
    MaxFaults,  \* faults and upsets in a behaviour
    Stalls,     \* messages whose Write the operating system may hold
    Errors,     \* messages whose Write may return an error
    Upsets,     \* what else may go wrong: see UpsetKinds
    Callers,    \* what is asked of the controller: see CallerKinds
    LateEntry   \* a goroutine may take a whole reconnect to get from its
                \* reservation into transport.Write

Messages   == {"line", "hold", "resume", "reset", "poll"}
UpsetKinds == {"reject", "alarm", "alarm50", "restart", "drop", "silent",
               "open", "handshake", "close"}
CallerKinds == {"pause", "resume", "stop", "disconnect", "poll",
                "machineHold", "machineResume", "softReset"}

ASSUME LinkAssumption == /\ {Lines, MaxRx, MaxBacklog, MaxFaults} \subseteq Nat
                         /\ Stalls \subseteq Messages
                         /\ Errors \subseteq Messages
                         /\ Upsets \subseteq UpsetKinds
                         /\ Callers \subseteq CallerKinds
                         /\ LateEntry \in BOOLEAN

VARIABLES
    ctl,     \* the controller's fields (Controller.mu)
    pc,      \* where each goroutine is
    aim,     \* the run a Pause or Resume call captured, per client
    chan,    \* rxCh of each run's response session
    job,     \* the programRun each runner holds: lines left, its generation
    closer,  \* what Disconnect captured: the reservation and forceCloseActiveWrite
    bridge,  \* what the event bridge holds between two critical sections
    stalled, \* per goroutine: the write the operating system holds
    fresh,   \* goroutines past whose baseline a status report was processed
    port,    \* generation whose handle is open in the transport; 0 when closed
    opened,  \* nextGeneration of the transport
    rx,      \* the transport's event channel
    dev,     \* the machine: lines it has not acknowledged, unfinished motion,
             \* feed hold, alarm
    faults   \* faults so far

linkVars  == <<stalled, port, opened, rx, dev, faults>>
runVars   == <<aim, chan, job>>
vars == <<ctl, pc, aim, chan, job, closer, bridge, stalled, fresh, port,
          opened, rx, dev, faults>>

NoWrite   == [gen |-> 0, msg |-> "none"]
WriteType == {NoWrite} \cup [gen : Generation, msg : Messages]

RxKind  == {"ok", "error", "alarm", "alarm3", "alarm50", "banner",
            "Idle", "Run", "Hold", "Alarm", "disconnected"}
RxEvent == [kind : RxKind,
            gen  : Generation,
            new  : BOOLEAN]   \* read after the current Stop marked its reset

Goto(p, l) == pc' = [pc EXCEPT ![p] = l]

\* foregroundAdmissionWaiters > 0
Waiting == \E p \in Writers :
             pc[p] \in {"admit", "blocked", "acquire", "pollAdmit",
                        "holdAdmit", "resumeAdmit", "machineHold", "machineResume",
                        "softReset"}

Fault == faults < MaxFaults /\ faults' = faults + 1

-----------------------------------------------------------------------------
(* The machine. *)
DeviceType == [lines : Nat, motion : BOOLEAN, held : BOOLEAN, alarm : BOOLEAN]
AtRest == [lines |-> 0, motion |-> FALSE, held |-> FALSE, alarm |-> FALSE]

StatusOf(d) == IF d.alarm THEN "Alarm" ELSE IF d.held THEN "Hold"
               ELSE IF d.motion THEN "Run" ELSE "Idle"

\* What a message does to the machine, and what it answers at once.  Ctrl-X
\* that interrupts motion may raise ALARM:3 and may leave the alarm set.
Reactions(d, msg) ==
  CASE msg = "line"   -> {[dev |-> [d EXCEPT !.lines = @ + 1], says |-> <<>>]}
    [] msg = "hold"   -> {[dev |-> [d EXCEPT !.held = ~d.alarm], says |-> <<>>]}
    [] msg = "resume" -> {[dev |-> [d EXCEPT !.held = FALSE], says |-> <<>>]}
    [] msg = "poll"   -> {[dev |-> d, says |-> <<StatusOf(d)>>]}
    [] msg = "reset"  ->
         {[dev |-> AtRest, says |-> <<"banner">>]}
         \cup {[dev |-> [AtRest EXCEPT !.alarm = locked],
                says |-> <<"alarm3", "banner">>] :
                 locked \in IF d.motion THEN BOOLEAN ELSE {}}

Heard(kinds, g) ==
  [i \in DOMAIN kinds |-> [kind |-> kinds[i], gen |-> g, new |-> TRUE]]

\* The machine sends lines; readLoop drops them when no port is open.
Says(kinds) ==
  IF port = 0 THEN UNCHANGED rx
  ELSE /\ Len(rx) + Len(kinds) <= MaxRx
       /\ rx' = rx \o Heard(kinds, port)

\* A queued line is parsed into motion and acknowledged.
MachineAccepts ==
  /\ dev.lines > 0
  /\ ~dev.alarm
  /\ dev' = [dev EXCEPT !.lines = @ - 1, !.motion = TRUE]
  /\ Says(<<"ok">>)
  /\ UNCHANGED faults

\* A line that is not accepted: locked by an alarm, or unsupported.
MachineRejects ==
  /\ dev.lines > 0
  /\ \/ dev.alarm /\ UNCHANGED faults
     \/ ~dev.alarm /\ "reject" \in Upsets /\ Fault
  /\ dev' = [dev EXCEPT !.lines = @ - 1]
  /\ Says(<<"error">>)

MachineFinishes ==
  /\ dev.motion /\ ~dev.held
  /\ dev' = [dev EXCEPT !.motion = FALSE]
  /\ UNCHANGED <<rx, faults>>

\* ALARM:1 or ALARM:50 out of nowhere; a restart of the firmware.
MachineUpset ==
  /\ Fault
  /\ \/ \E kind \in {"alarm", "alarm50"} \cap Upsets :
          /\ dev' = [AtRest EXCEPT !.alarm = TRUE, !.lines = dev.lines]
          /\ Says(<<kind>>)
     \/ /\ "restart" \in Upsets
        /\ dev' = AtRest
        /\ Says(<<"banner">>)

Machine ==
  /\ MachineAccepts \/ MachineRejects \/ MachineFinishes \/ MachineUpset
  /\ UNCHANGED <<ctl, pc, runVars, closer, bridge, stalled, fresh, port, opened>>

-----------------------------------------------------------------------------
(* transport.Write. *)
WritingPC == [write |-> "line", holdWrite |-> "hold", resumeWrite |-> "resume",
              pollWrite |-> "poll", hold |-> "hold", reset |-> "reset",
              resetErr |-> "reset",
              machineHoldWrite |-> "hold", machineResumeWrite |-> "resume",
              softResetWrite |-> "reset"]

Handle(p) == IF stalled[p] # NoWrite THEN stalled[p].gen ELSE port

\* The bytes reach the machine and Write returns nil.
Delivered(p, msg) ==
  /\ Handle(p) # 0 /\ Handle(p) = port
  /\ \E r \in Reactions(dev, msg) : dev' = r.dev /\ Says(r.says)
  /\ stalled' = [stalled EXCEPT ![p] = NoWrite]
  /\ UNCHANGED <<port, opened, faults>>

\* Write returns an error: no open port, a handle closed meanwhile, or I/O.
WriteFails(p, msg) ==
  /\ \/ /\ port = 0 \/ Handle(p) # port
        /\ UNCHANGED faults
     \/ msg \in Errors /\ port # 0 /\ Fault
  /\ stalled' = [stalled EXCEPT ![p] = NoWrite]
  /\ UNCHANGED <<port, opened, rx, dev>>

\* The operating system holds the write with the handle it captured.
WriteStalls(p) ==
  /\ pc[p] \in DOMAIN WritingPC
  /\ WritingPC[pc[p]] \in Stalls
  /\ stalled[p] = NoWrite
  /\ port # 0
  /\ Fault
  /\ stalled' = [stalled EXCEPT ![p] = [gen |-> port, msg |-> WritingPC[pc[p]]]]
  /\ UNCHANGED <<ctl, pc, runVars, closer, bridge, fresh, port, opened, rx, dev>>

-----------------------------------------------------------------------------
(* The transport loses the port: markUnexpectedDisconnected. *)
PortDrops ==
  /\ "drop" \in Upsets
  /\ Fault
  /\ port # 0
  /\ Len(rx) < MaxRx
  /\ rx' = Append(rx, [kind |-> "disconnected", gen |-> port, new |-> TRUE])
  /\ port' = 0
  /\ UNCHANGED <<ctl, pc, runVars, closer, bridge, stalled, fresh, opened, dev>>

-----------------------------------------------------------------------------
(***************************************************************************)
(* A fresh status: take a baseline, write ? when the transport is free     *)
(* (writeStatusPollWhenAvailable), wait for a report newer than the        *)
(* baseline.  waitForFreshIdle and verifyFreshIdle share it; each adds its *)
(* own checks.                                                             *)
(***************************************************************************)
Awaiters == Runners \cup Stoppers \cup Verifiers

TakeBaseline(p) == fresh' = fresh \ {p}

\* The poll is admitted, or there is no monitored connection to poll.
PollAdmitted(p) ==
  /\ pc[p] = "pollAdmit"
  /\ ~PollHolds(ctl)
  /\ IF ~IsConnected(ctl) \/ ctl.gen = 0 \/ ctl.polling # ctl.gen
     THEN Goto(p, "waitIdle") /\ UNCHANGED ctl
     ELSE /\ Admitted(ctl, "safety", FALSE)
          /\ ctl' = Reserve(ctl, p)
          /\ Goto(p, "pollWrite")
  /\ UNCHANGED <<runVars, closer, bridge, linkVars, fresh>>

PollRejected(p) ==
  /\ pc[p] = "pollAdmit"
  /\ ~PollHolds(ctl)
  /\ IsConnected(ctl) /\ ctl.gen # 0 /\ ctl.polling = ctl.gen
  /\ ~Eligible(ctl, "safety")

PollWritten(p) ==
  /\ pc[p] = "pollWrite"
  /\ Delivered(p, "poll")
  /\ ctl' = EndRealtimeWrite(ctl)
  /\ Goto(p, "waitIdle")
  /\ UNCHANGED <<runVars, closer, bridge, fresh>>

\* writeAdmittedStatusPoll hides ErrNotOpen and the error of a generation that
\* is no longer monitored; any other error goes to next.
PollWriteFails(p, next) ==
  /\ pc[p] = "pollWrite"
  /\ WriteFails(p, "poll")
  /\ ctl' = EndRealtimeWrite(ctl)
  /\ Goto(p, IF IsConnected(ctl) /\ {ctl.gen, ctl.polling} = {Handle(p)}
             THEN next ELSE "waitIdle")
  /\ UNCHANGED <<runVars, closer, bridge, fresh>>

FreshReport(p, state) == p \in fresh /\ ctl.machine = state
=============================================================================
