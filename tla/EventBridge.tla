------------------------------ MODULE EventBridge ------------------------------
(***************************************************************************)
(* The transport event bridge, which turns every transport event into one  *)
(* critical section (and sometimes a second one after unlocking), the      *)
(* background status poll and the watchdog.                                *)
(***************************************************************************)
EXTENDS MachineLink

NextEvent == Head(rx)

BridgeReads == pc[Bridge] = "read" /\ rx # <<>> /\ rx' = Tail(rx)

\* EventDisconnected is handled apart; everything else is serial input here.
IsInput(ev) == ev.kind # "disconnected"

IsStatus(ev) == ev.kind \in {"Idle", "Run", "Hold", "Alarm"}
IsAlarm(ev)  == ev.kind \in {"alarm", "alarm3", "alarm50"}
IsFailure(ev) == IsAlarm(ev) \/ ev.kind = "error"

\* The alarm and banner part of the RX critical section.
NoteInput(c, ev) ==
  IF IsAlarm(ev) THEN NoteAlarm(c, ev.kind = "alarm3")
  ELSE IF ev.kind = "banner" THEN NoteResetBanner(c, ev.new)
  ELSE c

\* captureConnectAttemptEventLocked diverts the line to the connect attempt,
\* or acceptsTransportEventLocked refuses its generation.
BridgeDiscards ==
  /\ BridgeReads
  /\ IsInput(NextEvent)
  /\ ctl.transition = "connecting" \/ NextEvent.gen # ctl.gen
  /\ UNCHANGED <<ctl, pc, runVars, closer, bridge, fresh, stalled, port, opened,
                 dev, faults>>

BridgeAccepts ==
  /\ BridgeReads
  /\ IsInput(NextEvent)
  /\ ctl.transition # "connecting"
  /\ NextEvent.gen = ctl.gen
  /\ UNCHANGED <<aim, job, closer, stalled, port, opened, dev, faults>>

BridgeStatus ==
  /\ BridgeAccepts
  /\ IsStatus(NextEvent)
  /\ ctl' = NoteStatusReport(ctl, NextEvent.kind)
  /\ fresh' = {p \in Awaiters : pc[p] \in {"pollAdmit", "pollWrite", "waitIdle"}}
  /\ UNCHANGED <<pc, chan, bridge>>

\* ALARM:50 enters the emergency stop and is not delivered to any session.
BridgeEStop ==
  /\ BridgeAccepts
  /\ NextEvent.kind = "alarm50"
  /\ CanEnterEStop(ctl)
  /\ ctl' = EnterEStop(NoteInput(ctl, NextEvent))
  /\ UNCHANGED <<pc, chan, bridge, fresh>>

\* deliverResponseLocked for the program that owns responses.  A full backlog
\* fails the run, after unlocking.
BridgeLine ==
  /\ BridgeAccepts
  /\ ~IsStatus(NextEvent)
  /\ NextEvent.kind = "alarm50" => ~CanEnterEStop(ctl)
  /\ ctl' = NoteInput(ctl, NextEvent)
  /\ LET r    == ctl.run.id
         kept == NextEvent.kind = "banner" \/ ctl.owner = NoOwner
                 \/ ctl.owner.gen # NextEvent.gen
     IN  IF kept THEN UNCHANGED <<pc, chan, bridge>>
         ELSE IF Len(chan[r]) < MaxBacklog
         THEN /\ chan' = [chan EXCEPT ![r] =
                   Append(@, IF IsFailure(NextEvent) THEN "fail" ELSE "ok")]
              /\ UNCHANGED <<pc, bridge>>
         ELSE /\ Goto(Bridge, "fail")
              /\ bridge' = r
              /\ UNCHANGED chan
  /\ UNCHANGED fresh

BridgeFailsRun ==
  /\ pc[Bridge] = "fail"
  /\ ctl' = FinishProgramFailure(ctl, bridge)
  /\ Goto(Bridge, "read")
  /\ bridge' = 0
  /\ UNCHANGED <<runVars, closer, linkVars, fresh>>

-----------------------------------------------------------------------------
(* EventDisconnected: acceptDisconnectedEvent. *)
BridgeIgnoresDisconnect ==
  /\ BridgeReads
  /\ ~IsInput(NextEvent)
  /\ LET g == NextEvent.gen IN
     \/ /\ ctl.suppress = g
        /\ ctl' = [ctl EXCEPT !.suppress = 0]
     \/ /\ ctl.suppress # g
        /\ ctl.transition = "connecting"
        /\ ctl' = NoteAttemptDisconnected(ctl, g)
     \/ /\ ctl.suppress # g
        /\ ctl.transition # "connecting"
        /\ ctl.gen # g
        /\ UNCHANGED ctl
  /\ UNCHANGED <<pc, runVars, closer, bridge, fresh, stalled, port, opened, dev,
                 faults>>

\* handleTransportDisconnected stops status polling, waits for the poller and
\* then takes the lock for the rest.
BridgeDisconnected ==
  /\ BridgeReads
  /\ ~IsInput(NextEvent)
  /\ ctl.suppress # NextEvent.gen
  /\ ctl.transition # "connecting"
  /\ ctl.gen = NextEvent.gen
  /\ ctl' = StopStatusPolling(ctl)
  /\ bridge' = NextEvent.gen
  /\ Goto(Bridge, "join")
  /\ UNCHANGED <<runVars, closer, fresh, stalled, port, opened, dev, faults>>

BridgeClears ==
  /\ pc[Bridge] = "join"
  /\ \A g \in Generation : pc[Poller(g)] # "pollWrite"
  /\ ctl' = IF ctl.gen = bridge THEN HandleTransportDisconnected(ctl) ELSE ctl
  /\ bridge' = 0
  /\ Goto(Bridge, "read")
  /\ UNCHANGED <<runVars, closer, linkVars, fresh>>

BridgeStep ==
  \/ BridgeDiscards \/ BridgeStatus \/ BridgeEStop \/ BridgeLine
  \/ BridgeFailsRun \/ BridgeIgnoresDisconnect \/ BridgeDisconnected
  \/ BridgeClears

-----------------------------------------------------------------------------
(* The background poll of the generation being monitored. *)
MayPoll(c, g) ==
  /\ IsConnected(c) /\ c.gen = g /\ c.polling = g
  /\ c.ready \notin {"stopping", "verifying"}

BeginStatusPoll(g) ==
  /\ "poll" \in Callers
  /\ pc[Poller(g)] = "idle"
  /\ MayPoll(ctl, g)
  /\ Admitted(ctl, "statusPoll", Waiting)
  /\ ctl' = Reserve(ctl, Poller(g))
  /\ Goto(Poller(g), "pollWrite")
  /\ UNCHANGED <<runVars, closer, bridge, linkVars, fresh>>

EndStatusPoll(g) ==
  /\ pc[Poller(g)] = "pollWrite"
  /\ Delivered(Poller(g), "poll") \/ WriteFails(Poller(g), "poll")
  /\ ctl' = EndRealtimeWrite(ctl)
  /\ Goto(Poller(g), "idle")
  /\ UNCHANGED <<runVars, closer, bridge, fresh>>

\* checkStatusWatchdog.  The deadline is abstracted: the controller may have
\* been silent for long enough whenever a heartbeat may be outstanding.
WatchdogEStop ==
  /\ "silent" \in Upsets
  /\ Fault
  /\ CanEnterEStop(ctl)
  /\ ctl.polling = ctl.gen
  /\ ctl.ready \notin {"stopping", "verifying"}
  /\ ctl' = EnterEStop(ctl)
  /\ UNCHANGED <<pc, runVars, closer, bridge, fresh, stalled, port, opened, rx, dev>>
=============================================================================
