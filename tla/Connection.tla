------------------------------ MODULE Connection ------------------------------
(***************************************************************************)
(* The connection lifecycle: Connect (open the transport, validate the     *)
(* firmware, commit the generation), Disconnect, and the verification that *)
(* follows a reconnect made while machine recovery is required.            *)
(***************************************************************************)
EXTENDS MachineLink

Connect ==
  /\ pc[Connector] = "idle"
  /\ opened < MaxGen
  /\ Admitted(ctl, "connect", FALSE)
  /\ ctl' = BeginConnectAttempt(ctl)
  /\ Goto(Connector, "open")
  /\ UNCHANGED <<runVars, closer, bridge, linkVars, fresh>>

\* transport.Open: a new generation, whose device restarts.
OpenPort ==
  /\ pc[Connector] = "open"
  /\ port = 0
  /\ LateEntry \/ \A p \in Writers : pc[p] \in DOMAIN WritingPC => stalled[p] # NoWrite
  /\ port' = opened + 1
  /\ opened' = opened + 1
  /\ dev' = AtRest
  /\ Goto(Connector, "opened")
  /\ UNCHANGED <<ctl, runVars, closer, bridge, fresh, stalled, rx, faults>>

OpenFails ==
  /\ pc[Connector] = "open"
  /\ "open" \in Upsets
  /\ Fault
  /\ Goto(Connector, "abandon")
  /\ UNCHANGED <<ctl, runVars, closer, bridge, fresh, stalled, port, opened, rx, dev>>

\* The critical section after Open: a disconnect of this generation that the
\* bridge saw before Open returned counts against the attempt.
NoteOpen ==
  /\ pc[Connector] = "opened"
  /\ ctl' = NoteOpened(ctl, opened)
  /\ Goto(Connector, IF ctl'.attemptErr THEN "close" ELSE "validate")
  /\ UNCHANGED <<runVars, closer, bridge, linkVars, fresh>>

\* validateGRBLConnection: banner, startup quiet and $$ answered; or not.  The
\* answers reach the attempt through the bridge, behind every older event.
Validated ==
  /\ pc[Connector] = "validate"
  /\ port = opened
  /\ pc[Bridge] = "read"
  /\ \A i \in DOMAIN rx : rx[i].gen = opened
  /\ Goto(Connector, "commit")
  /\ UNCHANGED <<ctl, runVars, closer, bridge, linkVars, fresh>>

ValidationFails ==
  /\ pc[Connector] = "validate"
  /\ \/ (ctl.attemptErr \/ port = 0) /\ UNCHANGED faults
     \/ "handshake" \in Upsets /\ Fault
  /\ Goto(Connector, "close")
  /\ UNCHANGED <<ctl, runVars, closer, bridge, fresh, stalled, port, opened, rx, dev>>

\* The commit rechecks the attempt, starts polling, and starts a verification
\* when the machine was not ready.
CommitConnect ==
  /\ pc[Connector] = "commit"
  /\ IF ctl.attemptErr
     THEN Goto(Connector, "close") /\ UNCHANGED ctl
     ELSE /\ ctl' = CommitConnection(ctl, opened)
          /\ pc' = [pc EXCEPT ![Connector] = "idle",
                              ![Poller(opened)] = "idle",
                              ![Verifier(opened)] =
                                 IF ctl.ready = "normal" THEN "off" ELSE "baseline"]
  /\ UNCHANGED <<runVars, closer, bridge, linkVars, fresh>>

\* transport.Close: a port that is open is closed and reports it.
ClosesPort ==
  /\ IF port = 0 THEN UNCHANGED rx
     ELSE /\ Len(rx) < MaxRx
          /\ rx' = Append(rx, [kind |-> "disconnected", gen |-> port, new |-> TRUE])
  /\ port' = 0

\* failConnectAttempt: suppress the candidate's own disconnect event, close it
\* (closeCandidate), then give up the attempt.
SuppressCandidate ==
  /\ pc[Connector] = "close"
  /\ ctl' = [ctl EXCEPT !.suppress = opened]
  /\ Goto(Connector, "closing")
  /\ UNCHANGED <<runVars, closer, bridge, linkVars, fresh>>

CloseCandidate ==
  /\ pc[Connector] = "closing"
  /\ ClosesPort
  /\ Goto(Connector, "abandon")
  /\ UNCHANGED <<ctl, runVars, closer, bridge, fresh, stalled, opened, dev, faults>>

AbandonConnect ==
  /\ pc[Connector] = "abandon"
  /\ ctl' = AbandonConnectAttempt(ctl)
  /\ Goto(Connector, "idle")
  /\ UNCHANGED <<runVars, closer, bridge, linkVars, fresh>>

ConnectorStep ==
  \/ OpenPort \/ OpenFails \/ NoteOpen \/ Validated \/ ValidationFails
  \/ CommitConnect \/ SuppressCandidate \/ CloseCandidate \/ AbandonConnect

-----------------------------------------------------------------------------
(* Disconnect. *)
NoCloser == [write |-> Nobody, forced |-> FALSE]

\* The first critical section captures the reservation to wait for, or to
\* retire by closing the port under it.
Disconnect ==
  /\ "disconnect" \in Callers
  /\ pc[Closer] = "idle"
  /\ Admitted(ctl, "disconnect", FALSE)
  /\ closer' = [write |-> ctl.write,
                forced |-> /\ ctl.write # Nobody
                           /\ ctl.stop.run # 0 \/ ctl.ready = "recovery"]
  /\ ctl' = BeginDisconnect(ctl)
  /\ Goto(Closer, "stopPolling")
  /\ UNCHANGED <<runVars, bridge, linkVars, fresh>>

DisconnectStopsPolling ==
  /\ pc[Closer] = "stopPolling"
  /\ ctl' = StopStatusPolling(ctl)
  /\ Goto(Closer, "join")
  /\ UNCHANGED <<runVars, closer, bridge, linkVars, fresh>>

\* stopStatusPolling's wait for the poller, then the wait for the write.
DisconnectDrains ==
  /\ pc[Closer] = "join"
  /\ \A g \in Generation : pc[Poller(g)] # "pollWrite"
  /\ \/ closer.forced
     \/ closer.write = Nobody
     \/ ctl.write # closer.write
  /\ Goto(Closer, "close")
  /\ UNCHANGED <<ctl, runVars, closer, bridge, linkVars, fresh>>

DisconnectCloses ==
  /\ pc[Closer] = "close"
  /\ ClosesPort
  /\ \/ Goto(Closer, "clear") /\ UNCHANGED faults
     \/ "close" \in Upsets /\ port # 0 /\ Fault /\ Goto(Closer, "closeErr")
  /\ UNCHANGED <<ctl, runVars, closer, bridge, fresh, stalled, opened, dev>>

DisconnectFails ==
  /\ pc[Closer] = "closeErr"
  /\ ctl' = DisconnectFailed(ctl)
  /\ closer' = NoCloser
  /\ Goto(Closer, "idle")
  /\ UNCHANGED <<runVars, bridge, linkVars, fresh>>

\* A forced close retires exactly the reservation it captured.
DisconnectReleases ==
  /\ pc[Closer] = "clear"
  /\ ctl' = IF closer.forced THEN EndReservation(ctl, closer.write) ELSE ctl
  /\ closer' = NoCloser
  /\ Goto(Closer, "cleared")
  /\ UNCHANGED <<runVars, bridge, linkVars, fresh>>

DisconnectClears ==
  /\ pc[Closer] = "cleared"
  /\ ctl' = [ClearConnectionState(ctl) EXCEPT !.transition = "stable"]
  /\ Goto(Closer, "idle")
  /\ UNCHANGED <<runVars, closer, bridge, linkVars, fresh>>

CloserStep ==
  \/ DisconnectStopsPolling \/ DisconnectDrains \/ DisconnectCloses \/ DisconnectFails
  \/ DisconnectReleases \/ DisconnectClears

-----------------------------------------------------------------------------
(* verifyReadinessAfterConnect, on verifyFreshIdle. *)
Verifiable(c, g) == c.gen = g /\ IsConnected(c) /\ ~c.alarmed

VerifierBaseline(g) ==
  /\ pc[Verifier(g)] = "baseline"
  /\ IF Verifiable(ctl, g)
     THEN TakeBaseline(Verifier(g)) /\ Goto(Verifier(g), "pollAdmit")
     ELSE Goto(Verifier(g), "unverified") /\ UNCHANGED fresh
  /\ UNCHANGED <<ctl, runVars, closer, bridge, linkVars>>

VerifierPoll(g) ==
  \/ PollAdmitted(Verifier(g))
  \/ /\ pc[Verifier(g)] = "pollAdmit"    \* rejected, or timed out
     /\ PollRejected(Verifier(g)) \/ ctl.write # Nobody
     /\ Goto(Verifier(g), "unverified")
     /\ UNCHANGED <<ctl, runVars, closer, bridge, linkVars, fresh>>
  \/ PollWritten(Verifier(g))
  \/ PollWriteFails(Verifier(g), "unverified")

VerifierIdle(g) ==
  /\ pc[Verifier(g)] = "waitIdle"
  /\ \/ /\ Verifiable(ctl, g)
        /\ FreshReport(Verifier(g), "Idle")
        /\ Goto(Verifier(g), "verified")
     \/ Goto(Verifier(g), "unverified")  \* alarm, disconnected, timed out
  /\ UNCHANGED <<ctl, runVars, closer, bridge, linkVars, fresh>>

\* The conclusion applies only to the generation and phase it was made for, and
\* an alarm that came since overrules it.
ConcludeVerification(c, g, verified) ==
  IF c.gen # g \/ c.ready # "verifying" THEN c
  ELSE IF ~verified \/ c.alarmed THEN [c EXCEPT !.ready = "recovery"]
  ELSE IF c.estop = "clear" THEN [c EXCEPT !.ready = "normal"]
  ELSE c

VerifierConcludes(g) ==
  /\ pc[Verifier(g)] \in {"verified", "unverified"}
  /\ ctl' = ConcludeVerification(ctl, g, pc[Verifier(g)] = "verified")
  /\ Goto(Verifier(g), "off")
  /\ UNCHANGED <<runVars, closer, bridge, linkVars, fresh>>

VerifierStep(g) ==
  \/ VerifierBaseline(g) \/ VerifierPoll(g) \/ VerifierIdle(g)
  \/ VerifierConcludes(g)
=============================================================================
