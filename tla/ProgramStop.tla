------------------------------ MODULE ProgramStop ------------------------------
(***************************************************************************)
(* Stop: StopProgram's critical section and the coordinator it starts,     *)
(* which holds one reservation across Hold and Ctrl-X, waits for the       *)
(* startup banner that answers the reset and then for a fresh Idle, and    *)
(* finishes or fails the operation.  Every wait of the coordinator has a   *)
(* timeout.  A Write of Hold or Ctrl-X that outlives its timeout is left   *)
(* to a goroutine that releases the reservation when it returns.           *)
(***************************************************************************)
EXTENDS MachineLink

\* StopProgram and StopProgramRun, up to go c.executeProgramStop(op).
StopProgram(r) ==
  /\ "stop" \in Callers
  /\ pc[Stopper(r)] = "off"
  /\ ctl.stop.run = 0
  /\ ctl.run.id = r
  /\ ctl.status \in Active
  /\ ctl' = BeginStop(ctl)
  /\ Goto(Stopper(r), "acquire")
  /\ UNCHANGED <<runVars, closer, bridge, linkVars, fresh>>

\* acquireStopWrite.
StopAcquires(r) ==
  /\ pc[Stopper(r)] = "acquire"
  /\ StopCurrent(ctl, r) /\ IsConnected(ctl)
  /\ Admitted(ctl, "stop", FALSE)
  /\ ctl' = Reserve(ctl, Stopper(r))
  /\ Goto(Stopper(r), "hold")
  /\ UNCHANGED <<runVars, closer, bridge, linkVars, fresh>>

\* The operation is no longer current, may not write, or transportCtx expired
\* while another reservation was held.
StopCannotAcquire(r) ==
  /\ pc[Stopper(r)] = "acquire"
  /\ \/ ~(StopCurrent(ctl, r) /\ IsConnected(ctl))
     \/ ~Eligible(ctl, "stop")
     \/ ctl.write # Nobody
  /\ Goto(Stopper(r), "fail")
  /\ UNCHANGED <<ctl, runVars, closer, bridge, linkVars, fresh>>

StopHoldWritten(r) ==
  /\ pc[Stopper(r)] = "hold"
  /\ \/ Delivered(Stopper(r), "hold")  /\ Goto(Stopper(r), "mark")
     \/ WriteFails(Stopper(r), "hold") /\ Goto(Stopper(r), "markErr")
  /\ UNCHANGED <<ctl, runVars, closer, bridge, fresh>>

\* markStopResetWriteIssued.  Events queued before it carry older timestamps
\* than resetStartedAt.
StopMarksReset(r) ==
  /\ pc[Stopper(r)] \in {"mark", "markErr"}
  /\ IF StopCurrent(ctl, r)
     THEN /\ ctl' = MarkStopResetWriteIssued(ctl)
          /\ rx' = [i \in DOMAIN rx |-> [rx[i] EXCEPT !.new = FALSE]]
          /\ Goto(Stopper(r), IF pc[Stopper(r)] = "mark" THEN "reset" ELSE "resetErr")
     ELSE /\ ctl' = EndReservation(ctl, Stopper(r))
          /\ Goto(Stopper(r), "done")
          /\ UNCHANGED rx
  /\ UNCHANGED <<runVars, closer, bridge, fresh, stalled, port, opened, dev, faults>>

\* The reservation ends with the Ctrl-X write, whatever it returned; an error
\* of either write then fails the operation.
StopResetWritten(r) ==
  /\ pc[Stopper(r)] \in {"reset", "resetErr"}
  /\ \/ /\ Delivered(Stopper(r), "reset")
        /\ Goto(Stopper(r), IF pc[Stopper(r)] = "reset" THEN "verify" ELSE "fail")
     \/ /\ WriteFails(Stopper(r), "reset")
        /\ Goto(Stopper(r), "fail")
  /\ ctl' = EndReservation(ctl, Stopper(r))
  /\ UNCHANGED <<runVars, closer, bridge, fresh>>
\* Mutant: only a lost connection ends the wait for a write.
StopWriteWaits(r) ==
  /\ pc[Stopper(r)] \in {"hold", "reset", "resetErr"}
  /\ stalled[Stopper(r)] # NoWrite
  /\ ~IsConnected(ctl)
  /\ Goto(Stopper(r), "fail")
  /\ UNCHANGED <<ctl, runVars, closer, bridge, linkVars, fresh>>

\* writeStopActionBounded: the timeout finds the write still in flight.
StopWriteTimesOut(r) ==
  /\ pc[Stopper(r)] \in {"hold", "reset", "resetErr"}
  /\ stalled[Stopper(r)] # NoWrite
  /\ Goto(Stopper(r), "fail")
  /\ UNCHANGED <<ctl, runVars, closer, bridge, linkVars, fresh>>

\* The goroutine left behind: the write returns and its reservation ends.
PendingStopWriteReturns(r) ==
  /\ pc[Stopper(r)] = "done"
  /\ stalled[Stopper(r)] # NoWrite
  /\ \/ Delivered(Stopper(r), stalled[Stopper(r)].msg)
     \/ WriteFails(Stopper(r), stalled[Stopper(r)].msg)
  /\ ctl' = EndReservation(ctl, Stopper(r))
  /\ UNCHANGED <<pc, runVars, closer, bridge, fresh>>

StopVerifies(r) ==
  /\ pc[Stopper(r)] = "verify"
  /\ IF StopCurrent(ctl, r)
     THEN /\ ctl' = [ctl EXCEPT !.ready = "verifying"]
          /\ Goto(Stopper(r), "banner")
     ELSE Goto(Stopper(r), "done") /\ UNCHANGED ctl
  /\ UNCHANGED <<runVars, closer, bridge, linkVars, fresh>>

\* Mutant: the startup banner alone ends the verification.
StopTrustsBanner(r) ==
  /\ pc[Stopper(r)] = "banner"
  /\ \/ /\ StopVerifiable(ctl, r)
        /\ ctl.stop.banner
        /\ Goto(Stopper(r), "finish")
     \/ Goto(Stopper(r), "fail")
  /\ UNCHANGED <<ctl, runVars, closer, bridge, linkVars, fresh>>

\* waitForStartupBannerAfter.
StopBanner(r) ==
  /\ pc[Stopper(r)] = "banner"
  /\ \/ /\ StopVerifiable(ctl, r)
        /\ ctl.stop.banner
        /\ Goto(Stopper(r), "baseline")
     \/ Goto(Stopper(r), "fail")         \* not verifiable, or timed out
  /\ UNCHANGED <<ctl, runVars, closer, bridge, linkVars, fresh>>

\* verifyFreshIdle.
StopBaseline(r) ==
  /\ pc[Stopper(r)] = "baseline"
  /\ IF StopVerifiable(ctl, r)
     THEN TakeBaseline(Stopper(r)) /\ Goto(Stopper(r), "pollAdmit")
     ELSE Goto(Stopper(r), "fail") /\ UNCHANGED fresh
  /\ UNCHANGED <<ctl, runVars, closer, bridge, linkVars>>

StopPoll(r) ==
  \/ PollAdmitted(Stopper(r))
  \/ /\ pc[Stopper(r)] = "pollAdmit"     \* rejected, or timed out
     /\ PollRejected(Stopper(r)) \/ ctl.write # Nobody
     /\ Goto(Stopper(r), "fail")
     /\ UNCHANGED <<ctl, runVars, closer, bridge, linkVars, fresh>>
  \/ PollWritten(Stopper(r))
  \/ PollWriteFails(Stopper(r), "fail")
StopIdle(r) ==
  /\ pc[Stopper(r)] = "waitIdle"
  /\ \/ /\ StopVerifiable(ctl, r)
        /\ FreshReport(Stopper(r), "Idle")
        /\ Goto(Stopper(r), "finish")
     \/ Goto(Stopper(r), "fail")         \* alarm, no longer current, timed out
  /\ UNCHANGED <<ctl, runVars, closer, bridge, linkVars, fresh>>

\* finishProgramStop rechecks everything the verification relied on.
MayFinishStop(c, r) ==
  /\ StopVerifiable(c, r)
  /\ c.run.id = r
  /\ c.estop = "clear"
  /\ c.ready = "verifying"

StopFinishes(r) ==
  /\ pc[Stopper(r)] = "finish"
  /\ IF MayFinishStop(ctl, r)
     THEN ctl' = FinishProgramStop(ctl) /\ Goto(Stopper(r), "done")
     ELSE Goto(Stopper(r), "fail") /\ UNCHANGED ctl
  /\ UNCHANGED <<runVars, closer, bridge, linkVars, fresh>>

StopFails(r) ==
  /\ pc[Stopper(r)] = "fail"
  /\ ctl' = FailProgramStop(ctl, r)
  /\ Goto(Stopper(r), "done")
  /\ UNCHANGED <<runVars, closer, bridge, linkVars, fresh>>

StopStep(r) ==
  \/ StopAcquires(r) \/ StopCannotAcquire(r)
  \/ StopHoldWritten(r) \/ StopMarksReset(r) \/ StopResetWritten(r)
  \/ StopWriteTimesOut(r) \/ StopVerifies(r) \/ StopBanner(r)
  \/ StopBaseline(r) \/ StopPoll(r) \/ StopIdle(r)
  \/ StopFinishes(r) \/ StopFails(r)
=============================================================================
