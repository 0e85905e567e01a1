------------------------------ MODULE ProgramRun ------------------------------
(***************************************************************************)
(* One execution of a program: the runner goroutine that sends the lines,  *)
(* waits for their acknowledgements, drains the machine to a fresh Idle    *)
(* and completes the run; and the callers of PauseProgram and              *)
(* ResumeProgram, which share the realtime transport with it.              *)
(***************************************************************************)
EXTENDS MachineLink

\* The runner's context or its session is cancelled: Stop, e-stop, disconnect
\* and failure all do it in, or right after, the critical section that takes
\* the run away.
Cancelled(r) == ctl.run.id # r \/ ctl.status = "stopping"

\* StartProgram.  The call waits in beginForegroundAdmission for a status poll.
StartProgram(r) ==
  /\ pc[Runner(r)] = "off"
  /\ \A q \in 1..(r - 1) : pc[Runner(q)] # "off"
  /\ ~PollHolds(ctl)
  /\ Admitted(ctl, "program", FALSE)
  /\ IsConnected(ctl) /\ ctl.gen # 0
  /\ ctl' = StartRun(ctl, r)
  /\ job' = [job EXCEPT ![r] = [left |-> Lines, gen |-> ctl.gen]]
  /\ Goto(Runner(r), IF Lines > 0 THEN "gate" ELSE "drain")
  /\ UNCHANGED <<aim, chan, closer, bridge, linkVars, fresh>>

-----------------------------------------------------------------------------
(* waitUntilRunnable: polled every 20 ms until it returns. *)
Runnable(r) ==
  /\ ~Cancelled(r)
  /\ ctl.status # "paused"
  /\ ctl.run.pause = Nobody

RunnerGate(r) ==
  /\ pc[Runner(r)] = "gate"
  /\ Runnable(r)
  /\ Goto(Runner(r), "admit")
  /\ UNCHANGED <<ctl, runVars, closer, bridge, linkVars, fresh>>
\* Mutant: the status is not read again where the line is written.
WriteLineUnchecked(c, r) == c.run.id = r /\ c.gen = job[r].gen

\* writeRuntimeMessage's critical section.
MayWriteLine(c, r) ==
  /\ c.run.id = r
  /\ c.gen = job[r].gen
  /\ c.status = "running"

RunnerAdmit(r) ==
  /\ pc[Runner(r)] = "admit"
  /\ ~PollHolds(ctl)
  /\ \/ /\ ~MayWriteLine(ctl, r)
        /\ Goto(Runner(r), "fail")
        /\ UNCHANGED ctl
     \/ /\ MayWriteLine(ctl, r)
        /\ ctl.run.pause # Nobody
        /\ Goto(Runner(r), "gate")
        /\ UNCHANGED ctl
     \/ /\ MayWriteLine(ctl, r)
        /\ ctl.run.pause = Nobody
        /\ ctl.write # Nobody
        /\ Goto(Runner(r), "blocked")
        /\ UNCHANGED ctl
     \/ /\ MayWriteLine(ctl, r)
        /\ ctl.run.pause = Nobody
        /\ ctl.write = Nobody
        /\ ctl' = [Reserve(ctl, Runner(r)) EXCEPT !.run.work = TRUE]
        /\ Goto(Runner(r), "write")
  /\ UNCHANGED <<runVars, closer, bridge, linkVars, fresh>>

\* The reservation the runner waited behind has ended, or its context has.
RunnerUnblocked(r) ==
  /\ pc[Runner(r)] = "blocked"
  /\ \/ ctl.write = Nobody /\ Goto(Runner(r), "gate")
     \/ Cancelled(r) /\ Goto(Runner(r), "fail")
  /\ UNCHANGED <<ctl, runVars, closer, bridge, linkVars, fresh>>

\* defer c.endRealtimeWrite() runs whatever the Write returned.
LineWritten(r) ==
  /\ pc[Runner(r)] = "write"
  /\ Delivered(Runner(r), "line")
  /\ ctl' = EndRealtimeWrite(ctl)
  /\ Goto(Runner(r), "await")
  /\ UNCHANGED <<runVars, closer, bridge, fresh>>

LineWriteFails(r) ==
  /\ pc[Runner(r)] = "write"
  /\ WriteFails(Runner(r), "line")
  /\ ctl' = EndRealtimeWrite(ctl)
  /\ Goto(Runner(r), "fail")
  /\ UNCHANGED <<runVars, closer, bridge, fresh>>
\* Mutant: one line too many.
AfterLineOffByOne(left) == IF left > 0 THEN "gate" ELSE "drain"

\* The runner's loop over the lines.
AfterLine(left) == IF left > 1 THEN "gate" ELSE "drain"

\* sendLineAndWaitOK's select: a terminal response, or cancellation.
RunnerResponse(r) ==
  /\ pc[Runner(r)] = "await"
  /\ chan[r] # <<>>
  /\ chan' = [chan EXCEPT ![r] = Tail(@)]
  /\ IF Head(chan[r]) = "ok"
     THEN /\ job' = [job EXCEPT ![r].left = @ - 1]
          /\ Goto(Runner(r), AfterLine(job[r].left))
     ELSE Goto(Runner(r), "fail") /\ UNCHANGED job
  /\ UNCHANGED <<ctl, aim, closer, bridge, linkVars, fresh>>

RunnerCancelled(r) ==
  /\ pc[Runner(r)] \in {"gate", "await", "drainGate", "waitIdle"}
  /\ Cancelled(r)
  /\ Goto(Runner(r), "fail")
  /\ UNCHANGED <<ctl, runVars, closer, bridge, linkVars, fresh>>

-----------------------------------------------------------------------------
(* Draining. *)
CanBeginDraining(c, r) ==
  /\ c.run.id = r
  /\ c.stop.run = 0
  /\ c.status \in {"running", "paused"}

BeginProgramDraining(r) ==
  /\ pc[Runner(r)] = "drain"
  /\ IF CanBeginDraining(ctl, r)
     THEN /\ ctl' = [ctl EXCEPT !.run.draining = TRUE,
                                !.status = IF @ = "paused" THEN @ ELSE "draining"]
          /\ Goto(Runner(r), "drainGate")
     ELSE Goto(Runner(r), "done") /\ UNCHANGED ctl
  /\ UNCHANGED <<runVars, closer, bridge, linkVars, fresh>>

DrainGate(r) ==
  /\ pc[Runner(r)] = "drainGate"
  /\ Runnable(r)
  /\ Goto(Runner(r), "baseline")
  /\ UNCHANGED <<ctl, runVars, closer, bridge, linkVars, fresh>>

\* The runner reads drainSyncEpoch and then waitForFreshIdle's baseline.
DrainBaseline(r) ==
  /\ pc[Runner(r)] = "baseline"
  /\ IF ctl.run.id = r /\ ctl.gen = job[r].gen
     THEN /\ ctl' = [ctl EXCEPT !.run.inSync = TRUE]
          /\ TakeBaseline(Runner(r))
          /\ Goto(Runner(r), "pollAdmit")
     ELSE /\ Goto(Runner(r), "fail")
          /\ UNCHANGED <<ctl, fresh>>
  /\ UNCHANGED <<runVars, closer, bridge, linkVars>>

DrainPoll(r) ==
  \/ PollAdmitted(Runner(r))
  \/ /\ \/ PollRejected(Runner(r))
        \/ pc[Runner(r)] = "pollAdmit" /\ Cancelled(r)
     /\ Goto(Runner(r), "fail")
     /\ UNCHANGED <<ctl, runVars, closer, bridge, linkVars, fresh>>
  \/ PollWritten(Runner(r))
  \/ PollWriteFails(Runner(r), "fail")

\* The loop of waitForFreshIdle: the report is read before the channels.
DrainIdle(r) ==
  /\ pc[Runner(r)] = "waitIdle"
  /\ ctl.run.id = r
  /\ \/ FreshReport(Runner(r), "Idle")  /\ Goto(Runner(r), "check")
     \/ FreshReport(Runner(r), "Alarm") /\ Goto(Runner(r), "fail")
  /\ UNCHANGED <<ctl, runVars, closer, bridge, linkVars, fresh>>

DrainResponse(r) ==
  /\ pc[Runner(r)] = "waitIdle"
  /\ chan[r] # <<>>
  /\ chan' = [chan EXCEPT ![r] = Tail(@)]
  /\ Goto(Runner(r), IF Head(chan[r]) = "ok" THEN "waitIdle" ELSE "fail")
  /\ UNCHANGED <<ctl, aim, job, closer, bridge, linkVars, fresh>>

\* needsFreshSync, read before and apart from finishProgramSuccess.
DrainCheck(r) ==
  /\ pc[Runner(r)] = "check"
  /\ Goto(Runner(r), IF ctl.run.id = r /\ ~ctl.run.inSync THEN "drainGate"
                     ELSE "finish")
  /\ UNCHANGED <<ctl, runVars, closer, bridge, linkVars, fresh>>

RunnerFinish(r) ==
  /\ pc[Runner(r)] = "finish"
  /\ IF CanFinishProgram(ctl, r)
     THEN ctl' = FinishProgramSuccess(ctl) /\ Goto(Runner(r), "done")
     ELSE /\ Goto(Runner(r), IF ctl.run.id = r THEN "drainGate" ELSE "done")
          /\ UNCHANGED ctl
  /\ UNCHANGED <<runVars, closer, bridge, linkVars, fresh>>

RunnerFail(r) ==
  /\ pc[Runner(r)] = "fail"
  /\ ctl' = FinishProgramFailure(ctl, r)
  /\ Goto(Runner(r), "done")
  /\ UNCHANGED <<runVars, closer, bridge, linkVars, fresh>>

RunnerStep(r) ==
  \/ RunnerGate(r) \/ RunnerAdmit(r) \/ RunnerUnblocked(r)
  \/ LineWritten(r) \/ LineWriteFails(r)
  \/ RunnerResponse(r) \/ RunnerCancelled(r)
  \/ BeginProgramDraining(r) \/ DrainGate(r) \/ DrainBaseline(r)
  \/ DrainPoll(r) \/ DrainIdle(r) \/ DrainResponse(r)
  \/ DrainCheck(r) \/ RunnerFinish(r) \/ RunnerFail(r)

-----------------------------------------------------------------------------
(* Pause. *)
BeginPause(i) ==
  /\ "pause" \in Callers
  /\ pc[Client(i)] = "idle"
  /\ ctl.status \in {"running", "draining"}
  /\ ctl.run.id # 0
  /\ ctl.run.pause = Nobody
  /\ ctl' = BeginPauseTransition(ctl, Client(i))
  /\ aim' = [aim EXCEPT ![i] = ctl.run.id]
  /\ Goto(Client(i), "holdAdmit")
  /\ UNCHANGED <<chan, job, closer, bridge, linkVars, fresh>>

\* writeProgramActionForRun: the run, generation, readiness and token that the
\* caller started from, checked where the transport is reserved.
MayWriteAction(c, i) ==
  /\ c.run.id = aim[i]
  /\ c.gen = c.run.gen
  /\ c.stop.run = 0
  /\ c.ready = "normal"
  /\ c.estop = "clear"

MayHold(c, i) ==
  /\ MayWriteAction(c, i)
  /\ c.run.pause = Client(i)
  /\ c.status \in {"running", "draining"}
  /\ Admitted(c, "realtime", FALSE)

PauseAdmit(i) ==
  /\ pc[Client(i)] = "holdAdmit"
  /\ ~PollHolds(ctl)
  /\ IF MayHold(ctl, i)
     THEN ctl' = Reserve(ctl, Client(i)) /\ Goto(Client(i), "holdWrite")
     ELSE Goto(Client(i), "holdEnd") /\ UNCHANGED ctl
  /\ UNCHANGED <<runVars, closer, bridge, linkVars, fresh>>

HoldWritten(i) ==
  /\ pc[Client(i)] = "holdWrite"
  /\ Delivered(Client(i), "hold")
  /\ ctl' = EndRealtimeWrite(ctl)
  /\ Goto(Client(i), "holdCommit")
  /\ UNCHANGED <<runVars, closer, bridge, fresh>>
\* Mutant: a Hold that was not written still pauses the run.
PauseWithoutHold(i) ==
  /\ pc[Client(i)] = "holdWrite"
  /\ WriteFails(Client(i), "hold")
  /\ ctl' = EndRealtimeWrite(ctl)
  /\ Goto(Client(i), "holdCommit")
  /\ UNCHANGED <<runVars, closer, bridge, fresh>>

HoldWriteFails(i) ==
  /\ pc[Client(i)] = "holdWrite"
  /\ WriteFails(Client(i), "hold")
  /\ ctl' = EndRealtimeWrite(ctl)
  /\ Goto(Client(i), "holdEnd")
  /\ UNCHANGED <<runVars, closer, bridge, fresh>>

\* The tail of pauseProgram: the transition is released, and the run paused if
\* it still is the same run, executing.
CommitPause(c, i) ==
  IF c.run.pause # Client(i) THEN c
  ELSE IF c.run.id # aim[i] \/ c.status \notin {"running", "draining"}
  THEN EndPauseTransition(c, Client(i))
  ELSE [EndPauseTransition(c, Client(i)) EXCEPT !.status = "paused"]

PauseReturns(i) ==
  /\ \/ /\ pc[Client(i)] = "holdCommit"
        /\ ctl' = CommitPause(ctl, i)
     \/ /\ pc[Client(i)] = "holdEnd"
        /\ ctl' = EndPauseTransition(ctl, Client(i))
  /\ aim' = [aim EXCEPT ![i] = 0]
  /\ Goto(Client(i), "idle")
  /\ UNCHANGED <<chan, job, closer, bridge, linkVars, fresh>>

-----------------------------------------------------------------------------
(* Resume. *)
MayResume(c) ==
  /\ c.run.id # 0
  /\ c.run.pause = Nobody
  /\ c.status = "paused"
  /\ c.stop.run = 0
  /\ c.ready = "normal"
  /\ c.estop = "clear"

BeginResume(i) ==
  /\ "resume" \in Callers
  /\ pc[Client(i)] = "idle"
  /\ MayResume(ctl)
  /\ aim' = [aim EXCEPT ![i] = ctl.run.id]
  /\ Goto(Client(i), "resumeAdmit")
  /\ UNCHANGED <<ctl, chan, job, closer, bridge, linkVars, fresh>>

ResumeAdmit(i) ==
  /\ pc[Client(i)] = "resumeAdmit"
  /\ ~PollHolds(ctl)
  /\ IF /\ MayWriteAction(ctl, i) /\ MayResume(ctl)
        /\ Admitted(ctl, "realtime", FALSE)
     THEN /\ ctl' = Reserve(ctl, Client(i))
          /\ Goto(Client(i), "resumeWrite")
          /\ UNCHANGED aim
     ELSE /\ Goto(Client(i), "idle")
          /\ aim' = [aim EXCEPT ![i] = 0]
          /\ UNCHANGED ctl
  /\ UNCHANGED <<chan, job, closer, bridge, linkVars, fresh>>

ResumeWritten(i) ==
  /\ pc[Client(i)] = "resumeWrite"
  /\ Delivered(Client(i), "resume")
  /\ ctl' = EndRealtimeWrite(ctl)
  /\ Goto(Client(i), "resumeCommit")
  /\ UNCHANGED <<runVars, closer, bridge, fresh>>

ResumeWriteFails(i) ==
  /\ pc[Client(i)] = "resumeWrite"
  /\ WriteFails(Client(i), "resume")
  /\ ctl' = EndRealtimeWrite(ctl)
  /\ aim' = [aim EXCEPT ![i] = 0]
  /\ Goto(Client(i), "idle")
  /\ UNCHANGED <<chan, job, closer, bridge, fresh>>
\* Mutant: Resume does not look again at the run it resumed.
CommitResumeUnchecked(c, i) ==
  [c EXCEPT !.status = IF c.run.draining THEN "draining" ELSE "running"]

\* Mutant: a run paused while draining resumes as running.
ResumeForgetsDraining(c, i) ==
  IF c.run.id # aim[i] \/ c.status # "paused" THEN c
  ELSE [c EXCEPT !.status = "running"]

CommitResume(c, i) ==
  IF c.run.id # aim[i] \/ c.status # "paused" THEN c
  ELSE [c EXCEPT !.status = IF c.run.draining THEN "draining" ELSE "running"]

ResumeReturns(i) ==
  /\ pc[Client(i)] = "resumeCommit"
  /\ ctl' = CommitResume(ctl, i)
  /\ aim' = [aim EXCEPT ![i] = 0]
  /\ Goto(Client(i), "idle")
  /\ UNCHANGED <<chan, job, closer, bridge, linkVars, fresh>>

ClientStep(i) ==
  \/ PauseAdmit(i) \/ HoldWritten(i) \/ HoldWriteFails(i) \/ PauseReturns(i)
  \/ ResumeAdmit(i) \/ ResumeWritten(i) \/ ResumeWriteFails(i)
  \/ ResumeReturns(i)
=============================================================================
