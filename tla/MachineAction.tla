----------------------------- MODULE MachineAction -----------------------------
(***************************************************************************)
(* The machine-wide realtime actions an operator has beside the program    *)
(* controls: Hold, Resume and Soft Reset.  They share the realtime         *)
(* reservation with the runner, Pause, Resume and Stop.  Status requests   *)
(* and Jog Cancel are admitted as Hold is and leave the machine as it is.  *)
(***************************************************************************)
EXTENDS MachineLink

ActionWrite == [machineHold |-> "machineHoldWrite",
                machineResume |-> "machineResumeWrite",
                softReset |-> "softResetWrite"]
Actions == DOMAIN ActionWrite

\* What each action asks admission for.
AdmissionOf(c, a) ==
  CASE a = "machineResume" -> "realtime"
    [] a = "softReset" /\ c.estop = "recovery" -> "recoveryRealtime"
    [] OTHER -> "safety"

\* A program keeps the machine-wide Resume out, and a program or a Stop the
\* Soft Reset: the run has a Resume and a reset of its own.
ActionAllowed(c, a) ==
  /\ a = "machineResume" => c.stop.run = 0 /\ ~ProgramActive(c)
  /\ a = "softReset"     => c.stop.run = 0 /\ c.owner = NoOwner

BeginAction(i, a) ==
  /\ a \in Callers
  /\ pc[Client(i)] = "idle"
  /\ Goto(Client(i), a)
  /\ UNCHANGED <<ctl, runVars, closer, bridge, linkVars, fresh>>

ActionAdmit(i, a) ==
  /\ pc[Client(i)] = a
  /\ ~PollHolds(ctl)
  /\ IF Admitted(ctl, AdmissionOf(ctl, a), FALSE) /\ ActionAllowed(ctl, a)
     THEN ctl' = Reserve(ctl, Client(i)) /\ Goto(Client(i), ActionWrite[a])
     ELSE Goto(Client(i), "idle") /\ UNCHANGED ctl
  /\ UNCHANGED <<runVars, closer, bridge, linkVars, fresh>>

ActionReturns(i, a) ==
  /\ pc[Client(i)] = ActionWrite[a]
  /\ \/ Delivered(Client(i), WritingPC[pc[Client(i)]])
     \/ WriteFails(Client(i), WritingPC[pc[Client(i)]])
  /\ ctl' = EndRealtimeWrite(ctl)
  /\ Goto(Client(i), "idle")
  /\ UNCHANGED <<runVars, closer, bridge, fresh>>

ActionStep(i) == \E a \in Actions : ActionAdmit(i, a) \/ ActionReturns(i, a)
=============================================================================
