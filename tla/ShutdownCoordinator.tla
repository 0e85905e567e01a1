------------------------- MODULE ShutdownCoordinator -------------------------
(***************************************************************************)
(* The toolkit-independent parts of closing (internal/frontend): the       *)
(* coordinator of an application shutdown, the gate that counts the Starts *)
(* between a Run click and the controller's answer, and the decisions      *)
(* about closing one document.  All but the gate belong to the UI thread;  *)
(* each method is an operator from one record to the next.                 *)
(***************************************************************************)
EXTENDS ExecutionSessions

CONSTANT MaxAttempts   \* shutdown attempts the operator makes

ASSUME MaxAttemptsAssumption == MaxAttempts \in Nat

-----------------------------------------------------------------------------
(* ShutdownCoordinator. *)

ShutdownPhase == {"idle", "confirming", "waitingForRunAdmission", "waitingForStopConfirmation",
                  "waitingForStop", "closingDocuments", "readyToCloseMain", "finished"}
NoTarget == [doc |-> 0, run |-> 0]
Target == [doc : Documents \cup {0}, run : 0..MaxRuns]

\* documents are those recorded by Begin, closed those whose closure was seen.
Coordinator ==
  [phase : ShutdownPhase, attempt : 0..MaxAttempts, next : 0..MaxAttempts, stopTarget : Target,
   stopOwned : BOOLEAN, documents : SUBSET Documents, closed : SUBSET Documents,
   selected : Documents \cup {0}, finalIssued : BOOLEAN]

InitCoordinator ==
  [phase |-> "idle", attempt |-> 0, next |-> 0, stopTarget |-> NoTarget, stopOwned |-> FALSE,
   documents |-> {}, closed |-> {}, selected |-> 0, finalIssued |-> FALSE]

TargetOf(st) == [doc |-> st.doc, run |-> st.run]
Active(sd) == sd.phase \notin {"idle", "finished"}
Current(sd, attempt) == attempt # 0 /\ attempt = sd.attempt

\* cancelCurrent
CancelCurrent(sd) ==
  [InitCoordinator EXCEPT !.next = sd.next, !.finalIssued = sd.finalIssued]
Cancel(sd, attempt) ==
  IF Current(sd, attempt) /\ sd.phase # "finished" THEN CancelCurrent(sd) ELSE sd

CanBegin(sd) == ~Active(sd) /\ ~sd.finalIssued
Begin(sd, docs) ==
  [InitCoordinator EXCEPT !.phase = "confirming", !.attempt = sd.next + 1, !.next = sd.next + 1,
                          !.documents = docs]

ConfirmApplication(sd, attempt, accepted) ==
  IF ~Current(sd, attempt) \/ sd.phase # "confirming" THEN sd
  ELSE IF accepted THEN [sd EXCEPT !.phase = "waitingForRunAdmission"] ELSE CancelCurrent(sd)

ResolveRunAdmission(sd, st) ==
  IF st.status = "stopping" THEN [sd EXCEPT !.stopTarget = TargetOf(st), !.phase = "waitingForStop"]
  ELSE IF st.ready # "normal" THEN CancelCurrent(sd)
  ELSE IF IsActive(st)
  THEN [sd EXCEPT !.stopTarget = TargetOf(st), !.phase = "waitingForStopConfirmation"]
  ELSE [sd EXCEPT !.phase = "closingDocuments"]

ConfirmStop(sd, accepted) ==
  IF accepted THEN [sd EXCEPT !.phase = "waitingForStop", !.stopOwned = TRUE] ELSE CancelCurrent(sd)

\* StopResult; drainShutdownStopResults has checked the attempt and the phase.
StopResult(sd, target, verified) ==
  IF ~sd.stopOwned \/ target # sd.stopTarget THEN sd
  ELSE IF verified THEN [sd EXCEPT !.stopOwned = FALSE, !.phase = "closingDocuments"]
  ELSE CancelCurrent(sd)

StopAlreadyInProgress(sd, target) ==
  IF target = sd.stopTarget THEN [sd EXCEPT !.stopOwned = FALSE] ELSE sd

ObserveExternalStop(sd, st) ==
  IF TargetOf(st) # sd.stopTarget \/ st.run = 0 THEN CancelCurrent(sd)
  ELSE IF st.status = "stopped" /\ st.ready = "normal"
  THEN [sd EXCEPT !.stopOwned = FALSE, !.phase = "closingDocuments"]
  ELSE IF st.status \in {"failed", "completed"} \/ st.ready = "recovery" THEN CancelCurrent(sd)
  ELSE sd

\* NextDocumentToClose: the documents it may select, in the map's random order.
Unclosed(sd) == IF sd.selected = 0 THEN sd.documents \ sd.closed ELSE {}

AllowsDocumentClose(sd, attempt, d) ==
  /\ Current(sd, attempt) /\ sd.phase = "closingDocuments"
  /\ d \in sd.documents \ sd.closed /\ sd.selected = d
CanCloseSelectedDocument(sd, attempt, d, st) ==
  AllowsDocumentClose(sd, attempt, d) /\ ~IsActive(st) /\ st.ready = "normal"

DocumentClosed(sd, d) ==
  IF sd.phase = "closingDocuments" /\ d \in sd.documents /\ sd.selected = d
  THEN [sd EXCEPT !.closed = @ \cup {d}, !.selected = 0] ELSE sd
DocumentCloseRejected(sd, d) ==
  IF sd.phase = "closingDocuments" /\ d \in sd.documents /\ sd.selected = d
  THEN CancelCurrent(sd) ELSE sd

CommitMainClose(sd) == [sd EXCEPT !.finalIssued = TRUE, !.phase = "finished"]

-----------------------------------------------------------------------------
(* ProgramStartGate. *)

Gate == [closed : BOOLEAN, finalized : BOOLEAN, outstanding : Nat]
InitGate == [closed |-> FALSE, finalized |-> FALSE, outstanding |-> 0]

Acquire(g) == [g EXCEPT !.outstanding = @ + 1]

\* Mutant: a closed gate counts as quiescent.
QuiescentWhenClosed(g) == g.closed

Release(g) == [g EXCEPT !.outstanding = IF @ > 0 THEN @ - 1 ELSE 0]
Freeze(g) == [g EXCEPT !.closed = TRUE]
Finalize(g) == [g EXCEPT !.closed = TRUE, !.finalized = TRUE]
Reopen(g) == [g EXCEPT !.closed = g.finalized]
Quiescent(g) == g.outstanding = 0

-----------------------------------------------------------------------------
(* Closing one document. *)

\* Mutant: a refused Start leaves its deferred close alone.
DeferredCloseOfAdmitted(pending, run, ok, observed) ==
  IF ~pending \/ ~ok THEN "none" ELSE IF observed THEN "reissue" ELSE "wait"

\* ResolveDeferredAdmissionClose
DeferredClose(pending, run, ok, observed) ==
  IF ~pending THEN "none"
  ELSE IF ~ok \/ run = 0 THEN "retry"
  ELSE IF observed THEN "reissue" ELSE "wait"

\* ClassifyDocumentStopResult of an open document
ClassifyStop(ok, d, run, st, shuttingDown) ==
  IF \/ ~ok \/ st.doc # d \/ st.run # run
     \/ st.status # "stopped" \/ st.ready # "normal" THEN "invalid"
  ELSE IF shuttingDown THEN "transfer" ELSE "close"

\* DocumentCloseApprovalSuperseded
ApprovalSuperseded(d, run, st) == run # 0 /\ IsActive(st) /\ st.doc = d /\ st.run # run
=============================================================================
