------------------------------- MODULE Frontend -------------------------------
(***************************************************************************)
(* The Qt application (internal/frontend/miqt/application_miqt.go): the UI *)
(* thread with its timer tick, the goroutines it starts for controller     *)
(* calls, the channels their results return through, and the controller    *)
(* as those calls and its event stream show it.  An event carries a state  *)
(* captured under the controller's lock but sent after it is released, so  *)
(* the events of different goroutines can overtake each other.             *)
(***************************************************************************)
EXTENDS ShutdownCoordinator, Sequences

CONSTANTS
  Late,         \* documents the operator opens later
  Clicks,       \* what the operator may click: run, pause, resume, stop, close, exit
  MaxRequests,  \* Run clicks that are accepted
  MaxActions,   \* Pause, Resume and Stop clicks that are accepted
  MaxFaults,    \* lost connections and emergency stops
  Overtaking    \* FALSE: only the schedules that send an event as soon as it is captured

ASSUME FrontendAssumption ==
  /\ Late \subseteq Documents
  /\ Clicks \subseteq {"run", "pause", "resume", "stop", "close", "exit"}
  /\ MaxRequests \in Nat /\ MaxActions \in Nat /\ MaxFaults \in Nat /\ Overtaking \in BOOLEAN

VARIABLES
  ctl,     \* controller: its State, revision, last RunID, who asked for each run
  unsent,  \* events captured and not yet sent
  events,  \* the event channel
  calls,   \* goroutines of the UI: a controller call, its result, its release
  gate,    \* programStarts
  ui       \* the Application: everything the UI thread owns

vars == <<ctl, unsent, events, calls, gate, ui>>

-----------------------------------------------------------------------------
(* The controller. *)

StateOf(c) == [doc |-> c.doc, run |-> c.run, status |-> c.status, ready |-> c.ready, able |-> c.able]
InitCtl == [doc |-> 0, run |-> 0, status |-> "loaded", ready |-> "normal", able |-> TRUE,
            rev |-> 0, drained |-> FALSE, starter |-> [r \in Runs |-> 0], faults |-> 0]

Sending(from) == \E e \in unsent : e.from = from

\* captureEventStateLocked, then the send after Unlock.
Commit(c, error, from) ==
  LET next == [c EXCEPT !.rev = @ + 1] IN
  /\ ctl' = next
  /\ unsent' = unsent \cup {Event(next.rev, StateOf(next), error, from)}

SendEvent ==
  \E e \in unsent :
    /\ unsent' = unsent \ {e}
    /\ events' = Append(events, e)
    /\ UNCHANGED <<ctl, calls, gate, ui>>

\* A goroutine's record: what it calls, for which session, document and run,
\* and how far it is. number is the request of a start, the attempt of a stop;
\* rev is the event the call itself has to send before it goes on.
Call(kind, s, d, run, number) ==
  [kind |-> kind, session |-> s, doc |-> d, run |-> run, number |-> number,
   stage |-> "calling", outcome |-> "ok", rev |-> 0]

Advance(c, stage, outcome) ==
  (calls \ {c}) \cup {[c EXCEPT !.stage = stage, !.outcome = outcome]}
Returns(c, outcome) == calls' = Advance(c, "returning", outcome)
Emits(c, stage) ==
  calls' = (calls \ {c}) \cup {[c EXCEPT !.stage = stage, !.rev = ctl.rev + 1]}
HasSent(c) == \A e \in unsent : e.rev # c.rev

\* startProgram: admission and its event; a refusal may also come from a
\* foreground owner or a missing connection.
StartAdmitted(c) ==
  /\ c.kind = "start" /\ c.stage = "calling"
  /\ ~IsActive(ctl) /\ Ready(ctl)
  /\ \E r \in Runs :
       /\ \A q \in Runs : ctl.starter[q] # 0 <=> q < r
       /\ Commit([ctl EXCEPT !.doc = c.doc, !.run = r, !.status = "running", !.drained = FALSE,
                             !.starter[r] = c.session], 0, "start")
       /\ calls' = (calls \ {c}) \cup {[c EXCEPT !.stage = "returning", !.run = r,
                                                  !.rev = ctl.rev + 1]}
  /\ UNCHANGED <<events, gate, ui>>

StartRefused(c) ==
  /\ c.kind = "start" /\ c.stage = "calling" /\ Returns(c, "error")
  /\ UNCHANGED <<ctl, unsent, events, gate, ui>>

\* The runner's last acknowledged line, and its ends.
RunnerFree == ~Sending("runner") /\ ~\E e \in unsent : e.from = "start" /\ e.state.run = ctl.run

BeginDraining ==
  /\ ctl.status = "running" /\ ~ctl.drained /\ RunnerFree
  /\ Commit([ctl EXCEPT !.drained = TRUE], 0, "runner")
  /\ UNCHANGED <<events, calls, gate, ui>>

RunCompletes ==
  /\ ctl.status = "running" /\ ctl.drained /\ RunnerFree
  /\ Commit([ctl EXCEPT !.status = "completed"], 0, "runner")
  /\ UNCHANGED <<events, calls, gate, ui>>

RunFails ==
  /\ ctl.faults < MaxFaults /\ ctl.status \in {"running", "paused"} /\ RunnerFree
  /\ \E ready \in {"normal", "recovery"} :
       Commit([ctl EXCEPT !.status = "failed", !.ready = ready, !.faults = @ + 1], ctl.run, "runner")
  /\ UNCHANGED <<events, calls, gate, ui>>

\* A lost connection takes the run away and answers a Stop that is under way.
Disconnects ==
  /\ ctl.faults < MaxFaults /\ ctl.able /\ ~Sending("bridge")
  /\ Commit([ctl EXCEPT !.status = IF IsActive(ctl) THEN "failed" ELSE @, !.able = FALSE,
                        !.ready = IF IsActive(ctl) THEN "recovery" ELSE @, !.faults = @ + 1],
            IF IsActive(ctl) THEN ctl.run ELSE 0, "bridge")
  /\ calls' = {IF c.stage = "stopping" THEN [c EXCEPT !.stage = "returning", !.outcome = "error"]
               ELSE c : c \in calls}
  /\ UNCHANGED <<events, gate, ui>>

Recovers ==
  /\ ~IsActive(ctl) /\ (~ctl.able \/ ctl.ready = "recovery") /\ ~Sending("bridge")
  /\ Commit([ctl EXCEPT !.able = TRUE, !.ready = "normal"], 0, "bridge")
  /\ UNCHANGED <<events, calls, gate, ui>>

\* PauseProgramRun and ResumeProgramRun of the exact run; both may also return
\* without a change, with or without an error.
PauseOrResume(c) ==
  /\ c.kind \in {"pause", "resume"} /\ c.stage = "calling"
  /\ TargetOf(ctl) = [doc |-> c.doc, run |-> c.run]
  /\ \/ c.kind = "pause" /\ ctl.status = "running"
        /\ Commit([ctl EXCEPT !.status = "paused"], 0, "action")
     \/ c.kind = "resume" /\ ctl.status = "paused" /\ Ready(ctl)
        /\ Commit([ctl EXCEPT !.status = "running"], 0, "action")
  /\ Emits(c, "returning")
  /\ UNCHANGED <<events, gate, ui>>

ActionReturns(c) ==
  /\ c.kind \in {"pause", "resume"} /\ c.stage = "calling"
  /\ \E outcome \in {"ok", "error"} :
       /\ outcome = "ok" => TargetOf(ctl) # [doc |-> c.doc, run |-> c.run] \/ ~IsActive(ctl)
       /\ Returns(c, outcome)
  /\ UNCHANGED <<ctl, unsent, events, gate, ui>>

\* StopProgramRun
Stops == {"stop", "stopClose", "stopExit"}
BeginStop(c) ==
  /\ c.kind \in Stops /\ c.stage = "calling"
  /\ IF ctl.status = "stopping" THEN Returns(c, "busy") /\ UNCHANGED <<ctl, unsent>>
     ELSE IF ~IsActive(ctl) \/ TargetOf(ctl) # [doc |-> c.doc, run |-> c.run]
     THEN Returns(c, "error") /\ UNCHANGED <<ctl, unsent>>
     ELSE /\ Emits(c, "stopping")
          /\ Commit([ctl EXCEPT !.status = "stopping", !.ready = "stopping"], 0, "stop")
  /\ UNCHANGED <<events, gate, ui>>

\* The coordinator's goroutine starts after the stopping event was sent.
FinishStop(c) ==
  /\ c.stage = "stopping" /\ HasSent(c)
  /\ \/ /\ Commit([ctl EXCEPT !.status = "stopped", !.ready = "normal"], 0, "stopper")
        /\ Returns(c, "ok")
     \/ /\ ctl.faults < MaxFaults
        /\ Commit([ctl EXCEPT !.status = "failed", !.ready = "recovery", !.faults = @ + 1],
                  ctl.run, "stopper")
        /\ Returns(c, "error")
  /\ UNCHANGED <<events, gate, ui>>

\* The goroutine sends its result, after the event its own call emitted; a start
\* releases its admission after that.
SendResult(c) ==
  /\ c.stage = "returning" /\ HasSent(c)
  /\ LET sent == [c EXCEPT !.rev = 0]
         stages == IF c.kind = "start" THEN {"result", "releasing"} ELSE {"result"}
     IN  calls' = (calls \ {c}) \cup {[sent EXCEPT !.stage = stage] : stage \in stages}
  /\ UNCHANGED <<ctl, unsent, events, gate, ui>>

ReleaseAdmission(c) ==
  /\ c.stage = "releasing" /\ calls' = calls \ {c} /\ gate' = Release(gate)
  /\ UNCHANGED <<ctl, unsent, events, ui>>

-----------------------------------------------------------------------------
(* The UI thread. *)

NoDialog == [kind |-> "none", doc |-> 0, run |-> 0]
NoRuns == [d \in Documents |-> 0]

InitUI ==
  [ sessions        |-> InitManager(Documents \ Late),
    open            |-> Documents \ Late,  \* DocumentRegistry
    unopened        |-> Late,
    closePending    |-> {},
    starts          |-> [s \in Sessions |-> 0],   \* pendingDocumentStarts
    requests        |-> 0,                        \* nextRequest, counted over all sessions
    acted           |-> 0,
    actions         |-> [s \in Sessions |-> 0],   \* pendingDocumentActions
    stopCloses      |-> NoRuns,                   \* pendingDocumentCloses
    admissionCloses |-> NoRuns,                   \* pendingAdmissionCloses
    approved        |-> NoRuns,                   \* approvedDocumentCloses
    shutdown        |-> InitCoordinator,
    user            |-> NoDialog,  \* a dialog of a user's close: the timer keeps ticking
    tick            |-> NoDialog,  \* a dialog opened inside a tick: it does not
    resolving       |-> {},        \* documents resolvePendingAdmissionCloses has left
    turn            |-> "idle",    \* how far the tick is
    exited          |-> FALSE ]    \* mainCloseIssued

HasPendingSessionStart(u, d) == \E s \in Steps(d) : u.starts[s] # 0

\* syncProgramStartGate
Synced(g, u) ==
  IF u.exited \/ u.shutdown.phase = "finished" THEN Finalize(g)
  ELSE IF Active(u.shutdown) THEN Freeze(g) ELSE Reopen(g)

\* Mutant: the registry forgets the document, not its pending close.
ClosedStillPending(u, d) ==
  [u EXCEPT !.open = @ \ {d}, !.admissionCloses[d] = 0, !.approved[d] = 0, !.stopCloses[d] = 0,
            !.sessions = RemoveSessions(@, d), !.shutdown = DocumentClosed(@, d)]

\* DocumentRegistry.remove and documentClosed
Closed(u, d) ==
  [u EXCEPT !.open = @ \ {d}, !.closePending = @ \ {d},
            !.starts = [s \in Sessions |-> IF DocumentOf[s] = d THEN 0 ELSE @[s]],
            !.actions = [s \in Sessions |-> IF DocumentOf[s] = d THEN 0 ELSE @[s]],
            !.stopCloses[d] = 0, !.admissionCloses[d] = 0, !.approved[d] = 0,
            !.sessions = RemoveSessions(@, d),
            !.shutdown = DocumentClosed(@, d)]

\* Mutant: the pending Start of a document is not waited for.
RequestDocumentCloseAtOnce(u, d, dialog) ==
  IF Active(u.shutdown) THEN [u EXCEPT !.shutdown = DocumentCloseRejected(@, d)]
  ELSE IF d \notin u.open \/ d \in u.closePending THEN u
  ELSE IF StateOf(ctl).doc # d \/ ~IsActive(ctl) THEN Closed(u, d)
  ELSE [u EXCEPT !.user = [kind |-> "close", doc |-> d, run |-> ctl.run]]

\* requestDocumentClose, in the order of its returns; Qt destroys the window and
\* calls documentClosed inside Close when the request is granted.
RequestDocumentClose(u, d, dialog) ==
  LET st == StateOf(ctl)
      sd == u.shutdown
      Ask == [kind |-> "close", doc |-> d, run |-> st.run]
  IN  IF Active(sd) THEN
        IF ~AllowsDocumentClose(sd, sd.attempt, d) THEN u
        ELSE IF CanCloseSelectedDocument(sd, sd.attempt, d, st) THEN Closed(u, d)
        ELSE [u EXCEPT !.shutdown = DocumentCloseRejected(@, d)]
      ELSE IF u.approved[d] # 0 THEN
        IF ApprovalSuperseded(d, u.approved[d], st)
        THEN [u EXCEPT !.approved[d] = 0, !.closePending = @ \ {d}]
        ELSE Closed(u, d)
      ELSE IF d \notin u.open THEN u
      ELSE IF HasPendingSessionStart(u, d) THEN [u EXCEPT !.closePending = @ \cup {d}]
      ELSE IF d \in u.closePending THEN u
      ELSE IF ~IsActive(st) \/ st.doc # d THEN Closed(u, d)
      ELSE IF dialog = "user" THEN [u EXCEPT !.user = Ask] ELSE [u EXCEPT !.tick = Ask]

Becomes(u) == ui' = u /\ gate' = Synced(gate, u)

-----------------------------------------------------------------------------
(* The operator: one click at a time, and none under a dialog. *)

UserFree == ui.turn = "idle" /\ ui.user = NoDialog /\ ui.tick = NoDialog /\ ~ui.exited

OpenDocument(d) ==
  /\ UserFree /\ d \in ui.unopened
  /\ ui' = [ui EXCEPT !.open = @ \cup {d}, !.unopened = @ \ {d}, !.sessions = AddSessions(@, d)]
  /\ UNCHANGED <<ctl, unsent, events, calls, gate>>

\* startDocumentProgram
ClickRun(s) ==
  LET d == DocumentOf[s]
      request == ui.requests + 1
  IN  /\ UserFree /\ "run" \in Clicks /\ request <= MaxRequests
      /\ ui.starts[s] = 0 /\ d \notin ui.closePending /\ d \in ui.open
      /\ ~gate.closed /\ CanBeginStart(ui.sessions, s)
      /\ gate' = Acquire(gate)
      /\ ui' = [ui EXCEPT !.sessions = BeginStart(@, s, request), !.starts[s] = request,
                          !.requests = request]
      /\ calls' = calls \cup {Call("start", s, d, 0, request)}
      /\ UNCHANGED <<ctl, unsent, events>>

\* documentProgramAction: the run is read from the controller, the permission
\* from the session.
ClickAction(s, action) ==
  LET run == ctl.run
      x == ui.sessions.session[s]
  IN  /\ UserFree /\ action \in Clicks /\ ui.acted < MaxActions
      /\ ui.actions[s] = 0 /\ ctl.doc = DocumentOf[s] /\ run # 0 /\ DocumentOf[s] \in ui.open
      /\ action \in Controls(x, DocumentOf[s], ui.sessions.state)
      /\ CanBeginAction(ui.sessions, s, run)
      /\ ui' = [ui EXCEPT !.sessions = BeginAction(@, s, run), !.actions[s] = run,
                          !.acted = @ + 1]
      /\ calls' = calls \cup {Call(action, s, DocumentOf[s], run, 0)}
      /\ UNCHANGED <<ctl, unsent, events, gate>>

ClickClose(d) ==
  /\ UserFree /\ "close" \in Clicks /\ d \in ui.open
  /\ Becomes(RequestDocumentClose(ui, d, "user"))
  /\ UNCHANGED <<ctl, unsent, events, calls>>

\* requestMainClose up to its dialog
ClickExit ==
  /\ UserFree /\ "exit" \in Clicks /\ CanBegin(ui.shutdown) /\ ui.shutdown.next < MaxAttempts
  /\ ctl.ready = "normal"
  /\ ui' = [ui EXCEPT !.shutdown = Begin(@, ui.open), !.user = [NoDialog EXCEPT !.kind = "exit"]]
  /\ gate' = Freeze(gate)
  /\ UNCHANGED <<ctl, unsent, events, calls>>

\* confirmApplicationClose answered. The attempt may be cancelled by now.
AnswerExit(accepted) ==
  /\ ui.user.kind = "exit" /\ ui.tick = NoDialog /\ ui.turn = "idle"
  /\ Becomes([ui EXCEPT !.user = NoDialog,
                        !.shutdown = ConfirmApplication(@, @.next, accepted)])
  /\ UNCHANGED <<ctl, unsent, events, calls>>

\* confirmStopAndClose of one document answered.
Answered(u, dialog, accepted) ==
  LET d == dialog.doc IN
  IF accepted /\ d \in u.open \ u.closePending
  THEN /\ calls' = calls \cup {Call("stopClose", 0, d, dialog.run, 0)}
       /\ Becomes([u EXCEPT !.closePending = @ \cup {d}, !.stopCloses[d] = dialog.run])
  ELSE /\ Becomes(u) /\ UNCHANGED calls

AnswerClose(accepted) ==
  /\ \/ /\ ui.tick.kind = "close"
        /\ Answered([ui EXCEPT !.tick = NoDialog], ui.tick, accepted)
     \/ /\ ui.user.kind = "close" /\ ui.tick = NoDialog /\ ui.turn = "idle"
        /\ Answered([ui EXCEPT !.user = NoDialog], ui.user, accepted)
  /\ UNCHANGED <<ctl, unsent, events>>

AnswerStop(accepted) ==
  /\ ui.tick.kind = "stop"
  /\ LET sd == ConfirmStop(ui.shutdown, accepted) IN
     /\ Becomes([ui EXCEPT !.tick = NoDialog, !.turn = "idle", !.shutdown = sd])
     /\ calls' = IF accepted THEN calls \cup {Call("stopExit", 0, sd.stopTarget.doc,
                                                   sd.stopTarget.run, sd.attempt)} ELSE calls
  /\ UNCHANGED <<ctl, unsent, events>>

-----------------------------------------------------------------------------
(* The timer tick: drainControllerEvents. A tick that finds nothing to do and *)
(* no shutdown to progress is left out.                                       *)

Ticking(at) == ui.turn \in at /\ ui.tick = NoDialog /\ ui.resolving = {} /\ ~ui.exited

DrainEvent ==
  /\ Ticking({"idle", "events"}) /\ events # <<>>
  /\ events' = Tail(events)
  /\ ui' = [ui EXCEPT !.sessions = ApplyEvent(@, Head(events)), !.turn = "events",
                      !.resolving = {d \in Documents : ui.admissionCloses[d] # 0}]
  /\ UNCHANGED <<ctl, unsent, calls, gate>>

\* resolvePendingAdmissionCloses, one document at a time
ResolveAdmissionClose(d) ==
  LET run == ui.admissionCloses[d]
      left == [ui EXCEPT !.resolving = @ \ {d}]
      dropped == [left EXCEPT !.admissionCloses[d] = 0]
      observed == ctl.doc = d /\ ctl.run = run
  IN  /\ d \in ui.resolving /\ ui.tick = NoDialog
      /\ IF run = 0 \/ HasPendingSessionStart(ui, d) THEN Becomes(left)
         ELSE IF d \notin ui.open \/ d \notin ui.closePending THEN Becomes(dropped)
         ELSE IF DeferredClose(TRUE, run, TRUE, observed) = "wait" THEN Becomes(left)
         ELSE Becomes(RequestDocumentClose([dropped EXCEPT !.closePending = @ \ {d}], d, "tick"))
      /\ UNCHANGED <<ctl, unsent, events, calls>>

EventsDrained ==
  /\ Ticking({"idle", "events"}) /\ events = <<>>
  /\ (ui.turn = "events" \/ calls # {} \/ Active(ui.shutdown))
  /\ ui' = [ui EXCEPT !.turn = "starts"]
  /\ UNCHANGED <<ctl, unsent, events, calls, gate>>

Results(kind) == {c \in calls : c.kind \in kind /\ c.stage = "result"}
Starts == {"start"}
ActionKind == {"pause", "resume", "stop"}

\* drainDocumentStartResults
DrainStart(c) ==
  LET s == c.session
      d == c.doc
      ok == c.outcome = "ok"
      taken == [ui EXCEPT !.starts[s] = 0, !.turn = "starts",
                          !.sessions = AssociateRun(@, s, c.run, ok)]
      deferred == DeferredClose(d \in ui.closePending, c.run, ok, FALSE)
  IN  /\ Ticking({"starts"}) /\ c \in Results(Starts)
      /\ calls' = calls \ {c}
      /\ IF ui.starts[s] # c.number THEN UNCHANGED <<ui, gate>>
         ELSE CASE deferred = "none" -> ui' = taken /\ UNCHANGED gate
                [] deferred = "retry" ->
                     Becomes(RequestDocumentClose([taken EXCEPT !.closePending = @ \ {d}], d, "tick"))
                [] deferred = "wait" ->
                     LET waiting == [taken EXCEPT !.admissionCloses[d] = c.run] IN
                     /\ ui' = [waiting EXCEPT !.resolving =
                                 {e \in Documents : waiting.admissionCloses[e] # 0}]
                     /\ UNCHANGED gate
      /\ UNCHANGED <<ctl, unsent, events>>

\* drainDocumentActionResults
DrainAction(c) ==
  /\ Ticking({"starts", "actions"})
  /\ ui.turn = "starts" => Results(Starts) = {}
  /\ c \in Results(ActionKind) /\ calls' = calls \ {c}
  /\ ui' = IF ui.actions[c.session] # c.run THEN [ui EXCEPT !.turn = "actions"]
           ELSE [ui EXCEPT !.turn = "actions", !.actions[c.session] = 0,
                           !.sessions = FinishAction(@, c.session, c.run, c.outcome = "ok")]
  /\ UNCHANGED <<ctl, unsent, events, gate>>

\* drainDocumentCloseResults
DrainClose(c) ==
  LET d == c.doc
      sd == ui.shutdown
      disposition == ClassifyStop(c.outcome = "ok", d, c.run, StateOf(ctl), Active(sd))
      taken == [ui EXCEPT !.turn = "closes", !.stopCloses[d] = 0]
      released == [taken EXCEPT !.closePending = @ \ {d}]
      asked == RequestDocumentClose([taken EXCEPT !.approved[d] = c.run], d, "tick")
  IN  /\ Ticking({"starts", "actions", "closes"})
      /\ ui.turn = "starts" => Results(Starts) = {}
      /\ ui.turn # "closes" => Results(ActionKind) = {}
      /\ c \in Results({"stopClose"}) /\ calls' = calls \ {c}
      /\ IF ui.stopCloses[d] # c.run THEN Becomes([ui EXCEPT !.turn = "closes"])
         ELSE CASE disposition = "invalid" ->
                     Becomes([released EXCEPT !.shutdown = Cancel(@, @.attempt)])
                [] disposition = "transfer" -> Becomes([released EXCEPT !.approved[d] = 0])
                [] disposition = "close" ->
                     Becomes(IF d \notin asked.open THEN asked
                             ELSE [asked EXCEPT !.approved[d] = 0, !.closePending = @ \ {d}])
      /\ UNCHANGED <<ctl, unsent, events>>

\* drainShutdownStopResults
DrainStop(c) ==
  LET sd == ui.shutdown
      target == [doc |-> c.doc, run |-> c.run]
      verified == /\ c.outcome = "ok" /\ ctl.status = "stopped" /\ ctl.ready = "normal"
                  /\ TargetOf(ctl) = target
  IN  /\ Ticking({"starts", "actions", "closes", "stops"})
      /\ ui.turn = "starts" => Results(Starts) = {}
      /\ ui.turn \in {"starts", "actions"} => Results(ActionKind) = {}
      /\ ui.turn # "stops" => Results({"stopClose"}) = {}
      /\ c \in Results({"stopExit"}) /\ calls' = calls \ {c}
      /\ ui' = [ui EXCEPT !.turn = "stops",
                  !.shutdown = IF c.number # sd.attempt \/ sd.phase # "waitingForStop" THEN sd
                               ELSE IF c.outcome = "busy" THEN StopAlreadyInProgress(sd, target)
                               ELSE StopResult(sd, target, verified)]
      /\ UNCHANGED <<ctl, unsent, events, gate>>

ResultsDrained ==
  /\ Ticking({"starts", "actions", "closes", "stops"})
  /\ ui.turn = "starts" => Results(Starts) = {}
  /\ ui.turn \in {"starts", "actions"} => Results(ActionKind) = {}
  /\ ui.turn # "stops" => Results({"stopClose"}) = {}
  /\ Results({"stopExit"}) = {}
  /\ ui' = [ui EXCEPT !.turn = "progress"]
  /\ UNCHANGED <<ctl, unsent, events, calls, gate>>

-----------------------------------------------------------------------------
(* progressShutdown and the end of the tick. *)

Tock == [ui EXCEPT !.turn = "idle"]
Progressed(sd) == Becomes([Tock EXCEPT !.shutdown = sd])
AtRest == ~IsActive(ctl) /\ ctl.ready = "normal"
Progressing(phase) == Ticking({"progress"}) /\ ui.shutdown.phase \in phase

NothingToProgress ==
  /\ Progressing({"idle", "confirming", "finished"}) /\ Becomes(Tock)
  /\ UNCHANGED <<ctl, unsent, events, calls>>

ProgressRunAdmission ==
  /\ Progressing({"waitingForRunAdmission"})
  /\ IF Quiescent(gate) THEN Progressed(ResolveRunAdmission(ui.shutdown, StateOf(ctl)))
     ELSE Becomes(Tock)
  /\ UNCHANGED <<ctl, unsent, events, calls>>

ProgressStopConfirmation ==
  /\ Progressing({"waitingForStopConfirmation"})
  /\ ui' = [ui EXCEPT !.tick = [NoDialog EXCEPT !.kind = "stop"]]
  /\ UNCHANGED <<ctl, unsent, events, calls, gate>>

ProgressStop ==
  /\ Progressing({"waitingForStop"})
  /\ Progressed(ObserveExternalStop(ui.shutdown, StateOf(ctl)))
  /\ UNCHANGED <<ctl, unsent, events, calls>>

\* NextDocumentToClose, the window's Close and a refusal.
ProgressDocuments ==
  /\ Progressing({"closingDocuments"})
  /\ LET sd == ui.shutdown IN
     IF ~AtRest THEN Progressed(CancelCurrent(sd))
     ELSE IF Unclosed(sd) = {}
     THEN Progressed(IF sd.selected = 0 THEN [sd EXCEPT !.phase = "readyToCloseMain"] ELSE sd)
     ELSE \E d \in Unclosed(sd) :
            LET chosen == [Tock EXCEPT !.shutdown.selected = d]
                asked == RequestDocumentClose(chosen, d, "tick")
            IN  IF d \notin ui.open THEN Progressed(DocumentClosed(chosen.shutdown, d))
                ELSE IF d \notin asked.open THEN Becomes(asked)
                ELSE Becomes([asked EXCEPT !.shutdown = DocumentCloseRejected(@, d)])
  /\ UNCHANGED <<ctl, unsent, events, calls>>

ProgressMainClose ==
  /\ Progressing({"readyToCloseMain"})
  /\ IF ui.open # {} \/ ~AtRest THEN Progressed(CancelCurrent(ui.shutdown))
     ELSE Becomes([Tock EXCEPT !.shutdown = CommitMainClose(@), !.exited = TRUE])
  /\ UNCHANGED <<ctl, unsent, events, calls>>

-----------------------------------------------------------------------------

Init ==
  /\ ctl = InitCtl /\ unsent = {} /\ events = <<>> /\ calls = {}
  /\ gate = InitGate /\ ui = InitUI

Controlling ==
  \/ BeginDraining \/ RunCompletes \/ RunFails \/ Disconnects \/ Recovers
  \/ \E c \in calls : \/ StartAdmitted(c) \/ StartRefused(c)
                      \/ PauseOrResume(c) \/ ActionReturns(c)
                      \/ BeginStop(c) \/ FinishStop(c)
                      \/ SendResult(c) \/ ReleaseAdmission(c)

Operating ==
  \/ \E d \in Documents : OpenDocument(d) \/ ClickClose(d)
  \/ \E s \in Sessions : ClickRun(s) \/ \E a \in ActionKind : ClickAction(s, a)
  \/ ClickExit

Answering == \E accepted \in BOOLEAN :
  AnswerExit(accepted) \/ AnswerClose(accepted) \/ AnswerStop(accepted)

Tick ==
  \/ DrainEvent \/ EventsDrained \/ ResultsDrained
  \/ \E d \in Documents : ResolveAdmissionClose(d)
  \/ \E c \in calls : DrainStart(c) \/ DrainAction(c) \/ DrainClose(c) \/ DrainStop(c)
  \/ NothingToProgress \/ ProgressRunAdmission \/ ProgressStopConfirmation \/ ProgressStop
  \/ ProgressDocuments \/ ProgressMainClose

Next ==
  \/ SendEvent
  \/ (Overtaking \/ unsent = {}) /\ (Controlling \/ Operating \/ Answering \/ Tick)

Spec == Init /\ [][Next]_vars

(***************************************************************************)
(* Goroutines run, the timer keeps firing and the operator answers each    *)
(* dialog: the event loop serves the answer between two ticks, hence       *)
(* strong fairness.  Nothing makes the operator click, a program end or a  *)
(* lost machine come back.  Ticking fairness is WF_vars(Tick) spelled out, *)
(* with the enabling condition as a state predicate: TLC would evaluate    *)
(* ENABLED Tick anew in every state.                                       *)
(***************************************************************************)
Serving == \E c \in calls : \/ StartAdmitted(c) \/ StartRefused(c) \/ PauseOrResume(c)
                            \/ ActionReturns(c) \/ BeginStop(c) \/ FinishStop(c)
                            \/ SendResult(c) \/ ReleaseAdmission(c)

TickPossible ==
  /\ ui.tick = NoDialog /\ ~ui.exited
  /\ \/ ui.resolving # {} \/ ui.turn # "idle" \/ events # <<>>
     \/ calls # {} \/ Active(ui.shutdown)
TimerFires == []<>~TickPossible \/ []<><<Tick>>_vars

Fairness == WF_vars(SendEvent) /\ WF_vars(Serving) /\ SF_vars(Answering) /\ TimerFires
FairSpec == Spec /\ Fairness

-----------------------------------------------------------------------------

CallType ==
  [kind : Starts \cup ActionKind \cup Stops, session : Sessions \cup {0}, doc : Documents,
   run : 0..MaxRuns, number : Nat, outcome : {"ok", "error", "busy"}, rev : Nat,
   stage : {"calling", "stopping", "returning", "result", "releasing"}]
DialogType == [kind : {"none", "exit", "close", "stop"}, doc : Documents \cup {0}, run : 0..MaxRuns]

TypeOK ==
  /\ StateOf(ctl) \in State /\ ctl.rev \in Nat /\ ctl.drained \in BOOLEAN
  /\ ctl.starter \in [Runs -> Sessions \cup {0}]
  /\ \A e \in unsent : e.rev \in 1..ctl.rev /\ e.state \in State /\ e.error \in 0..MaxRuns
  /\ calls \subseteq CallType
  /\ gate \in Gate
  /\ ManagerType(ui.sessions)
  /\ ui.shutdown \in Coordinator
  /\ ui.open \cap ui.unopened = {} /\ ui.closePending \subseteq ui.open
  /\ ui.user \in DialogType /\ ui.tick \in DialogType
  /\ ui.turn \in {"idle", "events", "starts", "actions", "closes", "stops", "progress"}

Session(s) == ui.sessions.session[s]

\* A session, and the index of runs, only ever name runs the controller admitted
\* for that very session, however its result and the states of sibling steps of
\* the same document interleave.
RunAttributed ==
  \A r \in Runs :
    /\ ui.sessions.owner[r] # 0 => ctl.starter[r] = ui.sessions.owner[r]
    /\ \A s \in Sessions : Session(s).run = r => ctl.starter[r] = s

\* What sibling steps were last told about each other's admission is still so.
BlockedIsCurrent ==
  \A s \in Sessions : Session(s).open /\ ~Standalone(s) =>
    (Session(s).blocked <=> \E t \in Steps(DocumentOf[s]) \ {s} : Admitting(Session(t)))

Settled == unsent = {} /\ events = <<>> /\ calls = {} /\ ui.turn = "idle"
\* Once nothing is in flight, no session waits for anything, nothing is left in
\* the buffers for runs without an owner, and the session of the controller's run
\* shows its status.
SettledAgrees ==
  Settled =>
    /\ ui.sessions.state = StateOf(ctl)
    /\ ui.sessions.errors = {} /\ \A r \in Runs : ui.sessions.pending[r] = NoState
    /\ \A s \in Sessions :
         /\ ~Admitting(Session(s)) /\ Session(s).acting = 0
         /\ (ctl.run # 0 /\ Session(s).run = ctl.run => Session(s).status = ctl.status)

\* execution_session.go:400: AttachPackage "produces one package-strip callback per
\* relevant owner transition". A strip that shows an active run shows the one the
\* controller has. When a run starts and drains before its Start is answered, the
\* transition that ends it finds the package inactive and tells nobody.
StripCurrent ==
  \A d \in Packages : ui.sessions.strip[d].phase = "active" =>
     ui.sessions.state.doc = d /\ IsActive(ui.sessions.state)

-----------------------------------------------------------------------------
(* Closing. *)

\* The frontend implements SafeExit: in particular the goroutine of a Start that
\* the controller has not answered keeps its document alive, and none of them is
\* left when the main window goes.
Promise == INSTANCE SafeExit WITH
  unopened <- ui.unopened, open <- ui.open, exited <- ui.exited,
  running <- IF IsActive(ctl) THEN ctl.doc ELSE 0
ImplementsSafeExit == Promise!Spec

\* Once a shutdown has chosen what to stop, no Start is under way and none can
\* begin: the target cannot be replaced behind its back.
FrozenWhileShuttingDown ==
  ui.shutdown.phase \in ShutdownPhase \ {"idle", "confirming", "waitingForRunAdmission"} =>
    gate.closed /\ \A c \in calls : c.kind = "start" => c.stage \in {"result", "releasing"}

\* A document that is close-pending waits for something that will still answer:
\* a Start, an admitted run, or a Stop of its own.
CloseTracked ==
  \A d \in ui.closePending :
    \/ HasPendingSessionStart(ui, d)
    \/ ui.admissionCloses[d] # 0
    \/ \E c \in calls : c.kind = "stopClose" /\ c.doc = d /\ c.run = ui.stopCloses[d]

\* Everything the operator asks for ends: a Run leaves admission, a deferred close
\* is carried out or may be asked for again, and a shutdown exits or is cancelled.
Pending ==
  \/ \E s \in Sessions : Admitting(Session(s))
  \/ ui.closePending # {}
  \/ Active(ui.shutdown)
RequestsEnd == Pending ~> ~Pending

\* docs/architecture.md:94: "a successful Start still waits for its exact RunID
\* state and then follows explicit verified Stop-and-Close". The wait compares
\* with the controller's current run, so it never ends when a later run has
\* already replaced the awaited one.
NoCloseStranded == Settled /\ ui.user = NoDialog => ui.closePending = {}
=============================================================================
