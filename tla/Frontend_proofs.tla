---------------------------- MODULE Frontend_proofs ----------------------------
(***************************************************************************)
(* What holds of the Qt application for any documents, steps, runs,        *)
(* requests and faults, whatever the order in which events and results are *)
(* sent, drained and answered.                                             *)
(*                                                                         *)
(* Consistent relates what the UI thread owns to itself and to the calls   *)
(* under way; the goroutines disturb only the calls (Carried), the UI      *)
(* thread mostly its own record, so the two sides have a lemma each        *)
(* (ControllerSide, UISide) that the lemmas about the actions cite.  Every *)
(* step is shown to keep IInv and to be a step of SafeExit or a stutter    *)
(* (Promised) at the same time.                                            *)
(***************************************************************************)
EXTENDS Frontend, ExecutionSessions_proofs, SequenceTheorems

-----------------------------------------------------------------------------
(* The inductive invariant, over the parts of the state it relates. *)

Control ==
  [doc : Documents \cup {0}, run : 0..MaxRuns, status : ProgramStatus,
   ready : {"normal", "stopping", "recovery"}, able : BOOLEAN, rev : Nat, drained : BOOLEAN,
   starter : [Runs -> Sessions \cup {0}], faults : Nat]

Closing == [Documents -> 0..MaxRuns]
Turns == {"idle", "events", "starts", "actions", "closes", "stops", "progress"}
Application ==
  [sessions : Manager, open : SUBSET Documents, unopened : SUBSET Documents,
   closePending : SUBSET Documents, starts : [Sessions -> Nat], requests : Nat, acted : Nat,
   actions : [Sessions -> 0..MaxRuns], stopCloses : Closing, admissionCloses : Closing,
   approved : Closing, shutdown : Coordinator, user : DialogType, tick : DialogType,
   resolving : SUBSET Documents, turn : Turns, exited : BOOLEAN]

Types ==
  /\ ctl \in Control /\ (IsActive(ctl) => ctl.doc # 0 /\ ctl.run # 0)
  /\ unsent \subseteq EventsOf /\ \A e \in unsent : e.rev \in 1..ctl.rev
  /\ events \in Seq(EventsOf)
  /\ calls \subseteq CallType /\ IsFiniteSet(calls)
  /\ gate \in Gate

\* A Start that has no result yet is the one its session waits for, and its run is
\* that session's; once the result is sent, only the release of the admission is left.
Under == {"calling", "returning"}
Starting(cs, starts, requests, starter) ==
  /\ \A c \in cs : c.kind = "start" =>
       /\ c.session \in Sessions /\ c.doc = DocumentOf[c.session]
       /\ c.number \in 1..requests /\ c.stage # "stopping"
       /\ c.stage \in Under => starts[c.session] = c.number
       /\ c.run # 0 => starter[c.run] = c.session
  /\ \A c, e \in cs : c.kind = "start" /\ e.kind = "start" /\ c.number = e.number =>
       /\ c.stage \in Under => c = e
       /\ c.stage # "result" /\ e.stage # "result" => c = e

\* The admissions the gate counts.
Counted(cs) == {c \in cs : c.kind = "start" /\ c.stage # "result"}

\* From the choice of what to stop on, no Start is under way and the gate is closed.
Decided == ShutdownPhase \ {"idle", "confirming", "waitingForRunAdmission"}
Frozen(sd, g, cs) ==
  /\ Active(sd) \/ sd.phase = "finished" => g.closed
  /\ sd.phase \in Decided => \A c \in cs : c.kind = "start" => c.stage \in {"result", "releasing"}

\* d is close-pending for one reason, and for one that will be answered.
TrackedOne(u, cs, d) ==
  /\ u.approved[d] = 0
  /\ u.stopCloses[d] # 0 \/ u.admissionCloses[d] # 0 =>
       d \in u.closePending /\ ~HasPendingSessionStart(u, d)
  /\ u.stopCloses[d] = 0 \/ u.admissionCloses[d] = 0
  /\ d \in u.closePending =>
       \/ HasPendingSessionStart(u, d)
       \/ u.admissionCloses[d] # 0
       \/ \E c \in cs : c.kind = "stopClose" /\ c.doc = d /\ c.run = u.stopCloses[d]
Tracked(u, cs) ==
  /\ u.open \cap u.unopened = {} /\ u.closePending \subseteq u.open
  /\ \A d \in Documents : TrackedOne(u, cs, d)

\* A document waits for one Start at most, and only while it is open.
Admitted(u) ==
  /\ \A s \in Sessions : u.starts[s] # 0 =>
       DocumentOf[s] \in u.open /\ u.sessions.session[s].starting
  /\ \A s, t \in Sessions :
       DocumentOf[s] = DocumentOf[t] /\ u.starts[s] # 0 /\ u.starts[t] # 0 => s = t

\* A dialog asks about something that cannot have changed under it.
Dialogs(u) ==
  /\ \A x \in {u.user, u.tick} : x.kind = "close" =>
       x.doc \in Documents /\ x.run # 0 /\ ~HasPendingSessionStart(u, x.doc)
  /\ u.tick.kind = "stop" => u.shutdown.phase = "waitingForStopConfirmation"
  /\ u.shutdown.phase = "waitingForStopConfirmation" => u.shutdown.stopTarget.doc # 0
  /\ u.tick.kind # "exit" /\ u.user.kind # "stop"
  /\ u.exited => u.shutdown.phase = "finished" /\ u.resolving = {}

Consistent(u, cs, starter) ==
  u \in Application /\ Good(u.sessions, starter) /\ Tracked(u, cs) /\ Admitted(u) /\ Dialogs(u)

\* A Stop-and-Close names its run, an action its session, and only a Start holds
\* an admission.
Shaped(cs) ==
  \A c \in cs : /\ c.kind = "stopClose" => c.run # 0
                /\ c.kind \in ActionKind => c.session \in Sessions
                /\ c.stage = "releasing" => c.kind = "start"

IInv ==
  /\ Types
  /\ Consistent(ui, calls, ctl.starter)
  /\ Starting(calls, ui.starts, ui.requests, ctl.starter)
  /\ gate.outstanding = Cardinality(Counted(calls))
  /\ Frozen(ui.shutdown, gate, calls)
  /\ Shaped(calls)

-----------------------------------------------------------------------------
(* Types of the coordinator. *)

LEMMA Bounds ==
  /\ MaxRuns \in Nat /\ MaxAttempts \in Nat /\ MaxRequests \in Nat /\ MaxActions \in Nat
  /\ 0 \in 0..MaxRuns /\ 0 \in 0..MaxAttempts /\ Overtaking \in BOOLEAN /\ Late \subseteq Documents
BY SessionsAssumption, MaxAttemptsAssumption, FrontendAssumption

LEMMA CancelTyped ==
  ASSUME NEW sd \in Coordinator
  PROVE  CancelCurrent(sd) \in Coordinator /\ CancelCurrent(sd).phase = "idle"
<1>1. InitCoordinator \in Coordinator /\ InitCoordinator.phase = "idle"
  BY Bounds DEF InitCoordinator, Coordinator, NoTarget, Target, ShutdownPhase
<1>2. sd.next \in 0..MaxAttempts /\ sd.finalIssued \in BOOLEAN
  BY DEF Coordinator
<1> QED BY <1>1, <1>2 DEF CancelCurrent, Coordinator

\* What a step of the coordinator may do: it stays in its phase, or gives up.
GivesUp(sd, next) ==
  /\ next \in Coordinator
  /\ \/ next.phase = sd.phase /\ next.stopTarget = sd.stopTarget
     \/ next.phase = "idle"

LEMMA ClosureTyped ==
  ASSUME NEW sd \in Coordinator, NEW d \in Documents
  PROVE  /\ GivesUp(sd, DocumentClosed(sd, d))
         /\ DocumentClosed(sd, d).phase = sd.phase
         /\ GivesUp(sd, DocumentCloseRejected(sd, d))
         /\ GivesUp(sd, CancelCurrent(sd))
         /\ \A attempt : GivesUp(sd, Cancel(sd, attempt))
         /\ GivesUp(sd, [sd EXCEPT !.selected = d])
         /\ [sd EXCEPT !.selected = d].phase = sd.phase
<1>1. GivesUp(sd, CancelCurrent(sd)) /\ GivesUp(sd, sd)
  BY CancelTyped DEF GivesUp
<1> DEFINE closed == [sd EXCEPT !.closed = sd.closed \cup {d}, !.selected = 0]
           chosen == [sd EXCEPT !.selected = d]
<1>2. closed \in Coordinator /\ closed.phase = sd.phase /\ closed.stopTarget = sd.stopTarget
  BY DEF Coordinator
<1>3. chosen \in Coordinator /\ chosen.phase = sd.phase /\ chosen.stopTarget = sd.stopTarget
  BY DEF Coordinator
<1>4. DocumentClosed(sd, d) = sd \/ DocumentClosed(sd, d) = closed
  BY DEF DocumentClosed
<1> HIDE DEF closed
<1>5. GivesUp(sd, DocumentClosed(sd, d)) /\ DocumentClosed(sd, d).phase = sd.phase
  BY <1>1, <1>2, <1>4 DEF GivesUp
<1> QED BY <1>1, <1>3, <1>5 DEF GivesUp, DocumentCloseRejected, Cancel

-----------------------------------------------------------------------------
(* Closing a document. *)

\* The fields of the application once d is closed.
LEMMA ClosedFields ==
  ASSUME NEW u \in Application, NEW d \in Documents
  PROVE  LET r == Closed(u, d)
         IN  /\ r.open = u.open \ {d} /\ r.unopened = u.unopened
             /\ r.closePending = u.closePending \ {d}
             /\ r.starts = [s \in Sessions |-> IF DocumentOf[s] = d THEN 0 ELSE u.starts[s]]
             /\ r.stopCloses = [u.stopCloses EXCEPT ![d] = 0]
             /\ r.admissionCloses = [u.admissionCloses EXCEPT ![d] = 0]
             /\ r.approved = [u.approved EXCEPT ![d] = 0]
             /\ r.sessions = RemoveSessions(u.sessions, d)
             /\ r.shutdown = DocumentClosed(u.shutdown, d)
             /\ r.requests = u.requests /\ r.acted = u.acted
             /\ r.user = u.user /\ r.tick = u.tick /\ r.resolving = u.resolving /\ r.turn = u.turn
             /\ r.exited = u.exited
             /\ r.actions = [s \in Sessions |-> IF DocumentOf[s] = d THEN 0 ELSE u.actions[s]]
BY DEF Closed, Application

\* All but the tracking of d itself.
Closable(u, cs, starter, d) ==
  /\ u \in Application /\ Good(u.sessions, starter) /\ Admitted(u) /\ Dialogs(u)
  /\ u.open \cap u.unopened = {} /\ u.closePending \subseteq u.open
  /\ \A e \in Documents \ {d} : TrackedOne(u, cs, e)

LEMMA ConsistentClosable ==
  ASSUME NEW u, NEW cs, NEW starter, Consistent(u, cs, starter), NEW d
  PROVE  Closable(u, cs, starter, d)
BY DEF Consistent, Closable, Tracked

\* A document that goes leaves nothing behind and disturbs no other.
LEMMA ClosedKeeps ==
  ASSUME NEW u, NEW cs, NEW starter, NEW d \in Documents, Closable(u, cs, starter, d)
  PROVE  LET r == Closed(u, d)
         IN  /\ Consistent(r, cs, starter)
             /\ r.requests = u.requests /\ r.exited = u.exited /\ r.unopened = u.unopened
             /\ r.open = u.open \ {d} /\ r.shutdown.phase = u.shutdown.phase
             /\ ~HasPendingSessionStart(u, d) => r.starts = u.starts
<1> DEFINE r == Closed(u, d)
           starts == [s \in Sessions |-> IF DocumentOf[s] = d THEN 0 ELSE u.starts[s]]
           actions == [s \in Sessions |-> IF DocumentOf[s] = d THEN 0 ELSE u.actions[s]]
<1>1. u \in Application
  BY DEF Closable
<1>2. /\ r.open = u.open \ {d} /\ r.unopened = u.unopened
      /\ r.closePending = u.closePending \ {d} /\ r.starts = starts /\ r.actions = actions
      /\ r.stopCloses = [u.stopCloses EXCEPT ![d] = 0]
      /\ r.admissionCloses = [u.admissionCloses EXCEPT ![d] = 0]
      /\ r.approved = [u.approved EXCEPT ![d] = 0]
      /\ r.sessions = RemoveSessions(u.sessions, d)
      /\ r.shutdown = DocumentClosed(u.shutdown, d)
      /\ r.requests = u.requests /\ r.user = u.user /\ r.tick = u.tick
      /\ r.resolving = u.resolving /\ r.exited = u.exited
  BY <1>1, ClosedFields
<1>3. r = [u EXCEPT !.open = u.open \ {d}, !.closePending = u.closePending \ {d},
                    !.starts = starts, !.actions = actions,
                    !.stopCloses = [u.stopCloses EXCEPT ![d] = 0],
                    !.admissionCloses = [u.admissionCloses EXCEPT ![d] = 0],
                    !.approved = [u.approved EXCEPT ![d] = 0],
                    !.sessions = RemoveSessions(u.sessions, d),
                    !.shutdown = DocumentClosed(u.shutdown, d)]
  BY <1>1 DEF Closed, Application
<1>4. /\ Good(RemoveSessions(u.sessions, d), starter)
      /\ \A s \in Sessions \ Steps(d) : RemoveSessions(u.sessions, d).session[s] = u.sessions.session[s]
  BY RemoveGood DEF Closable
<1>5. u.shutdown \in Coordinator
  BY <1>1 DEF Application
<1>6. GivesUp(u.shutdown, DocumentClosed(u.shutdown, d))
      /\ DocumentClosed(u.shutdown, d).phase = u.shutdown.phase
  BY <1>5, ClosureTyped
<1>7. r \in Application
  <2>1. starts \in [Sessions -> Nat] /\ actions \in [Sessions -> 0..MaxRuns]
    BY <1>1, Bounds DEF Application
  <2>2. RemoveSessions(u.sessions, d) \in Manager /\ DocumentClosed(u.shutdown, d) \in Coordinator
    BY <1>4, <1>6 DEF Good, GivesUp
  <2>3. /\ [u.stopCloses EXCEPT ![d] = 0] \in Closing /\ [u.admissionCloses EXCEPT ![d] = 0] \in Closing
        /\ [u.approved EXCEPT ![d] = 0] \in Closing
    BY <1>1, Bounds DEF Application, Closing
  <2>4. u.open \ {d} \in SUBSET Documents /\ u.closePending \ {d} \in SUBSET Documents
    BY <1>1 DEF Application
  <2> DEFINE stopCloses == [u.stopCloses EXCEPT ![d] = 0]
             admissionCloses == [u.admissionCloses EXCEPT ![d] = 0]
             approved == [u.approved EXCEPT ![d] = 0]
             sessions == RemoveSessions(u.sessions, d)
             shutdown == DocumentClosed(u.shutdown, d)
             open == u.open \ {d}
             closePending == u.closePending \ {d}
  <2>5. r = [u EXCEPT !.open = open, !.closePending = closePending, !.starts = starts,
                      !.actions = actions, !.stopCloses = stopCloses,
                      !.admissionCloses = admissionCloses, !.approved = approved,
                      !.sessions = sessions, !.shutdown = shutdown]
    BY <1>3
  <2>6. /\ sessions \in Manager /\ shutdown \in Coordinator /\ stopCloses \in Closing
        /\ admissionCloses \in Closing /\ approved \in Closing /\ open \in SUBSET Documents
        /\ closePending \in SUBSET Documents
    BY <2>2, <2>3, <2>4
  <2> HIDE DEF starts, actions, r, stopCloses, admissionCloses, approved, sessions, shutdown, open,
               closePending
  <2> QED BY <1>1, <2>1, <2>5, <2>6 DEF Application
<1>8. /\ \A s \in Sessions : r.starts[s] = IF DocumentOf[s] = d THEN 0 ELSE u.starts[s]
      /\ \A e \in Documents : r.stopCloses[e] = (IF e = d THEN 0 ELSE u.stopCloses[e])
                              /\ r.admissionCloses[e] = (IF e = d THEN 0 ELSE u.admissionCloses[e])
                              /\ r.approved[e] = (IF e = d THEN 0 ELSE u.approved[e])
  BY <1>1, <1>2 DEF Application, Closing
<1> HIDE DEF r, starts
<1>9. /\ ~HasPendingSessionStart(r, d)
      /\ \A e \in Documents \ {d} : HasPendingSessionStart(r, e) <=> HasPendingSessionStart(u, e)
  BY <1>8 DEF HasPendingSessionStart, Steps
<1>10. Tracked(r, cs)
  <2>1. TrackedOne(r, cs, d)
    BY <1>2, <1>8 DEF TrackedOne
  <2>2. ASSUME NEW e \in Documents \ {d} PROVE TrackedOne(r, cs, e)
    BY <1>2, <1>8, <1>9, <2>2 DEF TrackedOne, Closable
  <2> QED BY <1>2, <2>1, <2>2 DEF Tracked, Closable
<1>11. Admitted(r)
  BY <1>2, <1>4, <1>8, SessionsThere DEF Admitted, Closable, Steps
<1>12. GivesUp(u.shutdown, r.shutdown) /\ r.shutdown.phase = u.shutdown.phase
      /\ \A s \in Sessions \ Steps(d) : r.sessions.session[s] = u.sessions.session[s]
  BY <1>2, <1>4, <1>6
<1>13. Dialogs(r)
  <2>1. \A e : HasPendingSessionStart(r, e) => HasPendingSessionStart(u, e)
    BY <1>8 DEF HasPendingSessionStart, Steps
  <2> QED BY <1>2, <1>12, <2>1 DEF Dialogs, Closable, GivesUp
<1>14. ~HasPendingSessionStart(u, d) => r.starts = u.starts
  <2>1. u.starts \in [Sessions -> Nat] /\ starts \in [Sessions -> Nat]
    BY <1>1, <1>2, <1>7 DEF Application
  <2>2. ~HasPendingSessionStart(u, d) => \A s \in Sessions : r.starts[s] = u.starts[s]
    BY <1>8 DEF HasPendingSessionStart, Steps
  <2> QED BY <1>2, <2>1, <2>2
<1>15. Consistent(r, cs, starter)
  BY <1>2, <1>4, <1>7, <1>10, <1>11, <1>13 DEF Consistent
<1> QED BY <1>2, <1>6, <1>14, <1>15 DEF r

\* Which Starts are pending depends on the sessions' starts alone.
LEMMA PendingAlike ==
  ASSUME NEW u, NEW r, r.starts = u.starts
  PROVE  \A d : HasPendingSessionStart(r, d) <=> HasPendingSessionStart(u, d)
BY DEF HasPendingSessionStart

\* The dialogs a request may leave open.
LEMMA DialogsAre ==
  /\ NoDialog \in DialogType /\ NoDialog.kind = "none"
  /\ \A d \in Documents, run \in 0..MaxRuns :
       [kind |-> "close", doc |-> d, run |-> run] \in DialogType
  /\ [NoDialog EXCEPT !.kind = "exit"] \in DialogType
  /\ [NoDialog EXCEPT !.kind = "exit"].kind = "exit"
  /\ [NoDialog EXCEPT !.kind = "stop"] \in DialogType
  /\ [NoDialog EXCEPT !.kind = "stop"].kind = "stop"
BY Bounds DEF NoDialog, DialogType

\* requestDocumentClose keeps what relates the parts of the application, gives up a
\* shutdown at most, and closes d only if no program of d is active.
LEMMA RequestKeeps ==
  ASSUME NEW u, NEW cs, NEW starter, NEW d \in Documents, NEW dialog,
         Consistent(u, cs, starter), ctl \in Control, IsActive(ctl) => ctl.run # 0
  PROVE  LET r == RequestDocumentClose(u, d, dialog)
         IN  /\ Consistent(r, cs, starter)
             /\ r.requests = u.requests /\ r.exited = u.exited /\ r.unopened = u.unopened
             /\ \/ r.open = u.open
                \/ r.open = u.open \ {d} /\ ~(IsActive(ctl) /\ ctl.doc = d)
             /\ r.shutdown.phase \in {u.shutdown.phase, "idle"}
             /\ r.starts = u.starts \/ u.shutdown.phase = "closingDocuments"
<1> DEFINE r == RequestDocumentClose(u, d, dialog)
           st == StateOf(ctl)
           sd == u.shutdown
           ask == [kind |-> "close", doc |-> d, run |-> st.run]
           closed == Closed(u, d)
           rejected == [u EXCEPT !.shutdown = DocumentCloseRejected(sd, d)]
           deferred == [u EXCEPT !.closePending = u.closePending \cup {d}]
           asked == [u EXCEPT !.user = ask]
           ticked == [u EXCEPT !.tick = ask]
           Holds(x) ==
             /\ Consistent(x, cs, starter)
             /\ x.requests = u.requests /\ x.exited = u.exited /\ x.unopened = u.unopened
             /\ \/ x.open = u.open
                \/ x.open = u.open \ {d} /\ ~(IsActive(ctl) /\ ctl.doc = d)
             /\ x.shutdown.phase \in {u.shutdown.phase, "idle"}
             /\ x.starts = u.starts \/ u.shutdown.phase = "closingDocuments"
<1>1. u \in Application /\ u.shutdown \in Coordinator /\ u.closePending \in SUBSET Documents
      /\ u.user \in DialogType /\ u.tick \in DialogType
  BY DEF Consistent, Application
<1>2. st.doc = ctl.doc /\ st.run = ctl.run /\ st.run \in 0..MaxRuns /\ (IsActive(st) <=> IsActive(ctl))
  BY DEF StateOf, Control, IsActive
<1>3. u.approved[d] = 0
  BY DEF Consistent, Tracked, TrackedOne
<1>4. Holds(u)
  OBVIOUS
<1>5. Consistent(closed, cs, starter) /\ closed.requests = u.requests /\ closed.exited = u.exited
      /\ closed.unopened = u.unopened /\ closed.open = u.open \ {d}
      /\ closed.shutdown.phase = u.shutdown.phase
      /\ (~HasPendingSessionStart(u, d) => closed.starts = u.starts)
  <2>1. Closable(u, cs, starter, d)
    BY ConsistentClosable
  <2> QED BY <2>1, ClosedKeeps
<1> HIDE DEF closed
<1>6. ASSUME ~(IsActive(ctl) /\ ctl.doc = d),
             ~HasPendingSessionStart(u, d) \/ u.shutdown.phase = "closingDocuments"
      PROVE  Holds(closed)
  BY <1>5, <1>6
<1>7. Active(sd) => Holds(rejected)
  <2> SUFFICES ASSUME Active(sd) PROVE Holds(rejected)
    OBVIOUS
  <2> DEFINE next == DocumentCloseRejected(sd, d)
  <2>1. GivesUp(sd, next) /\ (next = sd \/ (next.phase = "idle" /\ sd.phase = "closingDocuments"))
    BY <1>1, ClosureTyped, CancelTyped DEF DocumentCloseRejected
  <2> HIDE DEF next
  <2>2. rejected \in Application /\ rejected.shutdown = next /\ rejected.closePending = u.closePending
        /\ rejected.user = u.user /\ rejected.tick = u.tick
        /\ rejected.sessions = u.sessions /\ rejected.open = u.open /\ rejected.unopened = u.unopened
        /\ rejected.starts = u.starts /\ rejected.requests = u.requests
        /\ rejected.stopCloses = u.stopCloses /\ rejected.admissionCloses = u.admissionCloses
        /\ rejected.approved = u.approved /\ rejected.resolving = u.resolving
        /\ rejected.exited = u.exited
    BY <1>1, <2>1 DEF Application, GivesUp, next
  <2> HIDE DEF rejected
  <2>3. Dialogs(rejected)
    BY <2>1, <2>2, PendingAlike DEF Dialogs, GivesUp, Consistent
  <2>4. Tracked(rejected, cs) /\ Admitted(rejected)
    BY <2>2, PendingAlike DEF Tracked, TrackedOne, Admitted, Consistent
  <2> QED BY <2>1, <2>2, <2>3, <2>4 DEF Consistent
<1>8. ASSUME d \in u.open, HasPendingSessionStart(u, d) PROVE Holds(deferred)
  <2>1. deferred \in Application /\ deferred.closePending = u.closePending \cup {d}
        /\ deferred.shutdown = sd /\ deferred.user = u.user /\ deferred.tick = u.tick
        /\ deferred.sessions = u.sessions /\ deferred.open = u.open /\ deferred.unopened = u.unopened
        /\ deferred.starts = u.starts /\ deferred.requests = u.requests
        /\ deferred.stopCloses = u.stopCloses /\ deferred.admissionCloses = u.admissionCloses
        /\ deferred.approved = u.approved /\ deferred.resolving = u.resolving
        /\ deferred.exited = u.exited
    BY <1>1 DEF Application
  <2> HIDE DEF deferred
  <2>2. Dialogs(deferred) /\ Admitted(deferred)
    BY <2>1, PendingAlike DEF Dialogs, Admitted, Consistent
  <2>3. Tracked(deferred, cs)
    BY <1>8, <2>1, PendingAlike DEF Tracked, TrackedOne, Consistent
  <2> QED BY <2>1, <2>2, <2>3 DEF Consistent
<1>9. ASSUME ~HasPendingSessionStart(u, d), IsActive(ctl) PROVE Holds(asked) /\ Holds(ticked)
  <2>1. ask \in DialogType /\ ask.kind = "close" /\ ask.doc = d /\ ask.run # 0
    BY <1>2, <1>9, DialogsAre
  <2> HIDE DEF ask
  <2>2. /\ asked \in Application /\ asked.user = ask /\ asked.tick = u.tick
        /\ asked.closePending = u.closePending /\ asked.shutdown = sd
        /\ asked.sessions = u.sessions /\ asked.open = u.open /\ asked.unopened = u.unopened
        /\ asked.starts = u.starts /\ asked.requests = u.requests
        /\ asked.stopCloses = u.stopCloses /\ asked.admissionCloses = u.admissionCloses
        /\ asked.approved = u.approved /\ asked.resolving = u.resolving /\ asked.exited = u.exited
    BY <1>1, <2>1 DEF Application
  <2>3. /\ ticked \in Application /\ ticked.tick = ask /\ ticked.user = u.user
        /\ ticked.closePending = u.closePending /\ ticked.shutdown = sd
        /\ ticked.sessions = u.sessions /\ ticked.open = u.open /\ ticked.unopened = u.unopened
        /\ ticked.starts = u.starts /\ ticked.requests = u.requests
        /\ ticked.stopCloses = u.stopCloses /\ ticked.admissionCloses = u.admissionCloses
        /\ ticked.approved = u.approved /\ ticked.resolving = u.resolving /\ ticked.exited = u.exited
    BY <1>1, <2>1 DEF Application
  <2> HIDE DEF asked, ticked
  <2>4. Dialogs(asked) /\ Dialogs(ticked)
    BY <1>9, <2>1, <2>2, <2>3, PendingAlike DEF Dialogs, Consistent
  <2>5. Tracked(asked, cs) /\ Tracked(ticked, cs) /\ Admitted(asked) /\ Admitted(ticked)
    BY <2>2, <2>3, PendingAlike DEF Tracked, TrackedOne, Admitted, Consistent
  <2> QED BY <2>2, <2>3, <2>4, <2>5 DEF Consistent
<1>10. r = IF Active(sd) THEN
             IF ~AllowsDocumentClose(sd, sd.attempt, d) THEN u
             ELSE IF CanCloseSelectedDocument(sd, sd.attempt, d, st) THEN closed ELSE rejected
           ELSE IF d \notin u.open THEN u
           ELSE IF HasPendingSessionStart(u, d) THEN deferred
           ELSE IF d \in u.closePending THEN u
           ELSE IF ~IsActive(st) \/ st.doc # d THEN closed
           ELSE IF dialog = "user" THEN asked ELSE ticked
  BY <1>3 DEF RequestDocumentClose, closed
<1>11. CanCloseSelectedDocument(sd, sd.attempt, d, st) =>
         ~IsActive(ctl) /\ sd.phase = "closingDocuments"
  BY <1>2 DEF CanCloseSelectedDocument, AllowsDocumentClose
<1> HIDE DEF r, rejected, deferred, asked, ticked, Holds
<1>12. Holds(r)
  <2>1. CASE Active(sd)
    BY <1>4, <1>6, <1>7, <1>10, <1>11, <2>1
  <2>2. CASE ~Active(sd) /\ IsActive(ctl) /\ ctl.doc = d
    BY <1>2, <1>4, <1>8, <1>9, <1>10, <2>2
  <2>3. CASE ~Active(sd) /\ ~(IsActive(ctl) /\ ctl.doc = d)
    BY <1>2, <1>4, <1>6, <1>8, <1>10, <2>3
  <2> QED BY <2>1, <2>2, <2>3
<1> QED BY <1>12 DEF Holds, r

-----------------------------------------------------------------------------
(* The goroutines of the frontend. *)

\* What the frontend's invariants need of the calls when a goroutine takes a step.
Carried(cs, ns, starts, requests, starter) ==
  /\ ns \subseteq CallType /\ IsFiniteSet(ns)
  /\ Starting(ns, starts, requests, starter)
  /\ Cardinality(Counted(ns)) = Cardinality(Counted(cs))
  /\ \A e \in ns : e.kind = "start" /\ e.stage \notin {"result", "releasing"} =>
       \E c \in cs : c.kind = "start" /\ c.stage \notin {"result", "releasing"}
  /\ \A c \in cs : c.kind = "stopClose" =>
       \E e \in ns : e.kind = "stopClose" /\ e.doc = c.doc /\ e.run = c.run
  /\ Shaped(ns)

LEMMA CountedFinite ==
  ASSUME NEW cs, IsFiniteSet(cs)
  PROVE  IsFiniteSet(Counted(cs)) /\ Cardinality(Counted(cs)) \in Nat
<1>1. IsFiniteSet(Counted(cs))
  BY FS_Subset DEF Counted
<1> QED BY <1>1, FS_CardinalityType

\* One call becomes another stage of itself.
LEMMA CallMoves ==
  ASSUME NEW cs, cs \subseteq CallType, IsFiniteSet(cs), Shaped(cs),
         NEW starts, NEW requests, NEW starter, Starting(cs, starts, requests, starter),
         NEW c \in cs, NEW e \in CallType,
         e.kind = c.kind, e.session = c.session, e.doc = c.doc, e.number = c.number,
         c.kind # "start" => e.run = c.run /\ e.stage # "releasing",
         c.kind = "start" =>
           c.stage \in Under /\ e.stage \in Under \cup {"releasing"}
             /\ (e.run # 0 => starter[e.run] = e.session)
  PROVE  Carried(cs, (cs \ {c}) \cup {e}, starts, requests, starter)
<1> DEFINE ns == (cs \ {c}) \cup {e}
<1>1. ns \subseteq CallType /\ IsFiniteSet(ns)
  BY FS_RemoveElement, FS_AddElement
<1>2. \A x \in cs : c.kind = "start" /\ x.kind = "start" /\ x.number = c.number => x = c
  BY DEF Starting
<1>3. Starting(ns, starts, requests, starter)
  <2>1. ASSUME NEW x \in ns, x.kind = "start"
        PROVE  /\ x.session \in Sessions /\ x.doc = DocumentOf[x.session]
               /\ x.number \in 1..requests /\ x.stage # "stopping"
               /\ x.stage \in Under => starts[x.session] = x.number
               /\ x.run # 0 => starter[x.run] = x.session
    BY <2>1 DEF Starting, Under
  <2>2. ASSUME NEW x \in ns, NEW y \in ns, x.kind = "start", y.kind = "start", x.number = y.number
        PROVE  /\ x.stage \in Under => x = y
               /\ x.stage # "result" /\ y.stage # "result" => x = y
    <3>1. CASE x = e \/ y = e
      BY <1>2, <2>2, <3>1
    <3>2. CASE x \in cs /\ y \in cs
      BY <2>2, <3>2 DEF Starting
    <3> QED BY <3>1, <3>2
  <2> HIDE DEF ns
  <2> QED BY <2>1, <2>2 DEF Starting
<1>4. Cardinality(Counted(ns)) = Cardinality(Counted(cs))
  <2>1. CASE c.kind # "start"
    <3>1. Counted(ns) = Counted(cs)
      BY <2>1 DEF Counted
    <3> QED BY <3>1
  <2>2. CASE c.kind = "start"
    <3>1. c \in Counted(cs) /\ e.stage # "result"
      BY <2>2 DEF Counted, Under
    <3>2. Counted(ns) = (Counted(cs) \ {c}) \cup {e}
      BY <2>2, <3>1 DEF Counted
    <3>3. e \notin Counted(cs) \ {c}
      BY <1>2, <2>2 DEF Counted
    <3>4. IsFiniteSet(Counted(cs)) /\ Cardinality(Counted(cs)) \in Nat
      BY CountedFinite
    <3>5. IsFiniteSet(Counted(cs) \ {c}) /\ Cardinality(Counted(cs) \ {c}) = Cardinality(Counted(cs)) - 1
      BY <3>1, <3>4, FS_RemoveElement
    <3>6. Cardinality((Counted(cs) \ {c}) \cup {e}) = Cardinality(Counted(cs) \ {c}) + 1
      BY <3>3, <3>5, FS_AddElement
    <3>7. Cardinality((Counted(cs) \ {c}) \cup {e}) = Cardinality(Counted(cs))
      BY <3>4, <3>5, <3>6
    <3> HIDE DEF ns
    <3> QED BY <3>2, <3>7
  <2> QED BY <2>1, <2>2
<1>5. \A x \in ns : x.kind = "start" /\ x.stage \notin {"result", "releasing"} =>
        \E y \in cs : y.kind = "start" /\ y.stage \notin {"result", "releasing"}
  BY DEF Under
<1>6. Shaped(ns) /\ \A x \in cs : x.kind = "stopClose" =>
        \E y \in ns : y.kind = "stopClose" /\ y.doc = x.doc /\ y.run = x.run
  BY DEF Shaped
<1> QED BY <1>1, <1>3, <1>4, <1>5, <1>6 DEF Carried

\* The controller attributes a run once.
LEMMA StarterGrows ==
  ASSUME IInv, \A r \in Runs : ctl.starter[r] # 0 => ctl'.starter[r] = ctl.starter[r]
  PROVE  /\ Good(ui.sessions, ctl'.starter)
         /\ Starting(calls, ui.starts, ui.requests, ctl'.starter)
<1>1. ctl.starter \in [Runs -> Sessions \cup {0}] /\ calls \subseteq CallType
      /\ ui.sessions.owner \in [Runs -> Sessions \cup {0}]
  BY DEF IInv, Types, Control, Consistent, Good, Manager
<1>2. Attributed(ui.sessions, ctl'.starter)
  BY <1>1, SessionsThere DEF IInv, Consistent, Good, Attributed
<1>3. \A c \in calls : c.run # 0 => c.run \in Runs
  BY <1>1, Bounds DEF CallType, Runs
<1>4. Starting(calls, ui.starts, ui.requests, ctl'.starter)
  <2>1. ASSUME NEW c \in calls, c.kind = "start", c.run # 0 PROVE ctl'.starter[c.run] = c.session
    BY <1>1, <1>3, <2>1, SessionsThere DEF IInv, Starting
  <2> QED BY <2>1 DEF IInv, Starting
<1> QED BY <1>2, <1>4 DEF IInv, Consistent, Good

\* Nothing but the controller, its events and the goroutines changes.
LEMMA ControllerSide ==
  ASSUME IInv, UNCHANGED <<gate, ui>>,
         ctl' \in Control, IsActive(ctl') => ctl'.doc # 0 /\ ctl'.run # 0,
         unsent' \subseteq EventsOf, \A e \in unsent' : e.rev \in 1..ctl'.rev,
         events' \in Seq(EventsOf),
         \A r \in Runs : ctl.starter[r] # 0 => ctl'.starter[r] = ctl.starter[r],
         Carried(calls, calls', ui.starts, ui.requests, ctl'.starter)
  PROVE  IInv'
<1>1. Types'
  BY DEF IInv, Types, Carried
<1>2. Good(ui.sessions, ctl'.starter)
  BY StarterGrows
<1>3. Tracked(ui, calls')
  BY DEF IInv, Consistent, Tracked, TrackedOne, Carried
<1>4. Consistent(ui, calls', ctl'.starter)
  BY <1>2, <1>3 DEF IInv, Consistent
<1>5. Frozen(ui.shutdown, gate, calls')
  BY DEF IInv, Frozen, Carried
<1> QED BY <1>1, <1>4, <1>5 DEF IInv, Carried

LEMMA NothingCarried ==
  ASSUME IInv, \A r \in Runs : ctl.starter[r] # 0 => ctl'.starter[r] = ctl.starter[r]
  PROVE  Carried(calls, calls, ui.starts, ui.requests, ctl'.starter)
BY StarterGrows DEF IInv, Types, Carried

-----------------------------------------------------------------------------
(* The controller. *)

Senders == {"start", "runner", "bridge", "action", "stop", "stopper"}

LEMMA StateTyped ==
  ASSUME NEW c \in Control
  PROVE  /\ StateOf(c) \in State /\ TargetOf(c) \in Target
         /\ StateOf(c).doc = c.doc /\ StateOf(c).run = c.run
         /\ StateOf(c).status = c.status /\ StateOf(c).ready = c.ready
         /\ TargetOf(c).doc = c.doc /\ TargetOf(c).run = c.run
         /\ TargetOf(StateOf(c)) = TargetOf(c)
         /\ IsActive(StateOf(c)) <=> IsActive(c)
BY DEF StateOf, State, Control, TargetOf, Target, IsActive

LEMMA CommitTyped ==
  ASSUME Types, NEW c \in Control, c.rev = ctl.rev, NEW error \in 0..MaxRuns, NEW from \in Senders,
         Commit(c, error, from)
  PROVE  /\ ctl' \in Control /\ ctl'.doc = c.doc /\ ctl'.run = c.run /\ ctl'.status = c.status
         /\ ctl'.starter = c.starter
         /\ unsent' \subseteq EventsOf /\ \A e \in unsent' : e.rev \in 1..ctl'.rev
<1> DEFINE next == [c EXCEPT !.rev = c.rev + 1]
           e == Event(next.rev, StateOf(next), error, from)
<1>1. ctl' = next /\ unsent' = unsent \cup {e}
  BY DEF Commit
<1> DEFINE rev == c.rev + 1
<1>2. rev = ctl.rev + 1 /\ ctl.rev \in Nat /\ rev \in Nat
  BY DEF Types, Control
<1>3. next = [c EXCEPT !.rev = rev]
  OBVIOUS
<1> HIDE DEF next, rev
<1>4. next \in Control /\ next.doc = c.doc /\ next.run = c.run /\ next.status = c.status
      /\ next.starter = c.starter /\ next.rev = ctl.rev + 1 /\ ctl.rev \in Nat
  BY <1>2, <1>3 DEF Control
<1>5. e \in EventsOf /\ e.rev = ctl.rev + 1
  BY <1>4, StateTyped DEF Event, EventsOf, Senders
<1> HIDE DEF e
<1>6. \A x \in unsent' : x.rev \in 1..(ctl.rev + 1)
  BY <1>1, <1>4, <1>5 DEF Types
<1> QED BY <1>1, <1>4, <1>5, <1>6 DEF Types

\* What a step shows of the frontend's promise.
Promised == [Promise!Next]_(Promise!vars)

LEMMA ControllerPromised ==
  ASSUME IInv, UNCHANGED ui, IsActive(ctl') => IsActive(ctl) /\ ctl'.doc = ctl.doc
  PROVE  Promised
<1>1. IsActive(ctl) => ctl.doc # 0
  BY DEF IInv, Types
<1>2. CASE IsActive(ctl) /\ ~IsActive(ctl')
  BY <1>1, <1>2 DEF Promised, Promise!Next, Promise!End, Promise!Nothing, Promise!vars
<1>3. CASE ~(IsActive(ctl) /\ ~IsActive(ctl'))
  BY <1>3 DEF Promised, Promise!vars
<1> QED BY <1>2, <1>3

\* A goroutine of the controller itself: the calls wait.
Alone(c, error, from) == Commit(c, error, from) /\ UNCHANGED <<events, calls, gate, ui>>

LEMMA AloneKeeps ==
  ASSUME IInv, NEW c \in Control, c.rev = ctl.rev, c.starter = ctl.starter,
         IsActive(c) => c.doc # 0 /\ c.run # 0,
         IsActive(c) => IsActive(ctl) /\ c.doc = ctl.doc,
         NEW error \in 0..MaxRuns, NEW from \in Senders, Alone(c, error, from)
  PROVE  IInv' /\ Promised
<1>1. ctl' \in Control /\ ctl'.doc = c.doc /\ ctl'.run = c.run /\ ctl'.status = c.status
      /\ ctl'.starter = ctl.starter
      /\ unsent' \subseteq EventsOf /\ \A e \in unsent' : e.rev \in 1..ctl'.rev
  BY CommitTyped DEF Alone, IInv
<1>2. IsActive(ctl') <=> IsActive(c)
  BY <1>1 DEF IsActive
<1>3. Carried(calls, calls, ui.starts, ui.requests, ctl'.starter)
  BY <1>1, NothingCarried
<1>4. IInv'
  BY <1>1, <1>2, <1>3, ControllerSide DEF Alone, IInv, Types
<1>5. Promised
  BY <1>1, <1>2, ControllerPromised DEF Alone
<1> QED BY <1>4, <1>5

LEMMA SendEventKeeps ==
  ASSUME IInv, SendEvent
  PROVE  IInv' /\ Promised
<1>1. PICK e \in unsent : unsent' = unsent \ {e} /\ events' = Append(events, e)
                          /\ UNCHANGED <<ctl, calls, gate, ui>>
  BY DEF SendEvent
<1>2. events' \in Seq(EventsOf)
  BY <1>1, AppendProperties DEF IInv, Types
<1>3. Carried(calls, calls, ui.starts, ui.requests, ctl'.starter)
  BY <1>1, NothingCarried
<1>4. IInv'
  BY <1>1, <1>2, <1>3, ControllerSide DEF IInv, Types
<1>5. Promised
  BY <1>1, ControllerPromised
<1> QED BY <1>4, <1>5

LEMMA ControllerKeeps ==
  ASSUME IInv, BeginDraining \/ RunCompletes \/ RunFails \/ Recovers
  PROVE  IInv' /\ Promised
<1>1. ctl \in Control /\ (IsActive(ctl) => ctl.doc # 0 /\ ctl.run # 0) /\ ctl.run \in 0..MaxRuns
      /\ 0 \in 0..MaxRuns
  BY Bounds DEF IInv, Types, Control
<1>2. CASE BeginDraining
  <2> DEFINE c == [ctl EXCEPT !.drained = TRUE]
  <2>1. c \in Control /\ c.rev = ctl.rev /\ c.starter = ctl.starter /\ c.status = ctl.status
        /\ c.doc = ctl.doc /\ c.run = ctl.run /\ Alone(c, 0, "runner")
    BY <1>1, <1>2 DEF BeginDraining, Control, Alone
  <2> HIDE DEF c
  <2> QED BY <1>1, <2>1, AloneKeeps DEF IsActive, Senders
<1>3. CASE RunCompletes
  <2> DEFINE c == [ctl EXCEPT !.status = "completed"]
  <2>1. c \in Control /\ c.rev = ctl.rev /\ c.starter = ctl.starter /\ c.status = "completed"
        /\ Alone(c, 0, "runner")
    BY <1>1, <1>3 DEF RunCompletes, Control, Alone, ProgramStatus
  <2> HIDE DEF c
  <2> QED BY <1>1, <2>1, AloneKeeps DEF IsActive, ActiveStatus, Senders
<1>4. CASE RunFails
  <2>1. PICK ready \in {"normal", "recovery"} :
          Alone([ctl EXCEPT !.status = "failed", !.ready = ready, !.faults = ctl.faults + 1],
                ctl.run, "runner")
    BY <1>1, <1>4 DEF RunFails, Alone, Control
  <2> DEFINE faults == ctl.faults + 1
             c == [ctl EXCEPT !.status = "failed", !.ready = ready, !.faults = faults]
  <2>2. faults \in Nat /\ "failed" \in ProgramStatus /\ ready \in {"normal", "stopping", "recovery"}
    BY <1>1 DEF Control, ProgramStatus
  <2>3. Alone(c, ctl.run, "runner")
    BY <2>1
  <2> HIDE DEF faults
  <2>4. c \in Control /\ c.rev = ctl.rev /\ c.starter = ctl.starter /\ c.status = "failed"
    BY <1>1, <2>2 DEF Control
  <2> HIDE DEF c
  <2> QED BY <1>1, <2>4, <2>3, AloneKeeps DEF IsActive, ActiveStatus, Senders
<1>5. CASE Recovers
  <2> DEFINE c == [ctl EXCEPT !.able = TRUE, !.ready = "normal"]
  <2>1. c \in Control /\ c.rev = ctl.rev /\ c.starter = ctl.starter /\ c.status = ctl.status
        /\ c.doc = ctl.doc /\ c.run = ctl.run /\ Alone(c, 0, "bridge")
    BY <1>1, <1>5 DEF Recovers, Control, Alone
  <2> HIDE DEF c
  <2> QED BY <1>1, <2>1, AloneKeeps DEF IsActive, Senders
<1> QED BY <1>2, <1>3, <1>4, <1>5

\* A call goes on while nothing but its own record changes, or with a commit of
\* the controller.
Moves(c, e, starter) ==
  /\ e \in CallType
  /\ e.kind = c.kind /\ e.session = c.session /\ e.doc = c.doc /\ e.number = c.number
  /\ c.kind # "start" => e.run = c.run /\ e.stage # "releasing"
  /\ c.kind = "start" =>
       c.stage \in Under /\ e.stage \in Under \cup {"releasing"}
         /\ (e.run # 0 => starter[e.run] = e.session)

LEMMA CommitCall ==
  ASSUME IInv, NEW k \in Control, k.rev = ctl.rev,
         \A r \in Runs : ctl.starter[r] # 0 => k.starter[r] = ctl.starter[r],
         IsActive(k) => k.doc # 0 /\ k.run # 0,
         NEW error \in 0..MaxRuns, NEW from \in Senders, Commit(k, error, from),
         NEW c \in calls, NEW e, Moves(c, e, k.starter), calls' = (calls \ {c}) \cup {e},
         UNCHANGED <<events, gate, ui>>
  PROVE  IInv' /\ ctl'.doc = k.doc /\ ctl'.status = k.status
<1>1. ctl' \in Control /\ ctl'.doc = k.doc /\ ctl'.run = k.run /\ ctl'.status = k.status
      /\ ctl'.starter = k.starter
      /\ unsent' \subseteq EventsOf /\ \A x \in unsent' : x.rev \in 1..ctl'.rev
  BY CommitTyped DEF IInv
<1>2. Starting(calls, ui.starts, ui.requests, k.starter)
  BY <1>1, StarterGrows
<1>3. Carried(calls, calls', ui.starts, ui.requests, ctl'.starter)
  BY <1>1, <1>2, CallMoves DEF Moves, IInv, Types
<1>4. IsActive(ctl') <=> IsActive(k)
  BY <1>1 DEF IsActive
<1>5. IInv'
  BY <1>1, <1>3, <1>4, ControllerSide DEF IInv, Types
<1> QED BY <1>1, <1>5

LEMMA QuietCall ==
  ASSUME IInv, NEW c \in calls, NEW e, Moves(c, e, ctl.starter), calls' = (calls \ {c}) \cup {e},
         UNCHANGED <<ctl, unsent, events, gate, ui>>
  PROVE  IInv' /\ Promised
<1>1. Carried(calls, calls', ui.starts, ui.requests, ctl'.starter)
  BY CallMoves DEF Moves, IInv, Types
<1>2. IInv'
  BY <1>1, ControllerSide DEF IInv, Types
<1> QED BY <1>2, ControllerPromised

LEMMA StartKeeps ==
  ASSUME IInv, NEW c \in calls, StartAdmitted(c) \/ StartRefused(c)
  PROVE  IInv' /\ Promised
<1>1. ctl \in Control /\ c \in CallType /\ c.kind = "start" /\ c.stage = "calling" /\ 0 \in 0..MaxRuns
      /\ ctl.rev \in Nat
  BY Bounds DEF IInv, Types, StartAdmitted, StartRefused, Control
<1>2. /\ c.session \in Sessions /\ c.doc = DocumentOf[c.session] /\ c.doc \in ui.open
      /\ c.doc \in Documents
      /\ (c.run # 0 => ctl.starter[c.run] = c.session) /\ ~ui.exited
  <2>1. /\ c.session \in Sessions /\ c.doc = DocumentOf[c.session]
        /\ (c.run # 0 => ctl.starter[c.run] = c.session)
        /\ ui.starts[c.session] = c.number /\ c.number \in 1..ui.requests
    BY <1>1 DEF IInv, Starting, Under
  <2>2. ui.requests \in Nat /\ c.number # 0
    BY <2>1 DEF IInv, Consistent, Application
  <2>3. c.doc \in ui.open /\ c.doc \in Documents
    BY <2>1, <2>2, SessionsThere DEF IInv, Consistent, Admitted
  <2>4. ~ui.exited
    BY <1>1 DEF IInv, Consistent, Dialogs, Frozen, Decided, ShutdownPhase
  <2> QED BY <2>1, <2>3, <2>4
<1>3. CASE StartAdmitted(c)
  <2>1. PICK r \in Runs :
          /\ \A q \in Runs : ctl.starter[q] # 0 <=> q < r
          /\ Commit([ctl EXCEPT !.doc = c.doc, !.run = r, !.status = "running", !.drained = FALSE,
                                !.starter[r] = c.session], 0, "start")
          /\ calls' = (calls \ {c}) \cup {[c EXCEPT !.stage = "returning", !.run = r,
                                                     !.rev = ctl.rev + 1]}
    BY <1>3 DEF StartAdmitted
  <2> DEFINE starter == [ctl.starter EXCEPT ![r] = c.session]
             k == [ctl EXCEPT !.doc = c.doc, !.run = r, !.status = "running", !.drained = FALSE,
                              !.starter = starter]
             rev == ctl.rev + 1
             e == [c EXCEPT !.stage = "returning", !.run = r, !.rev = rev]
  <2>2. r \in 0..MaxRuns /\ r # 0 /\ ~(r < r) /\ rev \in Nat
    BY <1>1, Bounds DEF Runs
  <2>3. starter \in [Runs -> Sessions \cup {0}] /\ starter[r] = c.session
        /\ \A q \in Runs : ctl.starter[q] # 0 => starter[q] = ctl.starter[q]
    BY <1>1, <1>2, <2>1, <2>2 DEF Control
  <2>4. Commit(k, 0, "start") /\ calls' = (calls \ {c}) \cup {e}
    BY <2>1
  <2> HIDE DEF starter, rev
  <2>5. k \in Control /\ k.rev = ctl.rev /\ k.doc = c.doc /\ k.run = r /\ k.status = "running"
        /\ k.starter = starter
    <3>1. "running" \in ProgramStatus /\ c.doc \in Documents \cup {0}
      BY <1>2 DEF ProgramStatus
    <3> QED BY <1>1, <2>2, <2>3, <3>1 DEF Control
  <2>6. Moves(c, e, starter)
    <3>1. e \in CallType /\ e.kind = c.kind /\ e.session = c.session /\ e.doc = c.doc
          /\ e.number = c.number /\ e.run = r /\ e.stage = "returning"
      BY <1>1, <2>2 DEF CallType
    <3> HIDE DEF e
    <3> QED BY <1>1, <2>3, <3>1 DEF Moves, Under
  <2>7. c.doc # 0 /\ ui.resolving = ui.resolving
    BY <1>2, SessionsThere
  <2> HIDE DEF k, e
  <2>8. IInv' /\ ctl'.doc = c.doc /\ ctl'.status = "running"
    BY <1>1, <1>3, <2>2, <2>3, <2>4, <2>5, <2>6, <2>7, CommitCall DEF StartAdmitted, Senders
  <2>9. IsActive(ctl') /\ ~IsActive(ctl) /\ UNCHANGED ui
    BY <1>3, <2>8 DEF StartAdmitted, IsActive, ActiveStatus
  <2>10. Promise!Start(c.doc)
    BY <1>2, <2>8, <2>9 DEF Promise!Start, Promise!Nothing
  <2> QED BY <1>2, <2>8, <2>10 DEF Promised, Promise!Next
<1>4. CASE StartRefused(c)
  <2> DEFINE e == [c EXCEPT !.stage = "returning", !.outcome = "error"]
  <2>1. calls' = (calls \ {c}) \cup {e}
    BY <1>4 DEF StartRefused, Returns, Advance
  <2>2. e \in CallType /\ e.kind = c.kind /\ e.session = c.session /\ e.doc = c.doc
        /\ e.number = c.number /\ e.run = c.run /\ e.stage = "returning"
    BY <1>1 DEF CallType
  <2> HIDE DEF e
  <2>3. Moves(c, e, ctl.starter)
    BY <1>1, <1>2, <2>2 DEF Moves, Under
  <2> QED BY <1>4, <2>1, <2>3, QuietCall DEF StartRefused
<1> QED BY <1>3, <1>4

\* FS_Image, for the image under a function.
LEMMA ImageFinite ==
  ASSUME NEW S, IsFiniteSet(S), NEW T, NEW f \in [S -> T], \A t \in T : \E s \in S : f[s] = t
  PROVE  IsFiniteSet(T)
<1>1. PICK n \in Nat : ExistsSurjection(1..n, S)
  BY FS_NatSurjection
<1>2. PICK g : g \in Surjection(1..n, S)
  BY <1>1 DEF ExistsSurjection
<1> DEFINE h == [i \in 1..n |-> f[g[i]]]
<1>3. g \in [1..n -> S] /\ \A s \in S : \E i \in 1..n : g[i] = s
  BY <1>2 DEF Surjection
<1>4. h \in [1..n -> T] /\ \A t \in T : \E i \in 1..n : h[i] = t
  BY <1>3
<1>5. ExistsSurjection(1..n, T)
  BY <1>4 DEF ExistsSurjection, Surjection
<1> QED BY <1>5, FS_NatSurjection

LEMMA DisconnectsKeeps ==
  ASSUME IInv, Disconnects
  PROVE  IInv' /\ Promised
<1> DEFINE Answer(c) == IF c.stage = "stopping" THEN [c EXCEPT !.stage = "returning", !.outcome = "error"]
                        ELSE c
           faults == ctl.faults + 1
           status == IF IsActive(ctl) THEN "failed" ELSE ctl.status
           ready == IF IsActive(ctl) THEN "recovery" ELSE ctl.ready
           k == [ctl EXCEPT !.status = status, !.able = FALSE, !.ready = ready, !.faults = faults]
           run == IF IsActive(ctl) THEN ctl.run ELSE 0
<1>1. ctl \in Control /\ calls \subseteq CallType /\ IsFiniteSet(calls) /\ 0 \in 0..MaxRuns
  BY Bounds DEF IInv, Types
<1>2. Commit(k, run, "bridge") /\ calls' = {Answer(c) : c \in calls} /\ UNCHANGED <<events, gate, ui>>
  BY DEF Disconnects
<1>3. faults \in Nat /\ status \in ProgramStatus /\ ready \in {"normal", "stopping", "recovery"}
      /\ run \in 0..MaxRuns /\ ~(status \in ActiveStatus)
  BY <1>1 DEF Control, ProgramStatus, IsActive, ActiveStatus
<1> HIDE DEF faults, status, ready, run
<1>4. k \in Control /\ k.rev = ctl.rev /\ k.starter = ctl.starter /\ ~IsActive(k)
  BY <1>1, <1>3 DEF Control, IsActive
<1> HIDE DEF k
<1>5. ctl' \in Control /\ ctl'.status = k.status /\ ctl'.starter = ctl.starter
      /\ unsent' \subseteq EventsOf /\ \A x \in unsent' : x.rev \in 1..ctl'.rev
  BY <1>2, <1>3, <1>4, CommitTyped DEF IInv, Senders
<1>6. ~IsActive(ctl')
  BY <1>4, <1>5 DEF IsActive
<1>7. \A c \in calls :
        /\ Answer(c) \in CallType /\ Answer(c).kind = c.kind /\ Answer(c).doc = c.doc
        /\ Answer(c).run = c.run /\ Answer(c).session = c.session
        /\ Answer(c).stage = "releasing" => Answer(c) = c
        /\ c.kind = "start" => Answer(c) = c
  BY <1>1 DEF IInv, Starting, CallType
<1> HIDE DEF Answer
<1>8. calls' \subseteq CallType /\ IsFiniteSet(calls')
  <2> DEFINE f == [c \in calls |-> Answer(c)]
  <2>1. f \in [calls -> calls'] /\ \A e \in calls' : \E c \in calls : f[c] = e
    BY <1>2
  <2> HIDE DEF f
  <2>2. IsFiniteSet(calls')
    BY <1>1, <2>1, ImageFinite
  <2> QED BY <1>2, <1>7, <2>2
<1>9. \A e : e.kind = "start" => (e \in calls' <=> e \in calls)
  BY <1>2, <1>7
<1>10. Starting(calls', ui.starts, ui.requests, ctl'.starter)
  BY <1>5, <1>9 DEF IInv, Starting
<1>11. Counted(calls') = Counted(calls)
  BY <1>9 DEF Counted
<1>12. Shaped(calls')
  BY <1>2, <1>7 DEF IInv, Shaped
<1>13. \A c \in calls : c.kind = "stopClose" =>
         \E e \in calls' : e.kind = "stopClose" /\ e.doc = c.doc /\ e.run = c.run
  BY <1>2, <1>7
<1>14. Carried(calls, calls', ui.starts, ui.requests, ctl'.starter)
  BY <1>8, <1>9, <1>10, <1>11, <1>12, <1>13 DEF Carried
<1>15. IInv'
  BY <1>2, <1>5, <1>6, <1>14, ControllerSide DEF IInv, Types
<1> QED BY <1>2, <1>6, <1>15, ControllerPromised

LEMMA ActionKeeps ==
  ASSUME IInv, NEW c \in calls, PauseOrResume(c) \/ ActionReturns(c)
  PROVE  IInv' /\ Promised
<1>1. ctl \in Control /\ c \in CallType /\ c.kind # "start" /\ 0 \in 0..MaxRuns /\ ctl.rev + 1 \in Nat
      /\ (IsActive(ctl) => ctl.doc # 0 /\ ctl.run # 0)
  BY Bounds DEF IInv, Types, PauseOrResume, ActionReturns, Control
<1>2. CASE PauseOrResume(c)
  <2>1. PICK status \in {"paused", "running"} :
          Commit([ctl EXCEPT !.status = status], 0, "action") /\ IsActive(ctl)
    BY <1>2 DEF PauseOrResume, IsActive, ActiveStatus
  <2> DEFINE k == [ctl EXCEPT !.status = status]
             rev == ctl.rev + 1
             e == [c EXCEPT !.stage = "returning", !.rev = rev]
  <2>2. Commit(k, 0, "action") /\ calls' = (calls \ {c}) \cup {e} /\ UNCHANGED <<events, gate, ui>>
    BY <1>2, <2>1 DEF PauseOrResume, Emits
  <2>3. k \in Control /\ k.rev = ctl.rev /\ k.starter = ctl.starter /\ k.doc = ctl.doc
        /\ k.run = ctl.run /\ IsActive(k)
    BY <1>1 DEF Control, ProgramStatus, IsActive, ActiveStatus
  <2>4. rev \in Nat
    BY <1>1
  <2> HIDE DEF k, rev
  <2>5. e \in CallType /\ e.kind = c.kind /\ e.session = c.session /\ e.doc = c.doc
        /\ e.number = c.number /\ e.run = c.run /\ e.stage = "returning"
    BY <1>1, <2>4 DEF CallType
  <2> HIDE DEF e
  <2>6. Moves(c, e, k.starter)
    BY <1>1, <2>5 DEF Moves
  <2>7. IInv' /\ ctl'.doc = k.doc /\ ctl'.status = k.status
    BY <1>1, <2>1, <2>2, <2>3, <2>6, CommitCall DEF Senders
  <2> QED BY <2>1, <2>2, <2>3, <2>7, ControllerPromised
<1>3. CASE ActionReturns(c)
  <2>1. PICK outcome \in {"ok", "error"} :
          calls' = (calls \ {c}) \cup {[c EXCEPT !.stage = "returning", !.outcome = outcome]}
    BY <1>3 DEF ActionReturns, Returns, Advance
  <2> DEFINE e == [c EXCEPT !.stage = "returning", !.outcome = outcome]
  <2>2. e \in CallType /\ e.kind = c.kind /\ e.session = c.session /\ e.doc = c.doc
        /\ e.number = c.number /\ e.run = c.run /\ e.stage = "returning"
    BY <1>1 DEF CallType
  <2>3. calls' = (calls \ {c}) \cup {e}
    BY <2>1
  <2> HIDE DEF e
  <2>4. Moves(c, e, ctl.starter)
    BY <1>1, <2>2 DEF Moves
  <2> QED BY <1>3, <2>3, <2>4, QuietCall DEF ActionReturns
<1> QED BY <1>2, <1>3

LEMMA StopKeeps ==
  ASSUME IInv, NEW c \in calls, BeginStop(c) \/ FinishStop(c)
  PROVE  IInv' /\ Promised
<1>1. ctl \in Control /\ c \in CallType /\ 0 \in 0..MaxRuns /\ ctl.rev + 1 \in Nat
      /\ ctl.faults + 1 \in Nat
      /\ (IsActive(ctl) => ctl.doc # 0 /\ ctl.run # 0)
  BY Bounds DEF IInv, Types, Control
<1>2. c.kind # "start"
  BY DEF BeginStop, Stops, FinishStop, IInv, Starting
<1>3. ASSUME UNCHANGED <<ctl, unsent, events, gate, ui>>, NEW outcome \in {"ok", "error", "busy"},
             Returns(c, outcome)
      PROVE  IInv' /\ Promised
  <2> DEFINE e == [c EXCEPT !.stage = "returning", !.outcome = outcome]
  <2>1. e \in CallType /\ e.kind = c.kind /\ e.session = c.session /\ e.doc = c.doc
        /\ e.number = c.number /\ e.run = c.run /\ e.stage = "returning"
    BY <1>1 DEF CallType
  <2>2. calls' = (calls \ {c}) \cup {e}
    BY <1>3 DEF Returns, Advance
  <2> HIDE DEF e
  <2>3. Moves(c, e, ctl.starter)
    BY <1>2, <2>1 DEF Moves
  <2> QED BY <1>3, <2>2, <2>3, QuietCall
<1>4. ASSUME UNCHANGED <<events, gate, ui>>, NEW k \in Control, k.rev = ctl.rev,
             k.starter = ctl.starter, IsActive(k) => IsActive(ctl) /\ k.doc = ctl.doc /\ k.run = ctl.run,
             NEW error \in 0..MaxRuns, NEW from \in Senders, Commit(k, error, from),
             NEW stage \in {"returning", "stopping"}, NEW outcome \in {"ok", "error"},
             NEW rev \in Nat,
             calls' = (calls \ {c}) \cup {[c EXCEPT !.stage = stage, !.outcome = outcome, !.rev = rev]}
      PROVE  IInv' /\ Promised
  <2> DEFINE e == [c EXCEPT !.stage = stage, !.outcome = outcome, !.rev = rev]
  <2>1. e \in CallType /\ e.kind = c.kind /\ e.session = c.session /\ e.doc = c.doc
        /\ e.number = c.number /\ e.run = c.run /\ e.stage \in {"returning", "stopping"}
    BY <1>1 DEF CallType
  <2>2. calls' = (calls \ {c}) \cup {e}
    BY <1>4
  <2> HIDE DEF e
  <2>3. Moves(c, e, k.starter)
    BY <1>2, <2>1 DEF Moves
  <2>4. IInv' /\ ctl'.doc = k.doc /\ ctl'.status = k.status
    BY <1>1, <1>4, <2>2, <2>3, CommitCall
  <2>5. IsActive(ctl') <=> IsActive(k)
    BY <2>4 DEF IsActive
  <2> QED BY <1>4, <2>4, <2>5, ControllerPromised
<1>5. CASE BeginStop(c)
  <2>1. CASE ctl.status = "stopping"
    BY <1>3, <1>5, <2>1 DEF BeginStop
  <2>2. CASE ctl.status # "stopping" /\ (~IsActive(ctl) \/ TargetOf(ctl) # [doc |-> c.doc, run |-> c.run])
    BY <1>3, <1>5, <2>2 DEF BeginStop
  <2>3. CASE ctl.status # "stopping" /\ IsActive(ctl) /\ TargetOf(ctl) = [doc |-> c.doc, run |-> c.run]
    <3> DEFINE k == [ctl EXCEPT !.status = "stopping", !.ready = "stopping"]
               rev == ctl.rev + 1
    <3>1. Commit(k, 0, "stop") /\ UNCHANGED <<events, gate, ui>>
          /\ calls' = (calls \ {c}) \cup {[c EXCEPT !.stage = "stopping", !.rev = rev]}
      BY <1>5, <2>3 DEF BeginStop, Emits
    <3>2. k \in Control /\ k.rev = ctl.rev /\ k.starter = ctl.starter /\ k.doc = ctl.doc
          /\ k.run = ctl.run
      BY <1>1 DEF Control, ProgramStatus
    <3>3. rev \in Nat
      BY <1>1
    <3> HIDE DEF k, rev
    <3> DEFINE e == [c EXCEPT !.stage = "stopping", !.rev = rev]
    <3>4. e \in CallType /\ e.kind = c.kind /\ e.session = c.session /\ e.doc = c.doc
          /\ e.number = c.number /\ e.run = c.run /\ e.stage = "stopping"
      BY <1>1, <3>3 DEF CallType
    <3>5. calls' = (calls \ {c}) \cup {e}
      BY <3>1
    <3> HIDE DEF e
    <3>6. Moves(c, e, k.starter)
      BY <1>2, <3>4 DEF Moves
    <3>7. IInv' /\ ctl'.doc = k.doc /\ ctl'.status = k.status
      BY <1>1, <2>3, <3>1, <3>2, <3>5, <3>6, CommitCall DEF Senders
    <3> QED BY <2>3, <3>1, <3>2, <3>7, ControllerPromised
  <2> QED BY <2>1, <2>2, <2>3
<1>6. CASE FinishStop(c)
  <2>1. c.rev \in Nat /\ {"normal", "recovery"} \subseteq {"normal", "stopping", "recovery"}
        /\ {"stopped", "failed"} \subseteq ProgramStatus /\ ctl.run \in 0..MaxRuns
    BY <1>1 DEF CallType, ProgramStatus, Control
  <2>2. \A outcome : [c EXCEPT !.stage = "returning", !.outcome = outcome] =
                     [c EXCEPT !.stage = "returning", !.outcome = outcome, !.rev = c.rev]
    BY <1>1 DEF CallType
  <2>3. CASE Commit([ctl EXCEPT !.status = "stopped", !.ready = "normal"], 0, "stopper")
             /\ Returns(c, "ok")
    <3> DEFINE k == [ctl EXCEPT !.status = "stopped", !.ready = "normal"]
    <3>1. k \in Control /\ k.rev = ctl.rev /\ k.starter = ctl.starter /\ ~IsActive(k)
      BY <1>1, <2>1 DEF Control, IsActive, ActiveStatus
    <3>2. Commit(k, 0, "stopper")
      BY <2>3
    <3> HIDE DEF k
    <3> QED BY <1>1, <1>4, <1>6, <2>3, <2>1, <2>2, <3>1, <3>2 DEF Senders, FinishStop, Returns, Advance
  <2>4. CASE Commit([ctl EXCEPT !.status = "failed", !.ready = "recovery", !.faults = ctl.faults + 1],
                    ctl.run, "stopper") /\ Returns(c, "error")
    <3> DEFINE faults == ctl.faults + 1
               k == [ctl EXCEPT !.status = "failed", !.ready = "recovery", !.faults = faults]
    <3>1. faults \in Nat
      BY <1>1
    <3>2. Commit(k, ctl.run, "stopper")
      BY <2>4
    <3> HIDE DEF faults
    <3>3. k \in Control /\ k.rev = ctl.rev /\ k.starter = ctl.starter /\ ~IsActive(k)
      BY <1>1, <2>1, <3>1 DEF Control, IsActive, ActiveStatus
    <3> HIDE DEF k
    <3> QED BY <1>1, <1>4, <1>6, <2>4, <2>1, <2>2, <3>3, <3>2 DEF Senders, FinishStop, Returns, Advance
  <2> QED BY <1>1, <1>6, <2>3, <2>4 DEF FinishStop, Control
<1> QED BY <1>5, <1>6

LEMMA SendResultKeeps ==
  ASSUME IInv, NEW c \in calls, SendResult(c)
  PROVE  IInv' /\ Promised
<1> DEFINE sent == [c EXCEPT !.rev = 0, !.stage = "result"]
           left == [c EXCEPT !.rev = 0, !.stage = "releasing"]
           ns == (calls \ {c}) \cup {left}
<1>1. c \in CallType /\ c.stage = "returning" /\ UNCHANGED <<ctl, unsent, events, gate, ui>>
  BY DEF SendResult, IInv, Types
<1>2. sent \in CallType /\ sent.kind = c.kind /\ sent.session = c.session /\ sent.doc = c.doc
      /\ sent.number = c.number /\ sent.run = c.run /\ sent.stage = "result"
  BY <1>1 DEF CallType
<1>3. left \in CallType /\ left.kind = c.kind /\ left.session = c.session /\ left.doc = c.doc
      /\ left.number = c.number /\ left.run = c.run /\ left.stage = "releasing"
  BY <1>1 DEF CallType
<1>4. calls' = IF c.kind = "start" THEN ns \cup {sent} ELSE (calls \ {c}) \cup {sent}
  <2>1. c.kind = "start" => calls' = (calls \ {c}) \cup {[[c EXCEPT !.rev = 0] EXCEPT !.stage = stage] :
                                                           stage \in {"result", "releasing"}}
    BY DEF SendResult
  <2>2. c.kind # "start" => calls' = (calls \ {c}) \cup {[[c EXCEPT !.rev = 0] EXCEPT !.stage = stage] :
                                                           stage \in {"result"}}
    BY DEF SendResult
  <2>3. [[c EXCEPT !.rev = 0] EXCEPT !.stage = "result"] = sent
        /\ [[c EXCEPT !.rev = 0] EXCEPT !.stage = "releasing"] = left
    BY <1>1 DEF CallType
  <2> QED BY <2>1, <2>2, <2>3
<1> HIDE DEF sent, left
<1>5. CASE c.kind # "start"
  BY <1>1, <1>2, <1>4, <1>5, QuietCall DEF Moves
<1>6. CASE c.kind = "start"
  <2>1. c.session \in Sessions /\ c.doc = DocumentOf[c.session] /\ c.number \in 1..ui.requests
        /\ (c.run # 0 => ctl.starter[c.run] = c.session)
    BY <1>6 DEF IInv, Starting
  <2>2. Carried(calls, ns, ui.starts, ui.requests, ctl.starter)
    BY <1>1, <1>3, <1>6, <2>1, CallMoves DEF IInv, Types, Under
  <2>3. \A x \in ns : x.kind = "start" /\ x.number = c.number => x = left
    BY <1>1, <1>3, <1>6 DEF IInv, Starting, Under
  <2>4. calls' = ns \cup {sent}
    BY <1>4, <1>6
  <2> HIDE DEF ns
  <2>5. Starting(calls', ui.starts, ui.requests, ctl.starter)
    <3>1. \A x \in calls' : x.kind = "start" =>
             /\ x.session \in Sessions /\ x.doc = DocumentOf[x.session]
             /\ x.number \in 1..ui.requests /\ x.stage # "stopping"
             /\ x.stage \in Under => ui.starts[x.session] = x.number
             /\ x.run # 0 => ctl.starter[x.run] = x.session
      BY <1>2, <2>1, <2>2, <2>4 DEF Carried, Starting, Under
    <3>2. \A x, y \in calls' : x.kind = "start" /\ y.kind = "start" /\ x.number = y.number =>
             /\ x.stage \in Under => x = y
             /\ x.stage # "result" /\ y.stage # "result" => x = y
      BY <1>2, <1>3, <2>2, <2>3, <2>4 DEF Carried, Starting, Under
    <3> QED BY <3>1, <3>2 DEF Starting
  <2>6. Counted(calls') = Counted(ns)
    BY <1>2, <2>4 DEF Counted
  <2>7. calls' \subseteq CallType /\ IsFiniteSet(calls')
    BY <1>2, <2>2, <2>4, FS_AddElement DEF Carried
  <2>8. Shaped(calls')
    BY <1>2, <1>6, <2>2, <2>4 DEF Carried, Shaped, ActionKind
  <2>9. Carried(calls, calls', ui.starts, ui.requests, ctl'.starter)
    BY <1>1, <1>2, <1>6, <2>2, <2>4, <2>5, <2>6, <2>7, <2>8 DEF Carried
  <2>10. IInv'
    BY <1>1, <2>9, ControllerSide DEF IInv, Types
  <2> QED BY <1>1, <2>10, ControllerPromised
<1> QED BY <1>5, <1>6

LEMMA ReleaseKeeps ==
  ASSUME IInv, NEW c \in calls, ReleaseAdmission(c)
  PROVE  IInv' /\ Promised
<1> DEFINE ns == calls \ {c}
<1>1. calls' = ns /\ gate' = Release(gate) /\ UNCHANGED <<ctl, unsent, events, ui>>
  BY DEF ReleaseAdmission
<1>2. c \in Counted(calls) /\ c.kind = "start" /\ c.stage = "releasing"
  BY DEF ReleaseAdmission, IInv, Shaped, Counted
<1>3. IsFiniteSet(calls) /\ calls \subseteq CallType /\ gate \in Gate
  BY DEF IInv, Types
<1>4. Counted(ns) = Counted(calls) \ {c}
  BY DEF Counted
<1>5. Cardinality(Counted(calls)) \in Nat /\ IsFiniteSet(Counted(calls))
  BY <1>3, CountedFinite
<1>6. Cardinality(Counted(calls) \ {c}) = Cardinality(Counted(calls)) - 1
      /\ Cardinality(Counted(calls) \ {c}) \in Nat
  BY <1>2, <1>5, FS_RemoveElement, FS_CardinalityType
<1>7. gate.outstanding > 0 /\ gate.outstanding \in Nat /\ gate.outstanding - 1 \in Nat
  BY <1>5, <1>6 DEF IInv
<1>8. gate'.outstanding = gate.outstanding - 1 /\ gate'.closed = gate.closed /\ gate' \in Gate
  BY <1>1, <1>3, <1>7 DEF Release, Gate
<1>9. IsFiniteSet(ns) /\ ns \subseteq CallType
  BY <1>3, FS_RemoveElement
<1> HIDE DEF ns
<1>10. ns \subseteq calls /\ \A x \in calls : x.kind # "start" => x \in ns
  BY <1>2 DEF ns
<1>11. gate'.outstanding = Cardinality(Counted(calls'))
  BY <1>1, <1>4, <1>6, <1>8 DEF IInv
<1>12. Types'
  BY <1>1, <1>8, <1>9 DEF IInv, Types
<1>13. Consistent(ui, calls', ctl'.starter)
  <2>1. Tracked(ui, ns)
    BY <1>10 DEF IInv, Consistent, Tracked, TrackedOne
  <2> QED BY <1>1, <2>1 DEF IInv, Consistent
<1>14. Starting(calls', ui'.starts, ui'.requests, ctl'.starter) /\ Shaped(calls')
  BY <1>1, <1>10 DEF IInv, Starting, Shaped
<1>15. Frozen(ui'.shutdown, gate', calls')
  BY <1>1, <1>8, <1>10 DEF IInv, Frozen
<1>16. IInv'
  BY <1>1, <1>11, <1>12, <1>13, <1>14, <1>15 DEF IInv
<1> QED BY <1>1, <1>16, ControllerPromised

-----------------------------------------------------------------------------
(* The UI thread. *)

\* syncProgramStartGate after a step, or a step that leaves it right.
GateFollows(u) ==
  /\ gate' \in Gate /\ gate'.outstanding = gate.outstanding
  /\ Active(u.shutdown) \/ u.shutdown.phase = "finished" => gate'.closed

LEMMA BecomesFollows ==
  ASSUME IInv, NEW u, Becomes(u)
  PROVE  ui' = u /\ GateFollows(u)
BY DEF IInv, Types, Becomes, GateFollows, Synced, Gate, Finalize, Freeze, Reopen

LEMMA KeptFollows ==
  ASSUME IInv, NEW u, UNCHANGED gate, u.shutdown.phase = ui.shutdown.phase
  PROVE  GateFollows(u)
BY DEF IInv, Types, GateFollows, Frozen, Active

\* A step of the UI thread and of the calls it starts or whose results it takes.
LEMMA UISide ==
  ASSUME IInv, NEW u, ui' = u, GateFollows(u), UNCHANGED <<ctl, unsent>>, events' \in Seq(EventsOf),
         calls' \subseteq CallType, IsFiniteSet(calls'), Shaped(calls'),
         Consistent(u, calls', ctl.starter),
         Starting(calls', u.starts, u.requests, ctl.starter),
         Counted(calls') = Counted(calls),
         u.shutdown.phase \in Decided => ui.shutdown.phase \in Decided \/ gate.outstanding = 0
  PROVE  IInv'
<1>1. Types'
  BY DEF IInv, Types, GateFollows
<1>2. gate'.outstanding = Cardinality(Counted(calls'))
  BY DEF IInv, GateFollows
<1>3. Frozen(u.shutdown, gate', calls')
  <2>1. gate.outstanding = 0 => Counted(calls) = {}
    BY CountedFinite, FS_EmptySet DEF IInv, Types
  <2>2. \A c \in calls' : c.kind = "start" /\ c.stage # "result" => c \in calls
    BY DEF Counted
  <2>3. ASSUME u.shutdown.phase \in Decided, NEW c \in calls', c.kind = "start"
        PROVE  c.stage \in {"result", "releasing"}
    <3>1. CASE c.stage = "result"
      BY <3>1
    <3>2. CASE c.stage # "result"
      <4>1. c \in calls /\ c \in Counted(calls)
        BY <2>2, <2>3, <3>2 DEF Counted
      <4>2. ui.shutdown.phase \in Decided
        BY <2>1, <2>3, <4>1
      <4> QED BY <2>3, <4>1, <4>2 DEF IInv, Frozen
    <3> QED BY <3>1, <3>2
  <2> QED BY <2>3 DEF Frozen, GateFollows
<1> QED BY <1>1, <1>2, <1>3 DEF IInv

\* It closes one document at most, and that one has no active program.
LEMMA UIPromised ==
  ASSUME IInv, UNCHANGED ctl, ui'.exited = ui.exited, ui'.unopened = ui.unopened,
         \/ ui'.open = ui.open
         \/ ~ui.exited /\ \E d \in Documents :
              ui'.open = ui.open \ {d} /\ ~(IsActive(ctl) /\ ctl.doc = d)
  PROVE  Promised
<1>1. CASE ui'.open = ui.open
  BY <1>1 DEF Promised, Promise!vars
<1>2. ASSUME ~ui.exited, NEW d \in Documents, ui'.open = ui.open \ {d},
             ~(IsActive(ctl) /\ ctl.doc = d), d \in ui.open
      PROVE  Promised
  <2>1. d # 0
    BY SessionsThere
  <2>2. Promise!Close(d)
    BY <1>2, <2>1 DEF Promise!Close
  <2> QED BY <2>2 DEF Promised, Promise!Next
<1>3. ASSUME NEW d \in Documents, ui'.open = ui.open \ {d}, d \notin ui.open
      PROVE  Promised
  <2>1. ui'.open = ui.open
    BY <1>3
  <2> QED BY <1>1, <2>1
<1> QED BY <1>1, <1>2, <1>3

\* All but the coordinator, the dialogs, the turn and what is left to resolve.
Apart(u) ==
  /\ u.sessions = ui.sessions /\ u.open = ui.open /\ u.unopened = ui.unopened
  /\ u.closePending = ui.closePending /\ u.starts = ui.starts /\ u.requests = ui.requests
  /\ u.stopCloses = ui.stopCloses /\ u.admissionCloses = ui.admissionCloses
  /\ u.approved = ui.approved /\ u.exited = ui.exited

\* A step of the coordinator or of a dialog only.
LEMMA ApartConsistent ==
  ASSUME IInv, NEW u \in Application, Apart(u), Dialogs(u)
  PROVE  Consistent(u, calls, ctl.starter)
<1>1. \A d : HasPendingSessionStart(u, d) <=> HasPendingSessionStart(ui, d)
  BY PendingAlike DEF Apart
<1> QED BY <1>1 DEF IInv, Apart, Consistent, Tracked, TrackedOne, Admitted

LEMMA ApartKeeps ==
  ASSUME IInv, NEW u \in Application, Apart(u), Dialogs(u), ui' = u, GateFollows(u),
         UNCHANGED <<ctl, unsent, events, calls>>,
         u.shutdown.phase \in Decided => ui.shutdown.phase \in Decided \/ gate.outstanding = 0
  PROVE  IInv' /\ Promised
<1>1. Consistent(u, calls, ctl.starter)
  BY ApartConsistent
<1>2. IInv'
  BY <1>1, UISide DEF IInv, Types, Apart
<1>3. Promised
  BY UIPromised DEF Apart
<1> QED BY <1>2, <1>3

\* The request of a close, from a state like the present one.
LEMMA RequestStep ==
  ASSUME IInv, NEW u, Consistent(u, calls', ctl.starter), NEW d \in Documents, NEW dialog,
         u.requests = ui.requests, u.open = ui.open, u.unopened = ui.unopened, u.exited = ui.exited,
         ~ui.exited, u.shutdown.phase = ui.shutdown.phase,
         Starting(calls', u.starts, u.requests, ctl.starter),
         calls' \subseteq CallType, IsFiniteSet(calls'), Shaped(calls'),
         Counted(calls') = Counted(calls), \A c \in calls' : c \in calls,
         Becomes(RequestDocumentClose(u, d, dialog)), UNCHANGED <<ctl, unsent, events>>
  PROVE  IInv' /\ Promised
<1> DEFINE r == RequestDocumentClose(u, d, dialog)
<1>1. ctl \in Control /\ (IsActive(ctl) => ctl.run # 0)
  BY DEF IInv, Types
<1>2. /\ Consistent(r, calls', ctl.starter)
      /\ r.requests = u.requests /\ r.exited = u.exited /\ r.unopened = u.unopened
      /\ \/ r.open = u.open
         \/ r.open = u.open \ {d} /\ ~(IsActive(ctl) /\ ctl.doc = d)
      /\ r.shutdown.phase \in {u.shutdown.phase, "idle"}
      /\ r.starts = u.starts \/ u.shutdown.phase = "closingDocuments"
  BY <1>1, RequestKeeps
<1>3. Becomes(r)
  OBVIOUS
<1> HIDE DEF r
<1>4. ui' = r /\ GateFollows(r)
  BY <1>3, BecomesFollows
<1>5. Starting(calls', r.starts, r.requests, ctl.starter)
  <2>1. CASE r.starts = u.starts
    BY <1>2, <2>1
  <2>2. CASE u.shutdown.phase = "closingDocuments"
    <3>1. \A c \in calls' : c.kind = "start" => c.stage \notin Under
      BY <2>2 DEF IInv, Frozen, Decided, ShutdownPhase, Under
    <3> QED BY <1>2, <3>1 DEF Starting
  <2> QED BY <1>2, <2>1, <2>2
<1>6. r.shutdown.phase \in Decided => ui.shutdown.phase \in Decided
  BY <1>2 DEF Decided
<1>7. IInv'
  BY <1>2, <1>4, <1>5, <1>6, UISide DEF IInv, Types
<1> QED BY <1>2, <1>4, <1>7, UIPromised

\* A goroutine's result is taken from its channel.
LEMMA ResultTaken ==
  ASSUME IInv, NEW c \in calls, c.stage = "result", calls' = calls \ {c}
  PROVE  /\ calls' \subseteq CallType /\ IsFiniteSet(calls') /\ Shaped(calls')
         /\ Counted(calls') = Counted(calls) /\ \A x \in calls' : x \in calls
         /\ Starting(calls', ui.starts, ui.requests, ctl.starter)
         /\ c \in CallType
<1>1. IsFiniteSet(calls') /\ calls' \subseteq CallType /\ c \in CallType
  BY FS_RemoveElement DEF IInv, Types
<1>2. Starting(calls', ui.starts, ui.requests, ctl.starter) /\ Shaped(calls')
  BY DEF IInv, Starting, Shaped
<1> QED BY <1>1, <1>2 DEF Counted

LEMMA OpenDocumentKeeps ==
  ASSUME IInv, NEW d \in Documents, OpenDocument(d)
  PROVE  IInv' /\ Promised
<1> DEFINE sessions == AddSessions(ui.sessions, d)
           u == [ui EXCEPT !.open = ui.open \cup {d}, !.unopened = ui.unopened \ {d},
                           !.sessions = sessions]
<1>1. ui' = u /\ UNCHANGED <<ctl, unsent, events, calls, gate>> /\ d \in ui.unopened /\ ~ui.exited
      /\ ui \in Application
  BY DEF OpenDocument, UserFree, IInv, Consistent
<1>2. Good(sessions, ctl.starter)
      /\ \A s \in Sessions \ Steps(d) : sessions.session[s] = ui.sessions.session[s]
  BY AddGood DEF IInv, Consistent
<1> HIDE DEF sessions
<1>3. u \in Application /\ u.sessions = sessions /\ u.open = ui.open \cup {d}
      /\ u.unopened = ui.unopened \ {d}
      /\ u.closePending = ui.closePending /\ u.starts = ui.starts /\ u.requests = ui.requests
      /\ u.stopCloses = ui.stopCloses /\ u.admissionCloses = ui.admissionCloses
      /\ u.approved = ui.approved /\ u.exited = ui.exited /\ u.user = ui.user /\ u.tick = ui.tick
      /\ u.shutdown = ui.shutdown /\ u.resolving = ui.resolving
  BY <1>1, <1>2 DEF Application, Good
<1> HIDE DEF u
<1>4. \A e : HasPendingSessionStart(u, e) <=> HasPendingSessionStart(ui, e)
  BY <1>3, PendingAlike
<1>5. Tracked(u, calls) /\ Dialogs(u)
  BY <1>3, <1>4 DEF IInv, Consistent, Tracked, TrackedOne, Dialogs
<1>6. Admitted(u)
  <2>1. \A s \in Sessions : ui.starts[s] # 0 => s \notin Steps(d)
    BY <1>1 DEF IInv, Consistent, Admitted, Tracked, Steps
  <2> QED BY <1>2, <1>3, <2>1 DEF IInv, Consistent, Admitted
<1>7. Consistent(u, calls', ctl.starter)
  BY <1>1, <1>2, <1>3, <1>5, <1>6 DEF Consistent
<1>8. IInv'
  BY <1>1, <1>3, <1>7, KeptFollows, UISide DEF IInv, Types
<1>9. Promise!Open(d)
  BY <1>1, <1>3 DEF Promise!Open
<1> QED BY <1>8, <1>9 DEF Promised, Promise!Next

LEMMA ClickCloseKeeps ==
  ASSUME IInv, NEW d \in Documents, ClickClose(d)
  PROVE  IInv' /\ Promised
<1>1. Becomes(RequestDocumentClose(ui, d, "user")) /\ UNCHANGED <<ctl, unsent, events, calls>>
      /\ ~ui.exited
  BY DEF ClickClose, UserFree
<1>2. calls' \subseteq CallType /\ IsFiniteSet(calls') /\ Shaped(calls')
      /\ Consistent(ui, calls', ctl.starter)
      /\ Starting(calls', ui.starts, ui.requests, ctl.starter) /\ Counted(calls') = Counted(calls)
  BY <1>1 DEF IInv, Types
<1> QED BY <1>1, <1>2, RequestStep

LEMMA ClickRunKeeps ==
  ASSUME IInv, NEW s \in Sessions, ClickRun(s)
  PROVE  IInv' /\ Promised
<1> DEFINE d == DocumentOf[s]
           request == ui.requests + 1
           sessions == BeginStart(ui.sessions, s, request)
           starts == [ui.starts EXCEPT ![s] = request]
           u == [ui EXCEPT !.sessions = sessions, !.starts = starts, !.requests = request]
           c == Call("start", s, d, 0, request)
<1>1. /\ ui' = u /\ gate' = Acquire(gate) /\ calls' = calls \cup {c}
      /\ UNCHANGED <<ctl, unsent, events>>
      /\ ui.starts[s] = 0 /\ d \notin ui.closePending /\ d \in ui.open /\ ~gate.closed
      /\ CanBeginStart(ui.sessions, s)
      /\ ui.user = NoDialog /\ ui.tick = NoDialog /\ ~ui.exited
  BY DEF ClickRun, UserFree
<1>2. ui \in Application /\ ui.requests \in Nat /\ request \in Nat /\ request = ui.requests + 1
      /\ request # 0 /\ d \in Documents
  BY SessionsThere DEF IInv, Consistent, Application
<1>3. /\ Good(sessions, ctl.starter) /\ sessions.session[s].starting
      /\ \A t \in Sessions \ {s} : sessions.session[t].starting = ui.sessions.session[t].starting
  BY <1>2, BeginStartGood DEF IInv, Consistent
<1>4. starts \in [Sessions -> Nat] /\ starts[s] = request
      /\ \A t \in Sessions \ {s} : starts[t] = ui.starts[t]
  BY <1>2 DEF Application
<1> HIDE DEF sessions, starts, request
<1>5. u \in Application /\ u.sessions = sessions /\ u.starts = starts /\ u.requests = request
      /\ u.open = ui.open /\ u.unopened = ui.unopened /\ u.closePending = ui.closePending
      /\ u.stopCloses = ui.stopCloses /\ u.admissionCloses = ui.admissionCloses
      /\ u.approved = ui.approved /\ u.exited = ui.exited /\ u.user = ui.user /\ u.tick = ui.tick
      /\ u.shutdown = ui.shutdown /\ u.resolving = ui.resolving
  BY <1>2, <1>3, <1>4 DEF Application, Good
<1>6. c \in CallType /\ c.kind = "start" /\ c.session = s /\ c.doc = d /\ c.run = 0
      /\ c.number = request /\ c.stage = "calling"
  BY <1>2, Bounds DEF Call, CallType, Starts
<1> HIDE DEF u, c
<1>7. ui.shutdown.phase = "idle"
  BY <1>1, <1>2 DEF IInv, Frozen, Active, Application, Coordinator
<1>8. \A e \in Documents \ {d} : HasPendingSessionStart(u, e) <=> HasPendingSessionStart(ui, e)
  BY <1>4, <1>5 DEF HasPendingSessionStart, Steps
<1>9. Tracked(u, calls')
  <2>1. TrackedOne(u, calls', d)
    BY <1>1, <1>2, <1>5 DEF TrackedOne, IInv, Consistent, Tracked
  <2>2. ASSUME NEW e \in Documents \ {d} PROVE TrackedOne(u, calls', e)
    BY <1>1, <1>5, <1>8, <2>2 DEF TrackedOne, IInv, Consistent, Tracked
  <2> QED BY <1>5, <2>1, <2>2 DEF Tracked, IInv, Consistent
<1>10. Admitted(u)
  <2>1. ASSUME NEW t \in Sessions \ {s}, DocumentOf[t] = d, ui.starts[t] # 0 PROVE FALSE
    <3>1. ui.sessions.session[t].starting
      BY <2>1 DEF IInv, Consistent, Admitted
    <3>2. d \in Packages
      BY <2>1, SessionsAssumption
    <3> QED BY <1>1, <2>1, <3>1, <3>2
            DEF CanBeginStart, PackageAdmissionBlocked, Standalone, Steps, Admitting
  <2>2. \A t \in Sessions : u.starts[t] # 0 => DocumentOf[t] \in u.open /\ u.sessions.session[t].starting
    BY <1>1, <1>3, <1>4, <1>5 DEF IInv, Consistent, Admitted
  <2>3. \A t, x \in Sessions :
          DocumentOf[t] = DocumentOf[x] /\ u.starts[t] # 0 /\ u.starts[x] # 0 => t = x
    BY <1>4, <1>5, <2>1 DEF IInv, Consistent, Admitted
  <2> QED BY <2>2, <2>3 DEF Admitted
<1>11. Dialogs(u)
  BY <1>1, <1>5, <1>7, DialogsAre DEF Dialogs
<1>12. Consistent(u, calls', ctl.starter)
  BY <1>3, <1>5, <1>9, <1>10, <1>11 DEF Consistent
<1>13. \A x \in calls : x.kind = "start" =>
         /\ x.session \in Sessions /\ x.doc = DocumentOf[x.session]
         /\ x.number \in 1..ui.requests /\ x.stage # "stopping"
         /\ x.stage \in Under => ui.starts[x.session] = x.number
         /\ x.run # 0 => ctl.starter[x.run] = x.session
  BY DEF IInv, Starting
<1>14. Starting(calls', u.starts, u.requests, ctl.starter)
  <2>1. ASSUME NEW x \in calls', x.kind = "start"
        PROVE  /\ x.session \in Sessions /\ x.doc = DocumentOf[x.session]
               /\ x.number \in 1..u.requests /\ x.stage # "stopping"
               /\ x.stage \in Under => u.starts[x.session] = x.number
               /\ x.run # 0 => ctl.starter[x.run] = x.session
    <3>1. CASE x = c
      BY <1>2, <1>4, <1>5, <1>6, <3>1
    <3>2. CASE x \in calls
      <4>1. x.stage \in Under => x.session # s
        BY <1>1, <1>2, <1>13, <2>1, <3>2
      <4> QED BY <1>2, <1>4, <1>5, <1>13, <2>1, <3>2, <4>1
    <3> QED BY <1>1, <3>1, <3>2
  <2>2. \A x \in calls : x.kind = "start" => x.number # request
    BY <1>2, <1>13
  <2>3. \A x, y \in calls : x.kind = "start" /\ y.kind = "start" /\ x.number = y.number =>
          /\ x.stage \in Under => x = y
          /\ x.stage # "result" /\ y.stage # "result" => x = y
    BY DEF IInv, Starting
  <2>4. \A x, y \in calls' : x.kind = "start" /\ y.kind = "start" /\ x.number = y.number =>
          /\ x.stage \in Under => x = y
          /\ x.stage # "result" /\ y.stage # "result" => x = y
    BY <1>1, <1>6, <2>2, <2>3
  <2> QED BY <2>1, <2>4 DEF Starting
<1>15. Counted(calls') = Counted(calls) \cup {c} /\ c \notin Counted(calls)
  BY <1>1, <1>2, <1>6, <1>13 DEF Counted
<1>16. IsFiniteSet(calls) /\ calls \subseteq CallType /\ gate \in Gate /\ events \in Seq(EventsOf)
  BY DEF IInv, Types
<1>17. IsFiniteSet(calls') /\ calls' \subseteq CallType
  BY <1>1, <1>6, <1>16, FS_AddElement
<1>18. Cardinality(Counted(calls')) = Cardinality(Counted(calls)) + 1
       /\ Cardinality(Counted(calls)) \in Nat
  BY <1>15, <1>16, CountedFinite, FS_AddElement
<1>19. gate' \in Gate /\ gate'.outstanding = gate.outstanding + 1 /\ gate'.closed = gate.closed
  BY <1>1, <1>16 DEF Acquire, Gate
<1>20. Types'
  BY <1>1, <1>17, <1>19 DEF IInv, Types
<1>21. gate'.outstanding = Cardinality(Counted(calls'))
  BY <1>18, <1>19 DEF IInv
<1>22. Frozen(ui'.shutdown, gate', calls') /\ Shaped(calls')
  BY <1>1, <1>5, <1>6, <1>7 DEF Frozen, Active, Decided, IInv, Shaped
<1>23. IInv'
  BY <1>1, <1>12, <1>14, <1>20, <1>21, <1>22 DEF IInv
<1> QED BY <1>1, <1>5, <1>23, UIPromised

\* A goroutine is started that holds no admission.
LEMMA CallAdded ==
  ASSUME IInv, NEW c \in CallType, c.kind # "start", c.kind = "stopClose" => c.run # 0,
         c.kind \in ActionKind => c.session \in Sessions, c.stage = "calling", calls' = calls \cup {c}
  PROVE  /\ calls' \subseteq CallType /\ IsFiniteSet(calls') /\ Shaped(calls')
         /\ Counted(calls') = Counted(calls)
         /\ Starting(calls', ui.starts, ui.requests, ctl.starter)
<1>1. IsFiniteSet(calls') /\ calls' \subseteq CallType
  BY FS_AddElement DEF IInv, Types
<1>2. Starting(calls', ui.starts, ui.requests, ctl.starter) /\ Shaped(calls')
  BY DEF IInv, Starting, Shaped
<1> QED BY <1>1, <1>2 DEF Counted

LEMMA ClickActionKeeps ==
  ASSUME IInv, NEW s \in Sessions, NEW a \in ActionKind, ClickAction(s, a)
  PROVE  IInv' /\ Promised
<1> DEFINE run == ctl.run
           sessions == BeginAction(ui.sessions, s, run)
           actions == [ui.actions EXCEPT ![s] = run]
           acted == ui.acted + 1
           u == [ui EXCEPT !.sessions = sessions, !.actions = actions, !.acted = acted]
           c == Call(a, s, DocumentOf[s], run, 0)
<1>1. /\ ui' = u /\ calls' = calls \cup {c} /\ UNCHANGED <<ctl, unsent, events, gate>>
      /\ ~ui.exited
  BY DEF ClickAction, UserFree
<1>2. ui \in Application /\ acted \in Nat /\ run \in 0..MaxRuns /\ DocumentOf[s] \in Documents
  BY SessionsThere DEF IInv, Types, Control, Consistent, Application
<1>3. Good(sessions, ctl.starter) /\ SameStarting(ui.sessions, sessions)
  BY <1>2, ActionGood DEF IInv, Consistent
<1>4. actions \in [Sessions -> 0..MaxRuns]
  BY <1>2 DEF Application
<1>5. c \in CallType /\ c.kind \in ActionKind /\ c.stage = "calling" /\ c.session = s
  BY <1>2 DEF Call, CallType
<1> HIDE DEF sessions, actions, acted, c
<1>6. u \in Application /\ u.sessions = sessions /\ u.starts = ui.starts /\ u.requests = ui.requests
      /\ u.open = ui.open /\ u.unopened = ui.unopened /\ u.closePending = ui.closePending
      /\ u.stopCloses = ui.stopCloses /\ u.admissionCloses = ui.admissionCloses
      /\ u.approved = ui.approved /\ u.exited = ui.exited /\ u.user = ui.user /\ u.tick = ui.tick
      /\ u.shutdown = ui.shutdown /\ u.resolving = ui.resolving
  BY <1>2, <1>3, <1>4 DEF Application, Good
<1> HIDE DEF u
<1>7. /\ calls' \subseteq CallType /\ IsFiniteSet(calls') /\ Shaped(calls')
      /\ Counted(calls') = Counted(calls)
      /\ Starting(calls', ui.starts, ui.requests, ctl.starter)
  BY <1>1, <1>5, CallAdded DEF ActionKind
<1>8. \A e : HasPendingSessionStart(u, e) <=> HasPendingSessionStart(ui, e)
  BY <1>6, PendingAlike
<1>9. Tracked(u, calls') /\ Dialogs(u)
  BY <1>1, <1>6, <1>8 DEF IInv, Consistent, Tracked, TrackedOne, Dialogs
<1>10. Admitted(u)
  BY <1>3, <1>6 DEF IInv, Consistent, Admitted, SameStarting
<1>11. Consistent(u, calls', ctl.starter)
  BY <1>3, <1>6, <1>9, <1>10 DEF Consistent
<1>12. IInv'
  BY <1>1, <1>6, <1>7, <1>11, KeptFollows, UISide DEF IInv, Types
<1> QED BY <1>1, <1>6, <1>12, UIPromised

LEMMA ClickExitKeeps ==
  ASSUME IInv, ClickExit
  PROVE  IInv' /\ Promised
<1> DEFINE sd == Begin(ui.shutdown, ui.open)
           user == [NoDialog EXCEPT !.kind = "exit"]
           u == [ui EXCEPT !.shutdown = sd, !.user = user]
<1>1. ui' = u /\ gate' = Freeze(gate) /\ UNCHANGED <<ctl, unsent, events, calls>>
      /\ ui.tick = NoDialog /\ ~ui.exited /\ ui.shutdown.next < MaxAttempts /\ ui \in Application
  BY DEF ClickExit, UserFree, IInv, Consistent
<1>2. sd \in Coordinator /\ sd.phase = "confirming"
  <2> DEFINE next == ui.shutdown.next + 1
             open == ui.open
  <2>1. next \in 0..MaxAttempts /\ open \in SUBSET Documents
    BY <1>1, Bounds DEF Application, Coordinator
  <2>2. InitCoordinator \in Coordinator
    BY Bounds DEF InitCoordinator, Coordinator, NoTarget, Target, ShutdownPhase
  <2>3. sd = [InitCoordinator EXCEPT !.phase = "confirming", !.attempt = next, !.next = next,
                                     !.documents = open]
    BY DEF Begin
  <2> HIDE DEF sd, next, open
  <2> QED BY <2>1, <2>2, <2>3 DEF Coordinator, ShutdownPhase
<1>3. user \in DialogType /\ user.kind = "exit"
  BY DialogsAre
<1> HIDE DEF sd, user
<1>4. u \in Application /\ Apart(u) /\ u.shutdown = sd /\ u.user = user /\ u.tick = NoDialog
      /\ u.resolving = ui.resolving
  BY <1>1, <1>2, <1>3 DEF Application, Apart
<1> HIDE DEF u
<1>5. GateFollows(u)
  BY <1>1 DEF GateFollows, Freeze, Gate, IInv, Types
<1>6. Dialogs(u)
  BY <1>1, <1>2, <1>3, <1>4, DialogsAre DEF Dialogs, Apart
<1> QED BY <1>1, <1>2, <1>4, <1>5, <1>6, ApartKeeps DEF Decided

LEMMA AnswerExitKeeps ==
  ASSUME IInv, NEW accepted \in BOOLEAN, AnswerExit(accepted)
  PROVE  IInv' /\ Promised
<1> DEFINE old == ui.shutdown
           sd == ConfirmApplication(old, old.next, accepted)
           u == [ui EXCEPT !.user = NoDialog, !.shutdown = sd]
<1>1. Becomes(u) /\ UNCHANGED <<ctl, unsent, events, calls>> /\ ui.tick = NoDialog
      /\ ui \in Application /\ old \in Coordinator
  BY DEF AnswerExit, IInv, Consistent, Application
<1>2. sd \in Coordinator /\ sd.phase \in {old.phase, "idle", "waitingForRunAdmission"}
      /\ (sd.phase = old.phase => sd = old) /\ (sd # old => old.phase = "confirming")
  BY <1>1, CancelTyped DEF ConfirmApplication, Coordinator, ShutdownPhase
<1> HIDE DEF sd
<1>3. u \in Application /\ Apart(u) /\ u.shutdown = sd /\ u.user = NoDialog /\ u.tick = NoDialog
      /\ u.resolving = ui.resolving
  BY <1>1, <1>2, DialogsAre DEF Application, Apart
<1> HIDE DEF u
<1>4. ui' = u /\ GateFollows(u)
  BY <1>1, BecomesFollows
<1>5. Dialogs(u)
  BY <1>1, <1>2, <1>3, DialogsAre DEF Dialogs, Apart, IInv, Consistent
<1> QED BY <1>1, <1>2, <1>3, <1>4, <1>5, ApartKeeps DEF Decided

LEMMA AnsweredKeeps ==
  ASSUME IInv, NEW dialog \in DialogType, dialog.kind = "close", dialog \in {ui.user, ui.tick},
         NEW u \in Application, Apart(u), Dialogs(u), u.shutdown = ui.shutdown, u.resolving = ui.resolving,
         NEW accepted \in BOOLEAN, Answered(u, dialog, accepted), UNCHANGED <<ctl, unsent, events>>
  PROVE  IInv' /\ Promised
<1> DEFINE d == dialog.doc
           run == dialog.run
           pending == u.closePending \cup {d}
           stops == [u.stopCloses EXCEPT ![d] = run]
           r == [u EXCEPT !.closePending = pending, !.stopCloses = stops]
           c == Call("stopClose", 0, d, run, 0)
<1>1. d \in Documents /\ run # 0 /\ run \in 0..MaxRuns /\ ~HasPendingSessionStart(ui, d)
  BY DEF IInv, Consistent, Dialogs, DialogType
<1>2. CASE ~(accepted /\ d \in u.open \ u.closePending)
  <2>1. Becomes(u) /\ UNCHANGED calls
    BY <1>2 DEF Answered
  <2> QED BY <2>1, BecomesFollows, ApartKeeps
<1>3. CASE accepted /\ d \in u.open \ u.closePending
  <2>1. Becomes(r) /\ calls' = calls \cup {c} /\ d \in u.open /\ d \notin u.closePending
    BY <1>3 DEF Answered
  <2>2. c \in CallType /\ c.kind = "stopClose" /\ c.stage = "calling" /\ c.doc = d /\ c.run = run
    BY <1>1, Bounds DEF Call, CallType, Stops
  <2>3. stops \in Closing /\ pending \in SUBSET Documents /\ stops[d] = run
        /\ \A e \in Documents \ {d} : stops[e] = u.stopCloses[e]
    BY <1>1 DEF Application, Closing
  <2>4. d \in pending /\ u.closePending \subseteq pending /\ \A e \in pending : e = d \/ e \in u.closePending
    OBVIOUS
  <2> HIDE DEF c, stops, pending
  <2>5. /\ r \in Application /\ r.closePending = pending /\ r.stopCloses = stops
        /\ r.sessions = u.sessions /\ r.open = u.open /\ r.unopened = u.unopened
        /\ r.starts = u.starts /\ r.requests = u.requests
        /\ r.admissionCloses = u.admissionCloses /\ r.approved = u.approved /\ r.exited = u.exited
        /\ r.user = u.user /\ r.tick = u.tick /\ r.shutdown = u.shutdown
        /\ r.resolving = u.resolving
    BY <2>3 DEF Application
  <2> HIDE DEF r
  <2>6. /\ calls' \subseteq CallType /\ IsFiniteSet(calls') /\ Shaped(calls')
        /\ Counted(calls') = Counted(calls)
        /\ Starting(calls', ui.starts, ui.requests, ctl.starter)
    BY <1>1, <2>1, <2>2, CallAdded DEF ActionKind
  <2>7. \A e : HasPendingSessionStart(r, e) <=> HasPendingSessionStart(ui, e)
    BY <2>5, PendingAlike DEF Apart
  <2>8. Consistent(u, calls, ctl.starter)
    BY ApartConsistent
  <2>9. \A e : HasPendingSessionStart(r, e) <=> HasPendingSessionStart(u, e)
    BY <2>5, PendingAlike
  <2>10. Tracked(r, calls')
    <3>1. u.admissionCloses[d] = 0
      BY <1>1, <2>1, <2>8 DEF Consistent, Tracked, TrackedOne
    <3>2. TrackedOne(r, calls', d)
      BY <1>1, <2>1, <2>2, <2>3, <2>4, <2>5, <2>7, <2>8, <3>1 DEF Consistent, Tracked, TrackedOne
    <3>3. ASSUME NEW e \in Documents \ {d} PROVE TrackedOne(r, calls', e)
      BY <2>1, <2>3, <2>4, <2>5, <2>8, <2>9, <3>3 DEF Consistent, Tracked, TrackedOne
    <3> QED BY <2>1, <2>4, <2>5, <2>8, <3>2, <3>3 DEF Consistent, Tracked
  <2>11. Admitted(r) /\ Dialogs(r)
    BY <2>5, <2>8, <2>9 DEF Consistent, Admitted, Dialogs
  <2>12. Consistent(r, calls', ctl.starter)
    BY <2>5, <2>8, <2>10, <2>11 DEF Consistent
  <2>13. IInv'
    BY <2>1, <2>5, <2>6, <2>12, BecomesFollows, UISide DEF IInv, Types, Apart
  <2>14. ui' = r
    BY <2>1, BecomesFollows
  <2> QED BY <2>5, <2>13, <2>14, UIPromised DEF Apart
<1> QED BY <1>2, <1>3

LEMMA AnswerCloseKeeps ==
  ASSUME IInv, NEW accepted \in BOOLEAN, AnswerClose(accepted)
  PROVE  IInv' /\ Promised
<1>1. ui \in Application /\ ui.user \in DialogType /\ ui.tick \in DialogType
      /\ UNCHANGED <<ctl, unsent, events>>
  BY DEF IInv, Consistent, Application, AnswerClose
<1>2. CASE ui.tick.kind = "close" /\ Answered([ui EXCEPT !.tick = NoDialog], ui.tick, accepted)
  <2> DEFINE u == [ui EXCEPT !.tick = NoDialog]
  <2>1. u \in Application /\ Apart(u) /\ u.shutdown = ui.shutdown /\ u.user = ui.user
        /\ u.tick = NoDialog /\ u.resolving = ui.resolving
    BY <1>1, DialogsAre DEF Application, Apart
  <2>2. Answered(u, ui.tick, accepted)
    BY <1>2
  <2> HIDE DEF u
  <2>3. Dialogs(u)
    BY <2>1, DialogsAre, PendingAlike DEF Dialogs, IInv, Consistent, Apart
  <2> QED BY <1>1, <1>2, <2>1, <2>2, <2>3, AnsweredKeeps
<1>3. CASE ui.user.kind = "close" /\ Answered([ui EXCEPT !.user = NoDialog], ui.user, accepted)
  <2> DEFINE u == [ui EXCEPT !.user = NoDialog]
  <2>1. u \in Application /\ Apart(u) /\ u.shutdown = ui.shutdown /\ u.tick = ui.tick
        /\ u.user = NoDialog /\ u.resolving = ui.resolving
    BY <1>1, DialogsAre DEF Application, Apart
  <2>2. Answered(u, ui.user, accepted)
    BY <1>3
  <2> HIDE DEF u
  <2>3. Dialogs(u)
    BY <2>1, DialogsAre, PendingAlike DEF Dialogs, IInv, Consistent, Apart
  <2> QED BY <1>1, <1>3, <2>1, <2>2, <2>3, AnsweredKeeps
<1> QED BY <1>2, <1>3 DEF AnswerClose

LEMMA AnswerStopKeeps ==
  ASSUME IInv, NEW accepted \in BOOLEAN, AnswerStop(accepted)
  PROVE  IInv' /\ Promised
<1> DEFINE old == ui.shutdown
           sd == ConfirmStop(old, accepted)
           u == [ui EXCEPT !.tick = NoDialog, !.turn = "idle", !.shutdown = sd]
           c == Call("stopExit", 0, sd.stopTarget.doc, sd.stopTarget.run, sd.attempt)
<1>1. Becomes(u) /\ UNCHANGED <<ctl, unsent, events>>
      /\ calls' = (IF accepted THEN calls \cup {c} ELSE calls)
      /\ ui \in Application /\ old \in Coordinator
      /\ old.phase = "waitingForStopConfirmation" /\ old.stopTarget.doc # 0
  BY DEF AnswerStop, IInv, Consistent, Application, Dialogs
<1>2. sd \in Coordinator
      /\ (accepted => sd.phase = "waitingForStop" /\ sd.stopTarget = old.stopTarget
                      /\ sd.attempt = old.attempt)
      /\ (~accepted => sd.phase = "idle")
  BY <1>1, CancelTyped DEF ConfirmStop, Coordinator, ShutdownPhase
<1>3. accepted => c \in CallType /\ c.kind = "stopExit" /\ c.stage = "calling"
  <2> SUFFICES ASSUME accepted PROVE c \in CallType /\ c.kind = "stopExit" /\ c.stage = "calling"
    OBVIOUS
  <2>1. sd.stopTarget \in Target /\ sd.stopTarget.doc # 0 /\ sd.attempt \in 0..MaxAttempts
    BY <1>1, <1>2 DEF Coordinator
  <2> HIDE DEF sd
  <2>2. sd.stopTarget.doc \in Documents /\ sd.stopTarget.run \in 0..MaxRuns /\ sd.attempt \in Nat
    <3>1. sd.attempt \in Nat
      BY <2>1, Bounds
    <3>2. \A x \in Target : x.doc \in Documents \cup {0} /\ x.run \in 0..MaxRuns
      BY DEF Target
    <3> QED BY <2>1, <3>1, <3>2
  <2> QED BY <2>2 DEF Call, CallType, Stops
<1> HIDE DEF sd, c
<1>4. u \in Application /\ Apart(u) /\ u.shutdown = sd /\ u.user = ui.user /\ u.tick = NoDialog
      /\ u.resolving = ui.resolving
  BY <1>1, <1>2, DialogsAre DEF Application, Apart, Turns
<1> HIDE DEF u
<1>5. ui' = u /\ GateFollows(u)
  BY <1>1, BecomesFollows
<1>6. Dialogs(u)
  BY <1>1, <1>2, <1>4, DialogsAre, PendingAlike DEF Dialogs, Apart, IInv, Consistent
<1>7. old.phase \in Decided
  BY <1>1 DEF Decided, ShutdownPhase
<1>8. CASE ~accepted
  BY <1>1, <1>2, <1>4, <1>5, <1>6, <1>8, ApartKeeps DEF Decided
<1>9. CASE accepted
  <2>1. calls' = calls \cup {c} /\ c \in CallType /\ c.kind = "stopExit" /\ c.stage = "calling"
    BY <1>1, <1>3, <1>9
  <2>2. /\ calls' \subseteq CallType /\ IsFiniteSet(calls') /\ Shaped(calls')
        /\ Counted(calls') = Counted(calls)
        /\ Starting(calls', ui.starts, ui.requests, ctl.starter)
    BY <2>1, CallAdded DEF ActionKind
  <2>3. Consistent(u, calls, ctl.starter)
    BY <1>4, <1>6, ApartConsistent
  <2>4. Consistent(u, calls', ctl.starter)
    BY <2>1, <2>3 DEF Consistent, Tracked, TrackedOne
  <2>5. IInv'
    BY <1>1, <1>4, <1>5, <1>7, <2>2, <2>4, UISide DEF IInv, Types, Apart
  <2> QED BY <1>1, <1>4, <1>5, <2>5, UIPromised DEF Apart
<1> QED BY <1>8, <1>9

-----------------------------------------------------------------------------
(* The timer tick. *)

LEMMA DrainEventKeeps ==
  ASSUME IInv, DrainEvent
  PROVE  IInv' /\ Promised
<1> DEFINE sessions == ApplyEvent(ui.sessions, Head(events))
           resolving == {d \in Documents : ui.admissionCloses[d] # 0}
           u == [ui EXCEPT !.sessions = sessions, !.turn = "events", !.resolving = resolving]
<1>1. ui' = u /\ UNCHANGED <<ctl, unsent, calls, gate>> /\ events' = Tail(events)
      /\ events # <<>> /\ ~ui.exited /\ ui \in Application /\ events \in Seq(EventsOf)
  BY DEF DrainEvent, Ticking, IInv, Types, Consistent
<1>2. Head(events) \in EventsOf /\ events' \in Seq(EventsOf)
  BY <1>1, HeadTailProperties
<1>3. Good(sessions, ctl.starter) /\ SameStarting(ui.sessions, sessions)
  BY <1>2, ApplyEventGood DEF IInv, Consistent
<1>4. resolving \in SUBSET Documents
  OBVIOUS
<1> HIDE DEF sessions, resolving
<1>5. u \in Application /\ u.sessions = sessions /\ u.starts = ui.starts /\ u.requests = ui.requests
      /\ u.open = ui.open /\ u.unopened = ui.unopened /\ u.closePending = ui.closePending
      /\ u.stopCloses = ui.stopCloses /\ u.admissionCloses = ui.admissionCloses
      /\ u.approved = ui.approved /\ u.exited = ui.exited /\ u.user = ui.user /\ u.tick = ui.tick
      /\ u.shutdown = ui.shutdown
  BY <1>1, <1>3, <1>4 DEF Application, Good, Turns
<1> HIDE DEF u
<1>6. \A e : HasPendingSessionStart(u, e) <=> HasPendingSessionStart(ui, e)
  BY <1>5, PendingAlike
<1>7. Tracked(u, calls') /\ Dialogs(u)
  BY <1>1, <1>5, <1>6 DEF IInv, Consistent, Tracked, TrackedOne, Dialogs
<1>8. Admitted(u)
  BY <1>3, <1>5 DEF IInv, Consistent, Admitted, SameStarting
<1>9. Consistent(u, calls', ctl.starter)
  BY <1>3, <1>5, <1>7, <1>8 DEF Consistent
<1>10. IInv'
  BY <1>1, <1>2, <1>5, <1>9, KeptFollows, UISide DEF IInv, Types
<1> QED BY <1>1, <1>5, <1>10, UIPromised

LEMMA ResolveKeeps ==
  ASSUME IInv, NEW d \in Documents, ResolveAdmissionClose(d)
  PROVE  IInv' /\ Promised
<1> DEFINE run == ui.admissionCloses[d]
           resolving == ui.resolving \ {d}
           admissions == [ui.admissionCloses EXCEPT ![d] = 0]
           pending == ui.closePending \ {d}
           left == [ui EXCEPT !.resolving = resolving]
           dropped == [ui EXCEPT !.resolving = resolving, !.admissionCloses = admissions]
           again == [ui EXCEPT !.resolving = resolving, !.admissionCloses = admissions,
                               !.closePending = pending]
<1>1. /\ d \in ui.resolving /\ ui.tick = NoDialog /\ UNCHANGED <<ctl, unsent, events, calls>>
      /\ IF run = 0 \/ HasPendingSessionStart(ui, d) THEN Becomes(left)
         ELSE IF d \notin ui.open \/ d \notin ui.closePending THEN Becomes(dropped)
         ELSE Becomes(left) \/ Becomes(RequestDocumentClose(again, d, "tick"))
  BY DEF ResolveAdmissionClose
<1>2. ui \in Application /\ ~ui.exited
  BY <1>1 DEF IInv, Consistent, Dialogs
<1>3. run # 0 => d \in ui.closePending /\ d \in ui.open /\ ~HasPendingSessionStart(ui, d)
                 /\ ui.stopCloses[d] = 0
  BY DEF IInv, Consistent, Tracked, TrackedOne
<1>4. resolving \in SUBSET Documents /\ pending \in SUBSET Documents /\ admissions \in Closing
      /\ admissions[d] = 0 /\ \A e \in Documents \ {d} : admissions[e] = ui.admissionCloses[e]
  BY <1>2, Bounds DEF Application, Closing
<1>5. CASE Becomes(left)
  <2> HIDE DEF resolving
  <2>1. left \in Application /\ Apart(left) /\ left.shutdown = ui.shutdown /\ left.user = ui.user
        /\ left.tick = ui.tick
    BY <1>2, <1>4 DEF Application, Apart
  <2> HIDE DEF left
  <2>2. Dialogs(left)
    BY <1>2, <2>1, PendingAlike DEF Dialogs, Apart, IInv, Consistent
  <2> QED BY <1>1, <1>5, <2>1, <2>2, BecomesFollows, ApartKeeps
<1>6. CASE run # 0 /\ Becomes(RequestDocumentClose(again, d, "tick"))
  <2>1. d \notin pending /\ pending \subseteq ui.closePending
        /\ \A e \in Documents \ {d} : e \in pending <=> e \in ui.closePending
    OBVIOUS
  <2> HIDE DEF resolving, pending, admissions
  <2>2. /\ again \in Application /\ again.closePending = pending /\ again.admissionCloses = admissions
        /\ again.sessions = ui.sessions /\ again.open = ui.open /\ again.unopened = ui.unopened
        /\ again.starts = ui.starts /\ again.requests = ui.requests
        /\ again.stopCloses = ui.stopCloses /\ again.approved = ui.approved
        /\ again.exited = ui.exited /\ again.user = ui.user /\ again.tick = ui.tick
        /\ again.shutdown = ui.shutdown
    BY <1>2, <1>4 DEF Application
  <2>3. Becomes(RequestDocumentClose(again, d, "tick"))
    BY <1>6
  <2> HIDE DEF again
  <2>4. \A e : HasPendingSessionStart(again, e) <=> HasPendingSessionStart(ui, e)
    BY <2>2, PendingAlike
  <2>5. Tracked(again, calls)
    <3>1. TrackedOne(again, calls, d)
      BY <1>4, <1>6, <1>3, <2>1, <2>2 DEF IInv, Consistent, Tracked, TrackedOne
    <3>2. ASSUME NEW e \in Documents \ {d} PROVE TrackedOne(again, calls, e)
      BY <1>4, <2>1, <2>2, <2>4, <3>2 DEF IInv, Consistent, Tracked, TrackedOne
    <3> QED BY <2>1, <2>2, <3>1, <3>2 DEF IInv, Consistent, Tracked
  <2>6. Admitted(again) /\ Dialogs(again)
    BY <1>2, <2>2, <2>4 DEF IInv, Consistent, Admitted, Dialogs
  <2>7. Consistent(again, calls', ctl.starter)
    BY <1>1, <2>2, <2>5, <2>6 DEF IInv, Consistent
  <2>8. calls' \subseteq CallType /\ IsFiniteSet(calls') /\ Shaped(calls')
        /\ Starting(calls', again.starts, again.requests, ctl.starter)
        /\ Counted(calls') = Counted(calls)
    BY <1>1, <2>2 DEF IInv, Types
  <2> QED BY <1>1, <1>2, <2>3, <2>2, <2>7, <2>8, RequestStep
<1> QED BY <1>1, <1>5, <1>6, <1>3

LEMMA TurnKeeps ==
  ASSUME IInv, EventsDrained \/ ResultsDrained
  PROVE  IInv' /\ Promised
<1>1. PICK turn \in Turns : ui' = [ui EXCEPT !.turn = turn]
  BY DEF EventsDrained, ResultsDrained, Turns
<1> DEFINE u == [ui EXCEPT !.turn = turn]
<1>2. UNCHANGED <<ctl, unsent, events, calls, gate>> /\ ui \in Application
  BY DEF EventsDrained, ResultsDrained, IInv, Consistent
<1>3. u \in Application /\ Apart(u) /\ u.shutdown = ui.shutdown /\ u.user = ui.user
      /\ u.tick = ui.tick /\ u.resolving = ui.resolving /\ ui' = u
  BY <1>1, <1>2 DEF Application, Apart
<1> HIDE DEF u
<1>4. Dialogs(u)
  BY <1>3, PendingAlike DEF Dialogs, Apart, IInv, Consistent
<1> QED BY <1>2, <1>3, <1>4, KeptFollows, ApartKeeps

LEMMA DrainStartKeeps ==
  ASSUME IInv, NEW c \in calls, DrainStart(c)
  PROVE  IInv' /\ Promised
<1> DEFINE s == c.session
           d == c.doc
           ok == c.outcome = "ok"
           starts == [ui.starts EXCEPT ![s] = 0]
           sessions == AssociateRun(ui.sessions, s, c.run, ok)
           taken == [ui EXCEPT !.starts = starts, !.turn = "starts", !.sessions = sessions]
           pending == ui.closePending \ {d}
           again == [ui EXCEPT !.starts = starts, !.turn = "starts", !.sessions = sessions,
                               !.closePending = pending]
           admissions == [ui.admissionCloses EXCEPT ![d] = c.run]
           resolving == {e \in Documents : admissions[e] # 0}
           waiting == [ui EXCEPT !.starts = starts, !.turn = "starts", !.sessions = sessions,
                                 !.admissionCloses = admissions, !.resolving = resolving]
<1>1. /\ c.kind = "start" /\ c.stage = "result" /\ calls' = calls \ {c} /\ ~ui.exited
      /\ UNCHANGED <<ctl, unsent, events>> /\ ui \in Application
  BY DEF DrainStart, Results, Starts, Ticking, IInv, Consistent
<1>2. /\ calls' \subseteq CallType /\ IsFiniteSet(calls') /\ Shaped(calls')
      /\ Counted(calls') = Counted(calls) /\ \A x \in calls' : x \in calls
      /\ Starting(calls', ui.starts, ui.requests, ctl.starter)
      /\ c \in CallType
  BY <1>1, ResultTaken
<1>3. s \in Sessions /\ d = DocumentOf[s] /\ d \in Documents /\ c.run \in 0..MaxRuns /\ ok \in BOOLEAN
      /\ (c.run # 0 => ctl.starter[c.run] = s) /\ c.number # 0 /\ c.number \in Nat
      /\ ui.requests \in Nat
  <2>1. s \in Sessions /\ d = DocumentOf[s] /\ (c.run # 0 => ctl.starter[c.run] = s)
        /\ c.number \in 1..ui.requests
    BY <1>1 DEF IInv, Starting
  <2>2. c.run \in 0..MaxRuns
    BY <1>2 DEF CallType
  <2>3. ui.requests \in Nat
    BY <1>1 DEF Application
  <2> QED BY <2>1, <2>2, <2>3, SessionsThere
<1>4. CASE ui.starts[s] # c.number
  <2>1. UNCHANGED <<ui, gate>>
    BY <1>4 DEF DrainStart
  <2>2. Consistent(ui, calls', ctl.starter)
    BY <1>1 DEF IInv, Consistent, Tracked, TrackedOne
  <2>3. IInv'
    BY <1>1, <1>2, <2>1, <2>2, KeptFollows, UISide DEF IInv, Types
  <2> QED BY <1>1, <2>1, <2>3, UIPromised
<1>5. CASE ui.starts[s] = c.number
  <2>1. Good(sessions, ctl.starter)
        /\ \A t \in Sessions \ {s} : sessions.session[t].starting = ui.sessions.session[t].starting
    <3>1. Good(ui.sessions, ctl.starter)
      BY DEF IInv, Consistent
    <3>2. s \in Sessions /\ c.run \in 0..MaxRuns /\ ok \in BOOLEAN
          /\ (ok /\ c.run # 0 => ctl.starter[c.run] = s)
      BY <1>3
    <3> HIDE DEF s, ok
    <3> QED BY <3>1, <3>2, AssociateGood
  <2>2. starts \in [Sessions -> Nat] /\ starts[s] = 0
        /\ \A t \in Sessions \ {s} : starts[t] = ui.starts[t]
    BY <1>1, <1>3 DEF Application
  <2>3. Starting(calls', starts, ui.requests, ctl.starter)
    <3>1. ASSUME NEW x \in calls', x.kind = "start", x.stage \in Under PROVE x.session # s
      <4>1. x \in calls /\ x # c
        BY <1>1, <3>1
      <4>2. x.session = s => x.number = c.number
        BY <1>5, <3>1, <4>1 DEF IInv, Starting
      <4> QED BY <1>1, <3>1, <4>1, <4>2 DEF IInv, Starting
    <3> QED BY <1>2, <2>2, <3>1 DEF Starting
  <2>4. Steps(d) \subseteq Sessions /\ s \in Steps(d) /\ HasPendingSessionStart(ui, d)
    BY <1>3, <1>5, SessionsThere DEF HasPendingSessionStart, Steps
  <2>5. ui.stopCloses[d] = 0 /\ ui.admissionCloses[d] = 0
    BY <1>3, <2>4 DEF IInv, Consistent, Tracked, TrackedOne
  <2>6. \A t \in Sessions \ {s} : DocumentOf[t] = d => ui.starts[t] = 0
    BY <1>3, <1>5 DEF IInv, Consistent, Admitted
  <2>7. CASE ui' = taken /\ UNCHANGED gate /\ d \notin ui.closePending
    <3> HIDE DEF starts, sessions
    <3>1. /\ taken \in Application /\ taken.starts = starts /\ taken.sessions = sessions
          /\ taken.open = ui.open /\ taken.unopened = ui.unopened
          /\ taken.closePending = ui.closePending /\ taken.requests = ui.requests
          /\ taken.stopCloses = ui.stopCloses /\ taken.admissionCloses = ui.admissionCloses
          /\ taken.approved = ui.approved /\ taken.exited = ui.exited
          /\ taken.user = ui.user /\ taken.tick = ui.tick /\ taken.shutdown = ui.shutdown
          /\ taken.resolving = ui.resolving
      BY <1>1, <2>1, <2>2 DEF Application, Good, Turns
    <3>2. ui' = taken
      BY <2>7
    <3> HIDE DEF taken
    <3>3. \A e \in Documents \ {d} : HasPendingSessionStart(taken, e) <=> HasPendingSessionStart(ui, e)
      BY <1>3, <2>2, <3>1 DEF HasPendingSessionStart, Steps
    <3>4. ~HasPendingSessionStart(taken, d)
      BY <2>2, <2>6, <3>1 DEF HasPendingSessionStart, Steps
    <3>5. Tracked(taken, calls')
      <4>1. TrackedOne(taken, calls', d)
        BY <1>3, <2>5, <2>7, <3>1 DEF IInv, Consistent, Tracked, TrackedOne
      <4>2. ASSUME NEW e \in Documents \ {d} PROVE TrackedOne(taken, calls', e)
        BY <1>1, <3>1, <3>3, <4>2 DEF IInv, Consistent, Tracked, TrackedOne
      <4> QED BY <3>1, <4>1, <4>2 DEF IInv, Consistent, Tracked
    <3>6. Admitted(taken)
      BY <2>1, <2>2, <3>1 DEF IInv, Consistent, Admitted
    <3>7. Dialogs(taken)
      <4>1. \A e : HasPendingSessionStart(taken, e) => HasPendingSessionStart(ui, e)
        BY <2>2, <3>1 DEF HasPendingSessionStart, Steps
      <4> QED BY <3>1, <4>1 DEF IInv, Consistent, Dialogs
    <3>8. Consistent(taken, calls', ctl.starter)
      BY <2>1, <3>1, <3>5, <3>6, <3>7 DEF Consistent
    <3>9. IInv'
      BY <1>1, <1>2, <2>3, <2>7, <3>1, <3>2, <3>8, KeptFollows, UISide DEF IInv, Types
    <3> QED BY <1>1, <3>1, <3>2, <3>9, UIPromised
  <2>8. CASE Becomes(RequestDocumentClose(again, d, "tick"))
    <3>1. d \notin pending /\ pending \subseteq ui.closePending /\ pending \in SUBSET Documents
          /\ \A e \in Documents \ {d} : e \in pending <=> e \in ui.closePending
      BY <1>1 DEF Application
    <3> HIDE DEF starts, sessions, pending
    <3>2. /\ again \in Application /\ again.starts = starts /\ again.sessions = sessions
          /\ again.open = ui.open /\ again.unopened = ui.unopened
          /\ again.closePending = pending /\ again.requests = ui.requests
          /\ again.stopCloses = ui.stopCloses /\ again.admissionCloses = ui.admissionCloses
          /\ again.approved = ui.approved /\ again.exited = ui.exited
          /\ again.user = ui.user /\ again.tick = ui.tick /\ again.shutdown = ui.shutdown
          /\ again.resolving = ui.resolving
      BY <1>1, <2>1, <2>2, <3>1 DEF Application, Good, Turns
    <3>3. Becomes(RequestDocumentClose(again, d, "tick"))
      BY <2>8
    <3> HIDE DEF again
    <3>4. \A e \in Documents \ {d} : HasPendingSessionStart(again, e) <=> HasPendingSessionStart(ui, e)
      BY <1>3, <2>2, <3>2 DEF HasPendingSessionStart, Steps
    <3>5. Tracked(again, calls')
      <4>1. TrackedOne(again, calls', d)
        BY <1>3, <2>5, <3>1, <3>2 DEF IInv, Consistent, Tracked, TrackedOne
      <4>2. ASSUME NEW e \in Documents \ {d} PROVE TrackedOne(again, calls', e)
        BY <1>1, <3>1, <3>2, <3>4, <4>2 DEF IInv, Consistent, Tracked, TrackedOne
      <4> QED BY <3>1, <3>2, <4>1, <4>2 DEF IInv, Consistent, Tracked
    <3>6. Admitted(again)
      BY <2>1, <2>2, <3>2 DEF IInv, Consistent, Admitted
    <3>7. Dialogs(again)
      <4>1. \A e : HasPendingSessionStart(again, e) => HasPendingSessionStart(ui, e)
        BY <2>2, <3>2 DEF HasPendingSessionStart, Steps
      <4> QED BY <3>2, <4>1 DEF IInv, Consistent, Dialogs
    <3>8. Consistent(again, calls', ctl.starter)
      BY <2>1, <3>2, <3>5, <3>6, <3>7 DEF Consistent
    <3> QED BY <1>1, <1>2, <1>3, <2>3, <3>2, <3>3, <3>8, RequestStep
  <2>9. CASE ui' = waiting /\ UNCHANGED gate /\ d \in ui.closePending /\ c.run # 0
    <3>1. admissions \in Closing /\ admissions[d] = c.run /\ resolving \in SUBSET Documents
          /\ \A e \in Documents \ {d} : admissions[e] = ui.admissionCloses[e]
      BY <1>1, <1>3 DEF Application, Closing
    <3> HIDE DEF starts, sessions, admissions, resolving
    <3>2. /\ waiting \in Application /\ waiting.starts = starts /\ waiting.sessions = sessions
          /\ waiting.open = ui.open /\ waiting.unopened = ui.unopened
          /\ waiting.closePending = ui.closePending /\ waiting.requests = ui.requests
          /\ waiting.stopCloses = ui.stopCloses /\ waiting.admissionCloses = admissions
          /\ waiting.approved = ui.approved /\ waiting.exited = ui.exited
          /\ waiting.user = ui.user /\ waiting.tick = ui.tick /\ waiting.shutdown = ui.shutdown
      BY <1>1, <2>1, <2>2, <3>1 DEF Application, Good, Turns
    <3>3. ui' = waiting
      BY <2>9
    <3> HIDE DEF waiting
    <3>4. \A e \in Documents \ {d} : HasPendingSessionStart(waiting, e) <=> HasPendingSessionStart(ui, e)
      BY <1>3, <2>2, <3>2 DEF HasPendingSessionStart, Steps
    <3>5. ~HasPendingSessionStart(waiting, d)
      BY <2>2, <2>6, <3>2 DEF HasPendingSessionStart, Steps
    <3>6. Tracked(waiting, calls')
      <4>1. TrackedOne(waiting, calls', d)
        BY <1>3, <2>5, <2>9, <3>1, <3>2, <3>5 DEF IInv, Consistent, Tracked, TrackedOne
      <4>2. ASSUME NEW e \in Documents \ {d} PROVE TrackedOne(waiting, calls', e)
        BY <1>1, <3>1, <3>2, <3>4, <4>2 DEF IInv, Consistent, Tracked, TrackedOne
      <4> QED BY <3>2, <4>1, <4>2 DEF IInv, Consistent, Tracked
    <3>7. Admitted(waiting)
      BY <2>1, <2>2, <3>2 DEF IInv, Consistent, Admitted
    <3>8. Dialogs(waiting)
      <4>1. \A e : HasPendingSessionStart(waiting, e) => HasPendingSessionStart(ui, e)
        BY <2>2, <3>2 DEF HasPendingSessionStart, Steps
      <4> QED BY <1>1, <3>2, <4>1 DEF IInv, Consistent, Dialogs
    <3>9. Consistent(waiting, calls', ctl.starter)
      BY <2>1, <3>2, <3>6, <3>7, <3>8 DEF Consistent
    <3>10. IInv'
      BY <1>1, <1>2, <2>3, <2>9, <3>2, <3>3, <3>9, KeptFollows, UISide DEF IInv, Types
    <3> QED BY <1>1, <3>2, <3>3, <3>10, UIPromised
  <2>10. \/ ui' = taken /\ UNCHANGED gate /\ d \notin ui.closePending
         \/ Becomes(RequestDocumentClose(again, d, "tick"))
         \/ ui' = waiting /\ UNCHANGED gate /\ d \in ui.closePending /\ c.run # 0
    <3> DEFINE deferred == DeferredClose(d \in ui.closePending, c.run, ok, FALSE)
    <3>1. deferred = IF d \notin ui.closePending THEN "none"
                     ELSE IF ~ok \/ c.run = 0 THEN "retry" ELSE "wait"
      BY DEF DeferredClose
    <3>2. CASE d \notin ui.closePending
      BY <1>1, <1>5, <3>1, <3>2 DEF DrainStart
    <3>3. CASE d \in ui.closePending /\ (~ok \/ c.run = 0)
      BY <1>1, <1>5, <3>1, <3>3 DEF DrainStart
    <3>4. CASE d \in ui.closePending /\ ok /\ c.run # 0
      BY <1>1, <1>5, <3>1, <3>4 DEF DrainStart
    <3> QED BY <3>2, <3>3, <3>4
  <2> QED BY <2>7, <2>8, <2>9, <2>10
<1> QED BY <1>4, <1>5

LEMMA DrainActionKeeps ==
  ASSUME IInv, NEW c \in calls, DrainAction(c)
  PROVE  IInv' /\ Promised
<1> DEFINE s == c.session
           ok == c.outcome = "ok"
           sessions == IF ui.actions[s] # c.run THEN ui.sessions
                       ELSE FinishAction(ui.sessions, s, c.run, ok)
           actions == IF ui.actions[s] # c.run THEN ui.actions ELSE [ui.actions EXCEPT ![s] = 0]
           u == [ui EXCEPT !.turn = "actions", !.actions = actions, !.sessions = sessions]
<1>1. /\ c.kind \in ActionKind /\ c.stage = "result" /\ calls' = calls \ {c} /\ ~ui.exited
      /\ UNCHANGED <<ctl, unsent, events, gate>> /\ ui \in Application
  BY DEF DrainAction, Results, Ticking, IInv, Consistent
<1>2. ui' = u
  BY <1>1 DEF DrainAction, Application
<1>3. /\ calls' \subseteq CallType /\ IsFiniteSet(calls') /\ Shaped(calls')
      /\ Counted(calls') = Counted(calls) /\ \A x \in calls' : x \in calls
      /\ Starting(calls', ui.starts, ui.requests, ctl.starter)
      /\ c \in CallType
  BY <1>1, ResultTaken
<1>4. Good(sessions, ctl.starter) /\ SameStarting(ui.sessions, sessions)
  <2>1. Good(ui.sessions, ctl.starter)
    BY DEF IInv, Consistent
  <2>2. c.run \in 0..MaxRuns /\ s \in Sessions /\ ok \in BOOLEAN
    BY <1>1, <1>3 DEF CallType, IInv, Shaped
  <2> HIDE DEF s, ok
  <2> QED BY <2>1, <2>2, ActionGood DEF SameStarting
<1>5. actions \in [Sessions -> 0..MaxRuns]
  BY <1>1, Bounds DEF Application
<1> HIDE DEF sessions, actions
<1>6. u \in Application /\ u.sessions = sessions /\ u.starts = ui.starts /\ u.requests = ui.requests
      /\ u.open = ui.open /\ u.unopened = ui.unopened /\ u.closePending = ui.closePending
      /\ u.stopCloses = ui.stopCloses /\ u.admissionCloses = ui.admissionCloses
      /\ u.approved = ui.approved /\ u.exited = ui.exited /\ u.user = ui.user /\ u.tick = ui.tick
      /\ u.shutdown = ui.shutdown /\ u.resolving = ui.resolving
  BY <1>1, <1>4, <1>5 DEF Application, Good, Turns
<1> HIDE DEF u
<1>7. \A e : HasPendingSessionStart(u, e) <=> HasPendingSessionStart(ui, e)
  BY <1>6, PendingAlike
<1>8. Tracked(u, calls') /\ Dialogs(u)
  BY <1>1, <1>6, <1>7 DEF IInv, Consistent, Tracked, TrackedOne, Dialogs, ActionKind
<1>9. Admitted(u)
  BY <1>4, <1>6 DEF IInv, Consistent, Admitted, SameStarting
<1>10. Consistent(u, calls', ctl.starter)
  BY <1>4, <1>6, <1>8, <1>9 DEF Consistent
<1>11. IInv'
  BY <1>1, <1>2, <1>3, <1>6, <1>10, KeptFollows, UISide DEF IInv, Types
<1> QED BY <1>1, <1>2, <1>6, <1>11, UIPromised

LEMMA DrainCloseKeeps ==
  ASSUME IInv, NEW c \in calls, DrainClose(c)
  PROVE  IInv' /\ Promised
<1> DEFINE d == c.doc
           run == c.run
           sd == ui.shutdown
           stops == [ui.stopCloses EXCEPT ![d] = 0]
           pending == ui.closePending \ {d}
           approved == [ui.approved EXCEPT ![d] = run]
           turned == [ui EXCEPT !.turn = "closes"]
           Released(next) == [ui EXCEPT !.turn = "closes", !.stopCloses = stops,
                                        !.closePending = pending, !.shutdown = next]
           granted == [ui EXCEPT !.turn = "closes", !.stopCloses = stops, !.approved = approved]
           asked == RequestDocumentClose(granted, d, "tick")
           disposition == ClassifyStop(c.outcome = "ok", d, run, StateOf(ctl), Active(sd))
<1>1. /\ c.kind = "stopClose" /\ c.stage = "result" /\ calls' = calls \ {c} /\ ~ui.exited
      /\ UNCHANGED <<ctl, unsent, events>> /\ ui \in Application
  BY DEF DrainClose, Results, Ticking, IInv, Consistent
<1>2. /\ calls' \subseteq CallType /\ IsFiniteSet(calls') /\ Shaped(calls')
      /\ Counted(calls') = Counted(calls) /\ \A x \in calls' : x \in calls
      /\ Starting(calls', ui.starts, ui.requests, ctl.starter)
      /\ c \in CallType
  BY <1>1, ResultTaken
<1>3. d \in Documents /\ run \in 0..MaxRuns /\ run # 0
  BY <1>1, <1>2 DEF CallType, IInv, Shaped
<1>4. CASE ui.stopCloses[d] # run
  <2>1. Becomes(turned)
    BY <1>4 DEF DrainClose
  <2>2. turned \in Application /\ Apart(turned) /\ turned.shutdown = ui.shutdown
        /\ turned.user = ui.user /\ turned.tick = ui.tick /\ turned.resolving = ui.resolving
    BY <1>1 DEF Application, Apart, Turns
  <2> HIDE DEF turned
  <2>3. Dialogs(turned)
    BY <2>2, PendingAlike DEF Dialogs, Apart, IInv, Consistent
  <2>4. Consistent(turned, calls, ctl.starter)
    BY <2>2, <2>3, ApartConsistent
  <2>5. Tracked(turned, calls')
    <3>1. ASSUME NEW e \in Documents PROVE TrackedOne(turned, calls', e)
      <4>1. c.doc = e => c.run # turned.stopCloses[e]
        BY <1>4, <2>2 DEF Apart
      <4> QED BY <1>1, <2>4, <4>1 DEF Consistent, Tracked, TrackedOne
    <3> QED BY <2>4, <3>1 DEF Consistent, Tracked
  <2>6. Consistent(turned, calls', ctl.starter)
    BY <2>4, <2>5 DEF Consistent
  <2>7. ui' = turned /\ GateFollows(turned)
    BY <2>1, BecomesFollows
  <2>8. IInv'
    BY <1>1, <1>2, <2>2, <2>6, <2>7, UISide DEF IInv, Types, Apart
  <2> QED BY <1>1, <2>2, <2>7, <2>8, UIPromised DEF Apart
<1>5. CASE ui.stopCloses[d] = run
  <2>1. /\ d \in ui.closePending /\ d \in ui.open /\ ~HasPendingSessionStart(ui, d)
        /\ ui.admissionCloses[d] = 0 /\ ui.approved[d] = 0
    BY <1>3, <1>5 DEF IInv, Consistent, Tracked, TrackedOne
  <2>2. sd \in Coordinator
    BY <1>1 DEF Application
  <2>3. stops \in Closing /\ stops[d] = 0 /\ pending \in SUBSET Documents
        /\ \A e \in Documents \ {d} : stops[e] = ui.stopCloses[e]
    BY <1>1, <1>3, Bounds DEF Application, Closing
  <2>4. approved \in Closing /\ approved[d] = run
        /\ \A e \in Documents \ {d} : approved[e] = ui.approved[e]
    BY <1>1, <1>3 DEF Application, Closing
  <2>5. d \notin pending /\ pending \subseteq ui.closePending
        /\ \A e \in Documents \ {d} : e \in pending <=> e \in ui.closePending
    OBVIOUS
  <2>6. ASSUME NEW next, GivesUp(sd, next), Becomes(Released(next)) PROVE IInv' /\ Promised
    <3> DEFINE r == Released(next)
    <3>1. next \in Coordinator
      BY <2>6 DEF GivesUp
    <3> HIDE DEF stops, pending
    <3>2. /\ r \in Application /\ r.stopCloses = stops /\ r.closePending = pending
          /\ r.shutdown = next /\ r.sessions = ui.sessions /\ r.open = ui.open
          /\ r.unopened = ui.unopened /\ r.starts = ui.starts /\ r.requests = ui.requests
          /\ r.admissionCloses = ui.admissionCloses /\ r.approved = ui.approved
          /\ r.exited = ui.exited /\ r.user = ui.user /\ r.tick = ui.tick
          /\ r.resolving = ui.resolving
      BY <1>1, <2>3, <3>1 DEF Application, Turns
    <3>3. Becomes(r)
      BY <2>6
    <3> HIDE DEF r
    <3>4. ui' = r /\ GateFollows(r)
      BY <3>3, BecomesFollows
    <3>5. \A e : HasPendingSessionStart(r, e) <=> HasPendingSessionStart(ui, e)
      BY <3>2, PendingAlike
    <3>6. Tracked(r, calls')
      <4>1. TrackedOne(r, calls', d)
        BY <2>1, <2>3, <2>5, <3>2 DEF TrackedOne
      <4>2. ASSUME NEW e \in Documents \ {d} PROVE TrackedOne(r, calls', e)
        BY <1>1, <2>3, <2>5, <3>2, <3>5, <4>2 DEF IInv, Consistent, Tracked, TrackedOne
      <4> QED BY <2>5, <3>2, <4>1, <4>2 DEF IInv, Consistent, Tracked
    <3>7. Dialogs(r)
      <4>1. ui.tick = NoDialog
        BY DEF DrainClose, Ticking
      <4> QED BY <1>1, <2>6, <3>2, <3>5, <4>1, DialogsAre DEF IInv, Consistent, Dialogs, GivesUp
    <3>8. Admitted(r)
      BY <3>2 DEF IInv, Consistent, Admitted
    <3>9. Consistent(r, calls', ctl.starter)
      BY <3>2, <3>6, <3>7, <3>8 DEF IInv, Consistent
    <3>10. r.shutdown.phase \in Decided => ui.shutdown.phase \in Decided
      BY <2>6, <3>2 DEF GivesUp, Decided
    <3>11. IInv'
      BY <1>1, <1>2, <3>2, <3>4, <3>9, <3>10, UISide DEF IInv, Types
    <3> QED BY <1>1, <3>2, <3>4, <3>11, UIPromised
  <2>7. CASE disposition = "invalid"
    <3> DEFINE next == Cancel(sd, sd.attempt)
    <3>1. GivesUp(sd, next)
      BY <1>3, <2>2, ClosureTyped
    <3>2. Becomes(Released(next))
      BY <1>1, <1>5, <2>7 DEF DrainClose, Application
    <3> QED BY <2>6, <3>1, <3>2
  <2>8. CASE disposition = "transfer"
    <3>1. GivesUp(sd, sd)
      BY <2>2 DEF GivesUp
    <3>2. [ui.approved EXCEPT ![d] = 0] = ui.approved
      BY <1>1, <1>3, <2>1 DEF Application, Closing
    <3>3. Becomes(Released(sd))
      BY ZenonT(60), <1>1, <1>5, <2>8, <3>2 DEF DrainClose, Application
    <3> QED BY <2>6, <3>1, <3>3
  <2>9. CASE disposition = "close"
    <3>1. ~Active(sd) /\ ctl.status = "stopped" /\ ~IsActive(ctl) /\ ~IsActive(StateOf(ctl))
      BY <2>9 DEF ClassifyStop, StateOf, IsActive, ActiveStatus
    <3>2. Becomes(IF d \notin asked.open THEN asked
                  ELSE [asked EXCEPT !.approved[d] = 0, !.closePending = asked.closePending \ {d}])
      BY <1>1, <1>5, <2>9 DEF DrainClose
    <3>3. /\ granted \in Application /\ granted.stopCloses = stops /\ granted.approved = approved
          /\ granted.shutdown = sd /\ granted.closePending = ui.closePending
          /\ granted.sessions = ui.sessions /\ granted.open = ui.open
          /\ granted.unopened = ui.unopened /\ granted.starts = ui.starts
          /\ granted.requests = ui.requests
          /\ granted.admissionCloses = ui.admissionCloses
          /\ granted.exited = ui.exited /\ granted.user = ui.user /\ granted.tick = ui.tick
          /\ granted.resolving = ui.resolving
      <4> HIDE DEF stops, approved
      <4> QED BY <1>1, <2>3, <2>4 DEF Application, Turns
    <3> HIDE DEF stops, approved
    <3>4. asked = Closed(granted, d)
      <4> HIDE DEF granted
      <4> QED BY <1>3, <2>4, <3>1, <3>3 DEF RequestDocumentClose, ApprovalSuperseded
    <3> HIDE DEF granted, asked
    <3>5. \A e : HasPendingSessionStart(granted, e) <=> HasPendingSessionStart(ui, e)
      BY <3>3, PendingAlike
    <3>6. Closable(granted, calls', ctl.starter, d)
      <4>1. ASSUME NEW e \in Documents \ {d} PROVE TrackedOne(granted, calls', e)
        BY <1>1, <2>3, <2>4, <3>3, <3>5, <4>1 DEF IInv, Consistent, Tracked, TrackedOne
      <4>2. Admitted(granted) /\ Dialogs(granted)
        BY <3>3, <3>5 DEF IInv, Consistent, Admitted, Dialogs
      <4> QED BY <3>3, <4>1, <4>2 DEF IInv, Consistent, Tracked, Closable
    <3>7. /\ Consistent(asked, calls', ctl.starter)
          /\ asked.requests = granted.requests /\ asked.exited = granted.exited
          /\ asked.unopened = granted.unopened /\ asked.open = granted.open \ {d}
          /\ asked.shutdown.phase = granted.shutdown.phase
          /\ asked.starts = granted.starts
      BY <1>3, <2>1, <3>4, <3>5, <3>6, ClosedKeeps
    <3>8. ui' = asked /\ GateFollows(asked)
      BY <3>2, <3>7, BecomesFollows
    <3>9. IInv'
      BY <1>1, <1>2, <3>3, <3>7, <3>8, UISide DEF IInv, Types
    <3> QED BY <1>1, <1>3, <3>1, <3>3, <3>7, <3>8, <3>9, UIPromised
  <2>10. disposition \in {"invalid", "transfer", "close"}
    BY DEF ClassifyStop
  <2> QED BY <2>7, <2>8, <2>9, <2>10
<1> QED BY <1>4, <1>5

LEMMA DrainStopKeeps ==
  ASSUME IInv, NEW c \in calls, DrainStop(c)
  PROVE  IInv' /\ Promised
<1> DEFINE sd == ui.shutdown
           target == [doc |-> c.doc, run |-> c.run]
           verified == /\ c.outcome = "ok" /\ ctl.status = "stopped" /\ ctl.ready = "normal"
                       /\ TargetOf(ctl) = target
           next == IF c.number # sd.attempt \/ sd.phase # "waitingForStop" THEN sd
                   ELSE IF c.outcome = "busy" THEN StopAlreadyInProgress(sd, target)
                   ELSE StopResult(sd, target, verified)
           u == [ui EXCEPT !.turn = "stops", !.shutdown = next]
<1>1. /\ c.kind = "stopExit" /\ c.stage = "result" /\ calls' = calls \ {c} /\ ~ui.exited
      /\ UNCHANGED <<ctl, unsent, events, gate>> /\ ui \in Application /\ ui' = u
      /\ ui.tick = NoDialog
  BY DEF DrainStop, Results, Ticking, IInv, Consistent
<1>2. sd \in Coordinator
  BY <1>1 DEF Application
<1>3. next \in Coordinator /\ (next = sd \/ (sd.phase = "waitingForStop" /\ next.phase # "waitingForStopConfirmation"))
      /\ (next.phase = "finished" => sd.phase = "finished")
      /\ (Active(next) => Active(sd))
  BY <1>2, CancelTyped DEF StopAlreadyInProgress, StopResult, Coordinator, ShutdownPhase, Active
<1> HIDE DEF next
<1>4. u \in Application /\ Apart(u) /\ u.shutdown = next /\ u.user = ui.user
      /\ u.tick = ui.tick /\ u.resolving = ui.resolving
  BY <1>1, <1>3 DEF Application, Apart, Turns
<1> HIDE DEF u
<1>5. Dialogs(u)
  BY <1>1, <1>3, <1>4, DialogsAre, PendingAlike DEF Dialogs, Apart, IInv, Consistent
<1>6. Consistent(u, calls, ctl.starter)
  BY <1>4, <1>5, ApartConsistent
<1>7. Consistent(u, calls', ctl.starter)
  BY <1>1, <1>6 DEF Consistent, Tracked, TrackedOne
<1>8. /\ calls' \subseteq CallType /\ IsFiniteSet(calls') /\ Shaped(calls')
      /\ Counted(calls') = Counted(calls) /\ \A x \in calls' : x \in calls
      /\ Starting(calls', ui.starts, ui.requests, ctl.starter)
  BY <1>1, ResultTaken
<1>9. GateFollows(u)
  BY <1>1, <1>3, <1>4 DEF GateFollows, IInv, Types, Frozen
<1>10. u.shutdown.phase \in Decided => ui.shutdown.phase \in Decided
  BY <1>3, <1>4 DEF Decided, ShutdownPhase
<1>11. IInv'
  BY <1>1, <1>4, <1>7, <1>8, <1>9, <1>10, UISide DEF IInv, Types, Apart
<1> QED BY <1>1, <1>4, <1>11, UIPromised DEF Apart

\* The end of a tick that changes at most the coordinator.
LEMMA ProgressedKeeps ==
  ASSUME IInv, NEW sd \in Coordinator, Progressed(sd), UNCHANGED <<ctl, unsent, events, calls>>,
         ui.tick = NoDialog, ~ui.exited,
         sd.phase = "waitingForStopConfirmation" => sd.stopTarget.doc # 0,
         sd.phase \in Decided => ui.shutdown.phase \in Decided \/ gate.outstanding = 0
  PROVE  IInv' /\ Promised
<1> DEFINE u == [ui EXCEPT !.turn = "idle", !.shutdown = sd]
<1>1. Becomes(u) /\ ui \in Application
  BY DEF Progressed, Tock, IInv, Consistent, Application
<1>2. u \in Application /\ Apart(u) /\ u.shutdown = sd /\ u.user = ui.user
      /\ u.tick = ui.tick /\ u.resolving = ui.resolving
  BY <1>1 DEF Application, Apart, Turns
<1> HIDE DEF u
<1>3. Dialogs(u)
  BY <1>2, DialogsAre, PendingAlike DEF Dialogs, Apart, IInv, Consistent
<1> QED BY <1>1, <1>2, <1>3, BecomesFollows, ApartKeeps

LEMMA ProgressShutdownKeeps ==
  ASSUME IInv, NothingToProgress \/ ProgressRunAdmission \/ ProgressStopConfirmation \/ ProgressStop
  PROVE  IInv' /\ Promised
<1> DEFINE sd == ui.shutdown
           st == StateOf(ctl)
<1>1. ui.tick = NoDialog /\ ~ui.exited /\ UNCHANGED <<ctl, unsent, events, calls>>
      /\ ui \in Application /\ sd \in Coordinator
  BY DEF NothingToProgress, ProgressRunAdmission, ProgressStopConfirmation, ProgressStop,
         Progressing, Ticking, IInv, Consistent, Application
<1>2. ctl \in Control /\ (IsActive(ctl) => ctl.doc # 0)
  BY DEF IInv, Types
<1>3. TargetOf(st) \in Target /\ TargetOf(st).doc = ctl.doc /\ (IsActive(st) <=> IsActive(ctl))
      /\ st.status = ctl.status
  BY <1>2, StateTyped DEF TargetOf
<1>4. sd.phase = "waitingForStopConfirmation" => sd.stopTarget.doc # 0
  BY DEF IInv, Consistent, Dialogs
<1>5. CASE Becomes(Tock)
  <2>1. Progressed(sd)
    <3>1. [Tock EXCEPT !.shutdown = sd] = Tock
      BY <1>1 DEF Tock, Application
    <3> QED BY <1>5, <3>1 DEF Progressed
  <2> QED BY <1>1, <1>4, <2>1, ProgressedKeeps
<1>6. CASE sd.phase = "waitingForRunAdmission" /\ gate.outstanding = 0
           /\ Progressed(ResolveRunAdmission(sd, st))
  <2> DEFINE next == ResolveRunAdmission(sd, st)
  <2>1. next \in Coordinator /\ (next.phase = "waitingForStopConfirmation" => next.stopTarget.doc # 0)
    <3> DEFINE target == TargetOf(st)
               awaited == [sd EXCEPT !.stopTarget = target, !.phase = "waitingForStop"]
               asking == [sd EXCEPT !.stopTarget = target, !.phase = "waitingForStopConfirmation"]
               closing == [sd EXCEPT !.phase = "closingDocuments"]
    <3>1. next \in {awaited, CancelCurrent(sd), closing} \/ (next = asking /\ IsActive(ctl))
      BY <1>3 DEF ResolveRunAdmission
    <3>2. target \in Target /\ target.doc = ctl.doc
      BY <1>3
    <3> HIDE DEF target, next
    <3>3. awaited \in Coordinator /\ awaited.phase = "waitingForStop"
          /\ asking \in Coordinator /\ asking.stopTarget = target
          /\ closing \in Coordinator /\ closing.phase = "closingDocuments"
      BY <1>1, <3>2 DEF Coordinator, ShutdownPhase
    <3>4. CancelCurrent(sd) \in Coordinator /\ CancelCurrent(sd).phase = "idle"
      BY <1>1, CancelTyped
    <3> HIDE DEF awaited, asking, closing, sd
    <3>5. CASE next \in {awaited, CancelCurrent(sd), closing}
      BY <3>3, <3>4, <3>5
    <3>6. CASE next = asking /\ IsActive(ctl)
      BY <1>2, <3>3, <3>6, <3>2
    <3> QED BY <3>1, <3>5, <3>6
  <2>2. Progressed(next)
    BY <1>6
  <2> HIDE DEF next
  <2> QED BY <1>1, <1>6, <2>1, <2>2, ProgressedKeeps
<1>7. CASE ProgressStopConfirmation
  <2> DEFINE tick == [NoDialog EXCEPT !.kind = "stop"]
             u == [ui EXCEPT !.tick = tick]
  <2>1. ui' = u /\ UNCHANGED gate /\ sd.phase = "waitingForStopConfirmation"
    BY <1>7 DEF ProgressStopConfirmation, Progressing
  <2>2. tick \in DialogType /\ tick.kind = "stop"
    BY DialogsAre
  <2> HIDE DEF tick
  <2>3. u \in Application /\ Apart(u) /\ u.shutdown = sd /\ u.user = ui.user /\ u.tick = tick
        /\ u.resolving = ui.resolving
    BY <1>1, <2>2 DEF Application, Apart
  <2> HIDE DEF u
  <2>4. Dialogs(u)
    BY <1>1, <2>1, <2>2, <2>3, PendingAlike DEF Dialogs, Apart, IInv, Consistent
  <2> QED BY <1>1, <2>1, <2>3, <2>4, KeptFollows, ApartKeeps
<1>8. CASE sd.phase = "waitingForStop" /\ Progressed(ObserveExternalStop(sd, st))
  <2> DEFINE next == ObserveExternalStop(sd, st)
  <2>1. next \in Coordinator /\ next.phase # "waitingForStopConfirmation"
    <3> DEFINE closing == [sd EXCEPT !.stopOwned = FALSE, !.phase = "closingDocuments"]
    <3>1. next \in {sd, closing, CancelCurrent(sd)}
      BY DEF ObserveExternalStop
    <3>2. closing \in Coordinator /\ closing.phase = "closingDocuments"
      BY <1>1 DEF Coordinator, ShutdownPhase
    <3> QED BY <1>1, <1>8, <3>1, <3>2, CancelTyped
  <2>2. Progressed(next)
    BY <1>8
  <2>3. sd.phase \in Decided
    BY <1>8 DEF Decided, ShutdownPhase
  <2> HIDE DEF next
  <2> QED BY <1>1, <2>1, <2>2, <2>3, ProgressedKeeps
<1> QED BY <1>5, <1>6, <1>7, <1>8
        DEF NothingToProgress, ProgressRunAdmission, ProgressStop, Progressing, Quiescent

LEMMA ProgressDocumentsKeeps ==
  ASSUME IInv, ProgressDocuments
  PROVE  IInv' /\ Promised
<1> DEFINE sd == ui.shutdown
<1>1. ui.tick = NoDialog /\ ~ui.exited /\ UNCHANGED <<ctl, unsent, events, calls>>
      /\ ui \in Application /\ sd \in Coordinator /\ sd.phase = "closingDocuments"
      /\ sd.phase \in Decided
  BY DEF ProgressDocuments, Progressing, Ticking, IInv, Consistent, Application, Decided, ShutdownPhase
<1>2. ASSUME NEW next, GivesUp(sd, next) \/ next = [sd EXCEPT !.phase = "readyToCloseMain"],
             Progressed(next)
      PROVE  IInv' /\ Promised
  <2>1. next \in Coordinator /\ next.phase # "waitingForStopConfirmation"
    BY <1>1, <1>2 DEF GivesUp, Coordinator, ShutdownPhase
  <2> QED BY <1>1, <1>2, <2>1, ProgressedKeeps
<1>3. GivesUp(sd, sd) /\ GivesUp(sd, CancelCurrent(sd))
  BY <1>1, CancelTyped DEF GivesUp
<1>4. CASE ~AtRest \/ Unclosed(sd) = {}
  BY <1>2, <1>3, <1>4 DEF ProgressDocuments
<1>5. CASE AtRest /\ Unclosed(sd) # {}
  <2>1. PICK d \in Unclosed(sd) :
          LET chosen == [Tock EXCEPT !.shutdown.selected = d]
              asked == RequestDocumentClose(chosen, d, "tick")
          IN  IF d \notin ui.open THEN Progressed(DocumentClosed(chosen.shutdown, d))
              ELSE IF d \notin asked.open THEN Becomes(asked)
              ELSE Becomes([asked EXCEPT !.shutdown = DocumentCloseRejected(asked.shutdown, d)])
    BY <1>5 DEF ProgressDocuments
  <2>2. d \in Documents
    BY <1>1 DEF Unclosed, Coordinator
  <2> DEFINE selected == [sd EXCEPT !.selected = d]
             u == [ui EXCEPT !.turn = "idle", !.shutdown = selected]
             asked == RequestDocumentClose(u, d, "tick")
             rejected == DocumentCloseRejected(asked.shutdown, d)
  <2>3. [Tock EXCEPT !.shutdown.selected = d] = u
    BY DEF Tock
  <2>4. GivesUp(sd, selected) /\ selected \in Coordinator /\ selected.phase = sd.phase
    BY <1>1, <2>2, ClosureTyped DEF GivesUp
  <2> HIDE DEF selected
  <2>5. u \in Application /\ Apart(u) /\ u.shutdown = selected /\ u.user = ui.user
        /\ u.tick = ui.tick /\ u.resolving = ui.resolving
    BY <1>1, <2>4 DEF Application, Apart, Turns
  <2> HIDE DEF u
  <2>6. IF d \notin ui.open THEN Progressed(DocumentClosed(selected, d))
        ELSE IF d \notin asked.open THEN Becomes(asked)
        ELSE Becomes([asked EXCEPT !.shutdown = rejected])
    BY <2>1, <2>3, <2>5
  <2>7. Dialogs(u)
    BY <1>1, <2>4, <2>5, DialogsAre, PendingAlike DEF Dialogs, Apart, IInv, Consistent
  <2>8. Consistent(u, calls, ctl.starter)
    BY <2>5, <2>7, ApartConsistent
  <2>9. CASE d \notin ui.open
    <3>1. GivesUp(selected, DocumentClosed(selected, d))
      BY <2>4, <2>2, ClosureTyped
    <3>2. GivesUp(sd, DocumentClosed(selected, d))
      BY <1>1, <2>4, <3>1, <2>2, ClosureTyped DEF GivesUp
    <3> QED BY <1>2, <2>6, <2>9, <3>2
  <2>10. CASE d \in ui.open /\ d \notin asked.open
    <3>1. Becomes(RequestDocumentClose(u, d, "tick"))
      BY <2>6, <2>10
    <3>2. Starting(calls, u.starts, u.requests, ctl.starter)
      BY <2>5 DEF IInv, Apart
    <3> HIDE DEF asked
    <3> QED BY <1>1, <2>4, <2>5, <2>8, <2>2, <3>1, <3>2, RequestStep DEF IInv, Types, Apart
  <2>11. CASE d \in ui.open /\ d \in asked.open
    <3>1. ctl \in Control /\ (IsActive(ctl) => ctl.run # 0)
      BY DEF IInv, Types
    <3>2. /\ Consistent(asked, calls, ctl.starter)
          /\ asked.requests = u.requests /\ asked.exited = u.exited /\ asked.unopened = u.unopened
          /\ asked.open = u.open \/ asked.open = u.open \ {d}
          /\ asked.shutdown.phase \in {u.shutdown.phase, "idle"}
      BY <2>8, <2>2, <3>1, RequestKeeps
    <3>3. Becomes([asked EXCEPT !.shutdown = rejected])
      BY <2>6, <2>11
    <3>4. asked \in Application /\ asked.shutdown \in Coordinator
      BY <3>2 DEF Consistent, Application
    <3>5. rejected \in Coordinator /\ rejected.phase \in {asked.shutdown.phase, "idle"}
      BY <2>2, <3>4, ClosureTyped DEF GivesUp
    <3> DEFINE r == [asked EXCEPT !.shutdown = rejected]
    <3> HIDE DEF asked, rejected
    <3>6. r \in Application /\ r.shutdown = rejected /\ r.sessions = asked.sessions
          /\ r.open = asked.open /\ r.unopened = asked.unopened
          /\ r.closePending = asked.closePending /\ r.starts = asked.starts
          /\ r.requests = asked.requests /\ r.stopCloses = asked.stopCloses
          /\ r.admissionCloses = asked.admissionCloses /\ r.approved = asked.approved
          /\ r.exited = asked.exited /\ r.user = asked.user /\ r.tick = asked.tick
          /\ r.resolving = asked.resolving
      BY <3>4, <3>5 DEF Application
    <3>7. ui' = r /\ GateFollows(r)
      BY <3>3, BecomesFollows
    <3> HIDE DEF r
    <3>8. Dialogs(r)
      BY <1>1, <2>4, <2>5, <3>2, <3>5, <3>6, PendingAlike DEF Consistent, Dialogs, Apart
    <3>9. Tracked(r, calls) /\ Admitted(r)
      BY <3>2, <3>6, PendingAlike DEF Consistent, Tracked, TrackedOne, Admitted
    <3>10. Consistent(r, calls', ctl.starter)
      BY <1>1, <3>2, <3>6, <3>8, <3>9 DEF Consistent
    <3>11. Starting(calls', r.starts, r.requests, ctl.starter)
      <4>1. \A c \in calls : c.kind = "start" => c.stage \notin Under
        BY <1>1 DEF IInv, Frozen, Under
      <4> QED BY <1>1, <2>5, <3>2, <3>6, <4>1 DEF IInv, Starting, Apart
    <3>12. IInv'
      BY <1>1, <3>7, <3>10, <3>11, UISide DEF IInv, Types
    <3>13. r.open = ui.open /\ r.exited = ui.exited /\ r.unopened = ui.unopened
      BY <2>5, <2>11, <3>2, <3>6 DEF Apart
    <3> QED BY <1>1, <3>7, <3>12, <3>13, UIPromised
  <2> QED BY <2>9, <2>10, <2>11
<1> QED BY <1>4, <1>5

LEMMA ProgressMainCloseKeeps ==
  ASSUME IInv, ProgressMainClose
  PROVE  IInv' /\ Promised
<1> DEFINE sd == ui.shutdown
           next == CommitMainClose(sd)
           u == [ui EXCEPT !.turn = "idle", !.shutdown = next, !.exited = TRUE]
<1>1. ui.tick = NoDialog /\ ~ui.exited /\ ui.resolving = {} /\ UNCHANGED <<ctl, unsent, events, calls>>
      /\ ui \in Application /\ sd \in Coordinator /\ sd.phase = "readyToCloseMain"
      /\ sd.phase \in Decided
  BY DEF ProgressMainClose, Progressing, Ticking, IInv, Consistent, Application, Decided, ShutdownPhase
<1>2. CASE ui.open # {} \/ ~AtRest
  <2>1. Progressed(CancelCurrent(sd))
    BY <1>2 DEF ProgressMainClose
  <2> QED BY <1>1, <2>1, CancelTyped, ProgressedKeeps
<1>3. CASE ui.open = {} /\ AtRest
  <2>1. Becomes(u)
    BY <1>3 DEF ProgressMainClose, Tock
  <2>2. next \in Coordinator /\ next.phase = "finished"
    BY <1>1 DEF CommitMainClose, Coordinator, ShutdownPhase
  <2> HIDE DEF next
  <2>3. /\ u \in Application /\ u.shutdown = next /\ u.exited = TRUE
        /\ u.sessions = ui.sessions /\ u.open = ui.open /\ u.unopened = ui.unopened
        /\ u.closePending = ui.closePending /\ u.starts = ui.starts /\ u.requests = ui.requests
        /\ u.stopCloses = ui.stopCloses /\ u.admissionCloses = ui.admissionCloses
        /\ u.approved = ui.approved /\ u.user = ui.user /\ u.tick = ui.tick
        /\ u.resolving = ui.resolving
    BY <1>1, <2>2 DEF Application, Turns
  <2> HIDE DEF u
  <2>4. ui' = u /\ GateFollows(u)
    BY <2>1, BecomesFollows
  <2>5. \A d : HasPendingSessionStart(u, d) <=> HasPendingSessionStart(ui, d)
    BY <2>3, PendingAlike
  <2>6. Dialogs(u)
    BY <1>1, <2>2, <2>3, <2>5, DialogsAre DEF Dialogs, IInv, Consistent
  <2>7. Consistent(u, calls', ctl.starter)
    BY <1>1, <2>3, <2>5, <2>6 DEF IInv, Consistent, Tracked, TrackedOne, Admitted
  <2>8. IInv'
    BY <1>1, <2>3, <2>4, <2>7, UISide DEF IInv, Types
  <2>9. Promise!Exit
    BY <1>1, <1>3, <2>3, <2>4 DEF Promise!Exit, Promise!Nothing, AtRest
  <2> QED BY <2>8, <2>9 DEF Promised, Promise!Next
<1> QED BY <1>2, <1>3

-----------------------------------------------------------------------------
(* The theorems. *)

\* Init maps to an initial state, and so does every step to a step or a stutter.
LEMMA Begins ==
  ASSUME Init
  PROVE  IInv /\ Promise!Init
<1> DEFINE sessions == InitManager(Documents \ Late)
           starts == [s \in Sessions |-> 0]
           open == Documents \ Late
           starter == [r \in Runs |-> 0]
<1>1. ctl = InitCtl /\ unsent = {} /\ events = <<>> /\ calls = {} /\ gate = InitGate /\ ui = InitUI
  BY DEF Init
<1>2. ctl \in Control /\ ctl.starter = starter /\ ~IsActive(ctl)
  BY <1>1, Bounds DEF InitCtl, Control, IsActive, ActiveStatus, ProgramStatus
<1>3. Good(sessions, starter)
  BY InitGood
<1>4. InitCoordinator \in Coordinator /\ InitCoordinator.phase = "idle"
  BY Bounds DEF InitCoordinator, Coordinator, NoTarget, Target, ShutdownPhase
<1>5. NoRuns \in Closing /\ \A d \in Documents : NoRuns[d] = 0
  BY Bounds DEF NoRuns, Closing
<1>6. starts \in [Sessions -> Nat] /\ starts \in [Sessions -> 0..MaxRuns]
      /\ \A s \in Sessions : starts[s] = 0
  BY Bounds
<1>7. open \in SUBSET Documents /\ Late \in SUBSET Documents /\ open \cap Late = {}
      /\ open = Documents \ Late
  BY Bounds
<1>8. /\ ui.sessions = sessions /\ ui.open = open /\ ui.unopened = Late /\ ui.closePending = {}
      /\ ui.starts = starts /\ ui.requests = 0 /\ ui.stopCloses = NoRuns
      /\ ui.admissionCloses = NoRuns /\ ui.approved = NoRuns /\ ui.shutdown = InitCoordinator
      /\ ui.user = NoDialog /\ ui.tick = NoDialog /\ ui.resolving = {} /\ ui.exited = FALSE
  BY <1>1 DEF InitUI
<1>9. ui \in Application
  <2>1. ui = [sessions |-> sessions, open |-> open, unopened |-> Late, closePending |-> {},
              starts |-> starts, requests |-> 0, acted |-> 0, actions |-> starts,
              stopCloses |-> NoRuns, admissionCloses |-> NoRuns, approved |-> NoRuns,
              shutdown |-> InitCoordinator, user |-> NoDialog, tick |-> NoDialog,
              resolving |-> {}, turn |-> "idle", exited |-> FALSE]
    BY <1>1 DEF InitUI
  <2>2. sessions \in Manager
    BY <1>3 DEF Good
  <2> HIDE DEF sessions, starts, open
  <2> QED BY <1>4, <1>5, <1>6, <1>7, <2>1, <2>2, DialogsAre DEF Application, Turns
<1> HIDE DEF sessions, starts, open, starter
<1>10. \A d : ~HasPendingSessionStart(ui, d)
  BY <1>6, <1>8 DEF HasPendingSessionStart, Steps
<1>11. Tracked(ui, calls) /\ Admitted(ui)
  BY <1>5, <1>6, <1>7, <1>8, <1>10 DEF Tracked, TrackedOne, Admitted
<1>12. Dialogs(ui)
  BY <1>4, <1>8, DialogsAre DEF Dialogs
<1>13. Consistent(ui, calls, ctl.starter)
  BY <1>2, <1>3, <1>8, <1>9, <1>11, <1>12 DEF Consistent
<1>14. IsFiniteSet(calls) /\ Cardinality(Counted(calls)) = 0
  BY <1>1, FS_EmptySet DEF Counted
<1>15. gate \in Gate /\ gate.outstanding = 0
  BY <1>1 DEF InitGate, Gate
<1>16. events \in Seq(EventsOf)
  BY <1>1
<1>17. Types
  BY <1>1, <1>2, <1>14, <1>15, <1>16 DEF Types
<1>18. Starting(calls, ui.starts, ui.requests, ctl.starter) /\ Shaped(calls)
  BY <1>1 DEF Starting, Shaped
<1>19. Frozen(ui.shutdown, gate, calls)
  BY <1>4, <1>8 DEF Frozen, Active, Decided
<1>20. IInv
  BY <1>13, <1>14, <1>15, <1>17, <1>18, <1>19 DEF IInv
<1>21. Promise!Init
  BY <1>2, <1>7, <1>8 DEF Promise!Init, Promise!Nothing
<1> QED BY <1>20, <1>21

LEMMA EveryStep ==
  ASSUME IInv, Next
  PROVE  IInv' /\ Promised
<1>1. CASE Controlling
  BY <1>1, ControllerKeeps, DisconnectsKeeps, StartKeeps, ActionKeeps, StopKeeps, SendResultKeeps,
     ReleaseKeeps DEF Controlling
<1>2. CASE Operating
  BY <1>2, OpenDocumentKeeps, ClickCloseKeeps, ClickRunKeeps, ClickActionKeeps, ClickExitKeeps
     DEF Operating
<1>3. CASE Answering
  BY <1>3, AnswerExitKeeps, AnswerCloseKeeps, AnswerStopKeeps DEF Answering
<1>4. CASE Tick
  BY <1>4, DrainEventKeeps, ResolveKeeps, TurnKeeps, DrainStartKeeps, DrainActionKeeps,
     DrainCloseKeeps, DrainStopKeeps, ProgressShutdownKeeps, ProgressDocumentsKeeps,
     ProgressMainCloseKeeps DEF Tick
<1> QED BY <1>1, <1>2, <1>3, <1>4, SendEventKeeps DEF Next

LEMMA Stuttering ==
  ASSUME IInv, UNCHANGED vars
  PROVE  IInv' /\ Promised
<1>1. IInv'
  BY DEF vars, IInv, Types
<1>2. Promised
  BY DEF vars, Promised, Promise!vars
<1> QED BY <1>1, <1>2

LEMMA Invariant == Spec => []IInv
<1>1. Init => IInv
  BY Begins
<1>2. IInv /\ [Next]_vars => IInv'
  BY EveryStep, Stuttering
<1> QED BY <1>1, <1>2, PTL DEF Spec

\* The controller's state, the calls, the gate, the sessions, the coordinator and the
\* dialogs keep their types, and a close-pending document is open.
THEOREM TypeCorrect == Spec => []TypeOK
<1>1. IInv => TypeOK
  <2> SUFFICES ASSUME IInv PROVE TypeOK
    OBVIOUS
  <2>1. StateOf(ctl) \in State /\ ctl.rev \in Nat /\ ctl.drained \in BOOLEAN
        /\ ctl.starter \in [Runs -> Sessions \cup {0}]
    BY StateTyped DEF IInv, Types, Control
  <2>2. \A e \in unsent : e.rev \in 1..ctl.rev /\ e.state \in State /\ e.error \in 0..MaxRuns
    BY DEF IInv, Types, EventsOf
  <2>3. ManagerType(ui.sessions)
    BY DEF IInv, Consistent, Good, Manager, ManagerType
  <2>4. /\ ui.shutdown \in Coordinator /\ ui.user \in DialogType /\ ui.tick \in DialogType
        /\ ui.turn \in {"idle", "events", "starts", "actions", "closes", "stops", "progress"}
    BY DEF IInv, Consistent, Application, Turns
  <2> QED BY <2>1, <2>2, <2>3, <2>4 DEF TypeOK, IInv, Types, Consistent, Tracked
<1> QED BY <1>1, Invariant, PTL

\* ExecutionSessions.AssociateRun and the buffers for runs without an owner: a session
\* and the index of runs only ever name runs the controller admitted for that very
\* session, whatever the order of results and events and however small the buffers.
THEOREM AttributionCorrect == Spec => []RunAttributed
<1>1. IInv => RunAttributed
  BY DEF IInv, Consistent, Good, Attributed, RunAttributed, Session
<1> QED BY <1>1, Invariant, PTL

\* refreshPackageAdmission: what the steps of a package were last told about each
\* other's admission is still so, after every operator of the manager.
THEOREM SiblingsTold == Spec => []BlockedIsCurrent
<1>1. IInv => BlockedIsCurrent
  BY DEF IInv, Consistent, Good, ToldAll, Told, BlockedIsCurrent, Session
<1> QED BY <1>1, Invariant, PTL

\* ProgramStartGate and ShutdownCoordinator: from the moment a shutdown has chosen what
\* to stop, no Start is under way and none can begin, so the run it asked the operator
\* about is the run it stops.
THEOREM StartsFrozen == Spec => []FrozenWhileShuttingDown
<1>1. IInv => FrozenWhileShuttingDown
  BY DEF IInv, Frozen, Decided, Active, FrozenWhileShuttingDown
<1> QED BY <1>1, Invariant, PTL

\* pendingDocumentStarts, pendingAdmissionCloses and pendingDocumentCloses: a
\* close-pending document waits for a Start, an admitted run or a Stop that will still
\* answer, so no close is forgotten.
THEOREM ClosesTracked == Spec => []CloseTracked
<1>1. IInv => CloseTracked
  BY DEF IInv, Consistent, Application, Tracked, TrackedOne, CloseTracked
<1> QED BY <1>1, Invariant, PTL

\* The frontend implements SafeExit: a document stays open while a program of its own
\* runs, only an open document's program starts, and the main window goes when no
\* document is open and no program runs.
THEOREM ExitIsSafe == Spec => ImplementsSafeExit
<1>1. Init => Promise!Init
  BY Begins
<1>2. IInv /\ [Next]_vars => [Promise!Next]_(Promise!vars)
  BY EveryStep, Stuttering DEF Promised
<1> QED BY <1>1, <1>2, Invariant, PTL DEF Spec, ImplementsSafeExit, Promise!Spec
=============================================================================
