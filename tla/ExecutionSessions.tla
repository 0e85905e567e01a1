-------------------------- MODULE ExecutionSessions --------------------------
(***************************************************************************)
(* The frontend's execution sessions (internal/frontend): one session per  *)
(* standalone document or package step, and the manager that routes the    *)
(* controller's event stream and the results of Start to them. All of it   *)
(* belongs to the UI thread, so every method is an operator from the       *)
(* manager's record to the next one; the module has no variables.          *)
(***************************************************************************)
EXTENDS Integers, FiniteSets, FiniteSetsExt

CONSTANTS
  Documents,    \* app.DocumentID of the documents of the run
  Packages,     \* the documents that are .dd packages
  Sessions,     \* execution sessions
  DocumentOf,   \* the document that owns a session
  MaxRuns,      \* RunIDs the controller gives out
  MaxPending    \* maxPendingRuns (32 in the code)

ASSUME SessionsAssumption ==
  /\ Packages \subseteq Documents
  /\ DocumentOf \in [Sessions -> Documents]
  /\ \A s, t \in Sessions : DocumentOf[s] = DocumentOf[t] /\ DocumentOf[s] \notin Packages => s = t
  /\ MaxRuns \in Nat /\ MaxPending \in Nat
  /\ Documents \cap {0} = {} /\ Sessions \cap {0} = {}

Runs == 1..MaxRuns
Steps(d) == {s \in Sessions : DocumentOf[s] = d}
Standalone(s) == DocumentOf[s] \notin Packages

-----------------------------------------------------------------------------
(* The part of app.State the frontend decides on. Draining is Running to all *)
(* of its conditions; "able" is connected with no emergency stop.            *)

ProgramStatus == {"loaded", "running", "paused", "stopping",
                  "stopped", "completed", "failed"}
ActiveStatus == {"running", "paused", "stopping"}
State == [doc : Documents \cup {0}, run : 0..MaxRuns, status : ProgramStatus,
          ready : {"normal", "stopping", "recovery"}, able : BOOLEAN]
InitState == [doc |-> 0, run |-> 0, status |-> "loaded", ready |-> "normal", able |-> TRUE]
NoState == [InitState EXCEPT !.able = FALSE]

IsActive(st) == st.status \in ActiveStatus
Ready(st) == st.able /\ st.ready = "normal"

\* An event carries the state captured with its revision; "error" is ErrorRunID,
\* "from" the goroutine that sends it.
Event(rev, st, run, from) == [rev |-> rev, state |-> st, error |-> run, from |-> from]

-----------------------------------------------------------------------------
(* Sessions. *)

Absent == [run |-> 0, status |-> "loaded", error |-> "", starting |-> FALSE, awaiting |-> 0,
           blocked |-> TRUE, acting |-> 0, rejected |-> FALSE, request |-> 0, open |-> FALSE]
NewSession == [Absent EXCEPT !.open = TRUE, !.blocked = FALSE]

SessionType ==
  [run : 0..MaxRuns, status : ProgramStatus, error : {"", "rejected", "failed", "action"},
   starting : BOOLEAN, awaiting : 0..MaxRuns, blocked : BOOLEAN, acting : 0..MaxRuns,
   rejected : BOOLEAN, request : Nat, open : BOOLEAN]

\* DocumentExecutionControlState narrowed by SessionExecutionControlState:
\* the commands a session offers.
Controls(x, d, st) ==
  LET owner == st.doc = d /\ st.run # 0 /\ st.run = x.run /\ x.acting = 0
  IN  (IF /\ ~x.starting /\ x.awaiting = 0 /\ ~x.blocked /\ x.acting = 0
          /\ ~IsActive(st) /\ Ready(st) THEN {"run"} ELSE {})
      \cup (IF owner /\ st.status = "running" THEN {"pause"} ELSE {})
      \cup (IF owner /\ st.status = "paused" /\ Ready(st) THEN {"resume"} ELSE {})
      \cup (IF owner /\ st.status \in {"running", "paused"} THEN {"stop"} ELSE {})

\* DocumentExecutionPresentation.ReconcileAdmission
ReconcileAdmission(x, run, ok) ==
  IF ~ok THEN [x EXCEPT !.error = "rejected"]
  ELSE IF run = 0 \/ x.run >= run THEN x
  ELSE [x EXCEPT !.run = run, !.status = "running", !.error = ""]

\* Mutant: a result adopts the run of the latest state of its document.
FinishStartOfState(x, s, run, ok, st) ==
  LET shown == ReconcileAdmission(x, IF st.doc = DocumentOf[s] THEN st.run ELSE run, ok)
  IN  [shown EXCEPT !.starting = FALSE, !.request = 0, !.rejected = ~ok, !.awaiting = 0]

\* Mutant: a refused Start is recorded and not ended.
FinishStartIfAdmitted(x, s, run, ok, st) ==
  LET shown == ReconcileAdmission(x, run, ok)
  IN  [shown EXCEPT !.starting = ~ok, !.rejected = ~ok,
                    !.awaiting = IF ok /\ (st.doc # DocumentOf[s] \/ st.run # run) THEN run ELSE 0]

\* ExecutionSession.FinishStart
FinishStart(x, s, run, ok, st) ==
  LET shown == IF ok \/ Standalone(s) \/ x.run = 0 THEN ReconcileAdmission(x, run, ok) ELSE x
      known == st.doc = DocumentOf[s] /\ st.run = run
  IN  [shown EXCEPT !.starting = FALSE, !.request = 0, !.rejected = ~ok,
                    !.awaiting = IF ok /\ run # 0 /\ ~known THEN run
                                 ELSE IF ok /\ run # 0 THEN 0 ELSE @]

\* ExecutionSession.applyRunState with DocumentExecutionPresentation.ApplyState
ApplyRunState(x, s, st) ==
  IF st.doc # DocumentOf[s] \/ st.run = 0 \/ st.run # x.run THEN x
  ELSE [x EXCEPT !.status = st.status, !.error = IF st.status = "failed" THEN "failed" ELSE "",
                 !.awaiting = IF @ = st.run THEN 0 ELSE @]

-----------------------------------------------------------------------------
(* The manager. *)

NoAttempt == [step |-> 0, request |-> 0, run |-> 0, phase |-> "none"]
AttemptType ==
  [step : Sessions \cup {0}, request : Nat, run : 0..MaxRuns,
   phase : {"none", "pending", "awaiting", "rejected", "historical"}]
NoStrip == [phase |-> "none", step |-> 0, run |-> 0, status |-> "loaded", error |-> "",
            controls |-> {}]

InitManager(docs) ==
  [ session    |-> [s \in Sessions |-> IF DocumentOf[s] \in docs THEN NewSession ELSE Absent],
    owner      |-> [r \in Runs |-> 0],        \* runOwners
    pending    |-> [r \in Runs |-> NoState],  \* pendingStates
    errors     |-> {},                        \* pendingEvents: runs with an error event
    rev        |-> 0,                         \* stateRevision
    state      |-> InitState,                 \* currentState, and the state of every session
    attempt    |-> [d \in Packages |-> NoAttempt],
    lastActive |-> 0,
    strip      |-> [d \in Packages |-> NoStrip] ]  \* what package observers were last given

Admitting(x) == x.starting \/ x.awaiting # 0

\* packageExecution
PackageExecution(m, d) ==
  LET of == {s \in Steps(d) : m.session[s].open /\ m.session[s].run # 0}
      Shows(s, phase) ==
        [phase |-> phase, step |-> s, run |-> m.session[s].run, status |-> m.session[s].status,
         error |-> m.session[s].error,
         controls |-> Controls(m.session[s], d, m.state) \ {"run"}]
      current == {s \in of : m.state.doc = d /\ m.state.run = m.session[s].run /\ IsActive(m.state)}
      a == m.attempt[d]
  IN  IF current # {} THEN Shows(CHOOSE s \in current : TRUE, "active")
      ELSE IF a.phase \in {"pending", "awaiting", "rejected"} THEN Shows(a.step, a.phase)
      ELSE IF of = {} THEN NoStrip
      ELSE Shows(CHOOSE s \in of : \A t \in of : m.session[t].run <= m.session[s].run, "historical")

NotifyPackage(m, d) ==
  IF d \in Packages THEN [m EXCEPT !.strip[d] = PackageExecution(m, d)] ELSE m

\* Mutant: only a Start without an answer blocks the sibling steps.
RefreshPackageStarting(m, d) ==
  LET owners == {s \in Steps(d) : m.session[s].starting}
  IN  [m EXCEPT !.session = [s \in Sessions |->
         IF s \in Steps(d) /\ @[s].open THEN [@[s] EXCEPT !.blocked = owners \ {s} # {}] ELSE @[s]]]

\* refreshPackageAdmission
RefreshPackageAdmission(m, d) ==
  LET owners == {s \in Steps(d) : Admitting(m.session[s])}
      Blocked(s) == owners \ {s} # {}
  IN  IF d \notin Packages THEN m
      ELSE [m EXCEPT !.session = [s \in Sessions |->
              IF s \in Steps(d) /\ m.session[s].open
              THEN [m.session[s] EXCEPT !.blocked = Blocked(s)] ELSE m.session[s]]]

\* recordPackageAttempt
RecordPackageAttempt(m, s, request, run, phase) ==
  LET d == DocumentOf[s] IN
  IF Standalone(s) \/ m.attempt[d].step # s \/ m.attempt[d].request # request THEN m
  ELSE [m EXCEPT !.attempt[d].run = run, !.attempt[d].phase = phase]

\* ExecutionSessions.Add, for a document that opens.
AddSessions(m, d) ==
  [m EXCEPT !.session = [s \in Sessions |-> IF s \in Steps(d) THEN NewSession ELSE @[s]]]

\* packageAdmissionBlocked
PackageAdmissionBlocked(m, s) ==
  ~Standalone(s) /\ \E t \in Steps(DocumentOf[s]) \ {s} : Admitting(m.session[t])

CanBeginStart(m, s) ==
  /\ m.session[s].open /\ ~PackageAdmissionBlocked(m, s)
  /\ "run" \in Controls(m.session[s], DocumentOf[s], m.state)

\* ExecutionSessions.BeginStart; request is the session's next request number.
BeginStart(m, s, request) ==
  LET d == DocumentOf[s]
      begun == [m EXCEPT !.session[s].starting = TRUE, !.session[s].request = request,
                         !.session[s].rejected = FALSE]
      noted == IF Standalone(s) THEN begun
               ELSE [begun EXCEPT !.attempt[d] = [step |-> s, request |-> request, run |-> 0,
                                                  phase |-> "pending"]]
  IN  NotifyPackage(RefreshPackageAdmission(noted, d), d)

\* ExecutionSessions.Remove for every session of a closed document.
RemoveSessions(m, d) ==
  [m EXCEPT !.session = [s \in Sessions |-> IF s \in Steps(d) THEN Absent ELSE @[s]],
            !.owner = [r \in Runs |-> IF @[r] \in Steps(d) /\ m.session[@[r]].run = r THEN 0 ELSE @[r]],
            !.attempt = [e \in Packages |-> IF e = d THEN NoAttempt ELSE @[e]],
            !.strip = [e \in Packages |-> IF e = d THEN NoStrip ELSE @[e]]]

\* ExecutionSessions.AssociateRun of the outstanding request of s.
AssociateRun(m, s, run, ok) ==
  LET d == DocumentOf[s]
      old == m.session[s].run
      request == m.session[s].request
      done == [m EXCEPT !.session[s] = FinishStart(@, s, run, ok, m.state)]
      owned == [done EXCEPT !.owner = [r \in Runs |-> IF r = run THEN s ELSE IF r = old THEN 0 ELSE @[r]]]
      recorded == RecordPackageAttempt(owned, s, request, run, "awaiting")
      state == IF run = 0 THEN NoState ELSE m.pending[run]
      applied == [recorded EXCEPT !.pending[run] = NoState,
                                  !.session[s] = ApplyRunState(@, s, state)]
      caught == IF state = NoState THEN recorded
                ELSE IF IsActive(state) THEN applied
                ELSE RecordPackageAttempt(applied, s, request, run, "historical")
      errored == IF run \in m.errors THEN [caught EXCEPT !.session[s].error = "failed",
                                                         !.errors = @ \ {run}] ELSE caught
      result == IF ok /\ run # 0 THEN errored
                ELSE RecordPackageAttempt(done, s, request, run, "rejected")
  IN  NotifyPackage(RefreshPackageAdmission(result, d), d)

AwaitingAdmission(m, d) == \E s \in Steps(d) : m.session[s].starting

\* rememberState
RememberState(m, st) ==
  LET held == {r \in Runs : m.pending[r] # NoState} IN
  IF st.run \notin held /\ Cardinality(held) >= MaxPending THEN m
  ELSE [m EXCEPT !.pending[st.run] = st]

\* The revisioned part of ExecutionSessions.ApplyEvent.
ApplyState(m, e) ==
  LET st == e.state
      s == IF st.run = 0 THEN 0 ELSE m.owner[st.run]
      d == IF s = 0 THEN 0 ELSE DocumentOf[s]
      now == [m EXCEPT !.rev = e.rev, !.state = st]
      run == [now EXCEPT !.session[s] = ApplyRunState(@, s, st)]
      ended == IF d \in Packages /\ m.attempt[d].step = s /\ m.attempt[d].run = st.run
                    /\ ~IsActive(st)
               THEN [run EXCEPT !.attempt[d].phase = "historical"] ELSE run
      routed == IF s # 0 THEN RefreshPackageAdmission(ended, d)
                ELSE IF AwaitingAdmission(m, st.doc) /\ st.run # 0 THEN RememberState(now, st)
                ELSE now
      active == IF d \in Packages /\ IsActive(st) THEN d ELSE 0
      told == IF active = 0 THEN routed ELSE NotifyPackage(routed, active)
      result == IF m.lastActive \in {0, active} THEN told ELSE NotifyPackage(told, m.lastActive)
  IN  [result EXCEPT !.lastActive = active]

\* The error part of ExecutionSessions.ApplyEvent, with rememberEvent.
ApplyError(m, e) ==
  LET s == m.owner[e.error]
      kept == e.error \in m.errors \/ Cardinality(m.errors) < MaxPending
  IN  IF s # 0
      THEN NotifyPackage([m EXCEPT !.session[s].error = IF m.session[s].run = e.error THEN "failed" ELSE @],
                         DocumentOf[s])
      ELSE IF AwaitingAdmission(m, e.state.doc) /\ kept THEN [m EXCEPT !.errors = @ \cup {e.error}]
      ELSE m

\* Mutant: every state is applied, whatever its revision.
ApplyEveryEvent(m, e) ==
  IF e.error = 0 THEN ApplyState(m, e) ELSE ApplyError(ApplyState(m, e), e)

\* ExecutionSessions.ApplyEvent
ApplyEvent(m, e) ==
  LET now == IF e.rev > m.rev THEN ApplyState(m, e) ELSE m
  IN  IF e.error = 0 THEN now ELSE ApplyError(now, e)

\* BeginAction
CanBeginAction(m, s, run) ==
  LET x == m.session[s] IN
  /\ x.open /\ x.acting = 0 /\ run # 0 /\ run = x.run
  /\ m.state.doc = DocumentOf[s] /\ m.state.run = run
BeginAction(m, s, run) ==
  NotifyPackage([m EXCEPT !.session[s].acting = run], DocumentOf[s])

\* FinishAction
FinishAction(m, s, run, ok) ==
  LET x == m.session[s] IN
  IF ~x.open \/ x.acting = 0 \/ run # x.acting \/ run # x.run THEN m
  ELSE NotifyPackage([m EXCEPT !.session[s].acting = 0,
                               !.session[s].error = IF ok THEN @ ELSE "action"], DocumentOf[s])

-----------------------------------------------------------------------------

ManagerType(m) ==
  /\ m.session \in [Sessions -> SessionType]
  /\ m.owner \in [Runs -> Sessions \cup {0}]
  /\ m.pending \in [Runs -> State]
  /\ m.errors \subseteq Runs
  /\ m.rev \in Nat
  /\ m.state \in State
  /\ m.attempt \in [Packages -> AttemptType]
  /\ m.lastActive \in Packages \cup {0}
  /\ DOMAIN m.strip = Packages
=============================================================================
