------------------------ MODULE ExecutionSessions_proofs ------------------------
(***************************************************************************)
(* The operators of ExecutionSessions keep what makes a manager good: its  *)
(* types, an attempt that names a step of its own package (Tried), what    *)
(* every step of a package was told about its siblings (ToldAll), and the  *)
(* attribution of runs to sessions (Attributed), given who asked the       *)
(* controller for each run.  They also say which sessions each operator    *)
(* starts or stops waiting for.                                            *)
(***************************************************************************)
EXTENDS ExecutionSessions, TLAPS, FiniteSetTheorems, WellFoundedInduction

Phases == {"none", "active", "pending", "awaiting", "rejected", "historical"}
Commands == {"run", "pause", "resume", "stop"}
StripType ==
  [phase : Phases, step : Sessions \cup {0}, run : 0..MaxRuns, status : ProgramStatus,
   error : {"", "rejected", "failed", "action"}, controls : SUBSET Commands]

Manager ==
  [session : [Sessions -> SessionType], owner : [Runs -> Sessions \cup {0}],
   pending : [Runs -> State], errors : SUBSET Runs, rev : Nat, state : State,
   attempt : [Packages -> AttemptType], lastActive : Packages \cup {0},
   strip : [Packages -> StripType]]

\* A package shows the attempt of a step of its own.
Tried(m) ==
  \A d \in Packages : m.attempt[d].phase \in {"pending", "awaiting", "rejected"} =>
                        m.attempt[d].step \in Steps(d)

LEMMA ControlsTyped ==
  ASSUME NEW x, NEW d, NEW st
  PROVE  Controls(x, d, st) \subseteq Commands
BY DEF Controls, Commands

LEMMA SessionsThere ==
  /\ \A d \in Documents : Steps(d) \subseteq Sessions
  /\ \A s \in Sessions : DocumentOf[s] \in Documents /\ s \in Steps(DocumentOf[s]) /\ s # 0
  /\ 0 \notin Packages /\ 0 \notin Documents /\ 0 \notin Sessions
  /\ Packages \subseteq Documents /\ MaxRuns \in Nat /\ MaxPending \in Nat
BY SessionsAssumption DEF Steps

LEMMA LessThan == \A x, y \in Nat : <<x, y>> \in OpToRel(<, Nat) <=> x < y
BY SMT DEF OpToRel

\* The highest run of the sessions of a package exists: packageExecution shows it.
LEMMA Largest ==
  ASSUME NEW S, S # {}, NEW f \in [S -> 0..MaxRuns]
  PROVE  \E s \in S : \A t \in S : f[t] <= f[s]
<1> DEFINE left == {MaxRuns - f[s] : s \in S}
<1>1. MaxRuns \in Nat
  BY SessionsAssumption
<1>2. left \in SUBSET Nat /\ left # {}
  BY <1>1
<1>3. \E n \in left : \A m \in left : ~(<<m, n>> \in OpToRel(<, Nat))
  <2> HIDE DEF left
  <2> QED BY <1>2, NatLessThanWellFounded, WFMin
<1>4. PICK n \in left : \A m \in left : ~(<<m, n>> \in OpToRel(<, Nat))
  BY <1>3
<1>5. \A m \in left : ~(m < n)
  <2> HIDE DEF left
  <2> QED BY <1>2, <1>4, LessThan
<1>6. PICK s \in S : n = MaxRuns - f[s]
  BY <1>4
<1>7. \A t \in S : f[t] \in Int /\ MaxRuns - f[t] \in left
  BY <1>1
<1>8. \A t \in S : f[t] <= f[s]
  <2> HIDE DEF left
  <2> QED BY <1>1, <1>5, <1>6, <1>7
<1> QED BY <1>8

LEMMA ExecutionTyped ==
  ASSUME NEW m \in Manager, Tried(m), NEW d \in Packages
  PROVE  PackageExecution(m, d) \in StripType
<1> DEFINE of == {s \in Steps(d) : m.session[s].open /\ m.session[s].run # 0}
           Shows(s, phase) ==
             [phase |-> phase, step |-> s, run |-> m.session[s].run, status |-> m.session[s].status,
              error |-> m.session[s].error,
              controls |-> Controls(m.session[s], d, m.state) \ {"run"}]
           current == {s \in of : m.state.doc = d /\ m.state.run = m.session[s].run /\ IsActive(m.state)}
           a == m.attempt[d]
           first == CHOOSE s \in current : TRUE
           last == CHOOSE s \in of : \A t \in of : m.session[t].run <= m.session[s].run
<1>1. of \subseteq Sessions
  BY SessionsThere
<1>2. ASSUME NEW s \in Sessions, NEW phase \in Phases
      PROVE  Shows(s, phase) \in StripType
  <2>1. m.session[s] \in SessionType
    BY DEF Manager
  <2>2. Controls(m.session[s], d, m.state) \ {"run"} \in SUBSET Commands
    BY ControlsTyped
  <2> QED BY <2>1, <2>2 DEF SessionType, StripType
<1>3. current # {} => first \in Sessions
  BY <1>1
<1>4. of # {} => last \in Sessions
  <2> DEFINE f == [s \in of |-> m.session[s].run]
  <2>1. f \in [of -> 0..MaxRuns]
    BY <1>1 DEF Manager, SessionType
  <2>2. \A s \in of : f[s] = m.session[s].run
    OBVIOUS
  <2> HIDE DEF of, f
  <2>3. of # {} => \E s \in of : \A t \in of : f[t] <= f[s]
    BY <2>1, Largest
  <2>4. of # {} => \E s \in of : \A t \in of : m.session[t].run <= m.session[s].run
    BY <2>2, <2>3
  <2> QED BY <1>1, <2>4
<1>5. a.phase \in {"pending", "awaiting", "rejected"} => a.step \in Sessions
  BY SessionsThere DEF Tried
<1>6. NoStrip \in StripType
  BY SessionsAssumption DEF NoStrip, StripType, Phases, ProgramStatus
<1>7. PackageExecution(m, d) =
        IF current # {} THEN Shows(first, "active")
        ELSE IF a.phase \in {"pending", "awaiting", "rejected"} THEN Shows(a.step, a.phase)
        ELSE IF of = {} THEN NoStrip ELSE Shows(last, "historical")
  BY DEF PackageExecution
<1>8. {"active", "pending", "awaiting", "rejected", "historical"} \subseteq Phases
  BY DEF Phases
<1> HIDE DEF Shows, current, of, a, first, last
<1> QED BY <1>2, <1>3, <1>4, <1>5, <1>6, <1>7, <1>8

LEMMA NotifyTyped ==
  ASSUME NEW m \in Manager, Tried(m), NEW d
  PROVE  /\ NotifyPackage(m, d) \in Manager
         /\ NotifyPackage(m, d).session = m.session
         /\ NotifyPackage(m, d).owner = m.owner
         /\ NotifyPackage(m, d).pending = m.pending
         /\ NotifyPackage(m, d).errors = m.errors
         /\ NotifyPackage(m, d).rev = m.rev
         /\ NotifyPackage(m, d).state = m.state
         /\ NotifyPackage(m, d).attempt = m.attempt
         /\ NotifyPackage(m, d).lastActive = m.lastActive
<1> DEFINE p == PackageExecution(m, d)
<1>1. NotifyPackage(m, d) = IF d \in Packages THEN [m EXCEPT !.strip[d] = p] ELSE m
  BY DEF NotifyPackage
<1> HIDE DEF p
<1>2. d \in Packages => p \in StripType
  BY ExecutionTyped DEF p
<1> QED BY <1>1, <1>2 DEF Manager

-----------------------------------------------------------------------------
(* What siblings were told, and to whom a run belongs. *)

\* BlockedIsCurrent, of one step.
Told(m, s) ==
  m.session[s].open /\ ~Standalone(s) =>
    (m.session[s].blocked <=> \E t \in Steps(DocumentOf[s]) \ {s} : Admitting(m.session[t]))
ToldAll(m) == \A s \in Sessions : Told(m, s)

\* RunAttributed, with the controller's record of who asked for each run.
Attributed(m, starter) ==
  \A r \in Runs :
    /\ m.owner[r] # 0 => starter[r] = m.owner[r]
    /\ \A s \in Sessions : m.session[s].run = r => starter[r] = s

\* What no notification changes.
Alike(m, n) ==
  /\ n.owner = m.owner /\ n.pending = m.pending /\ n.errors = m.errors /\ n.rev = m.rev
  /\ n.state = m.state /\ n.attempt = m.attempt /\ n.lastActive = m.lastActive
  /\ \A s \in Sessions :
       /\ n.session[s].run = m.session[s].run /\ n.session[s].starting = m.session[s].starting
       /\ n.session[s].awaiting = m.session[s].awaiting /\ n.session[s].open = m.session[s].open
       /\ n.session[s].status = m.session[s].status /\ n.session[s].acting = m.session[s].acting

LEMMA AlikeGood ==
  ASSUME NEW m \in Manager, NEW n \in Manager, Alike(m, n), NEW starter
  PROVE  /\ Tried(m) => Tried(n)
         /\ Attributed(m, starter) => Attributed(n, starter)
BY DEF Alike, Tried, Attributed

LEMMA NotifyAlike ==
  ASSUME NEW m \in Manager, Tried(m), NEW d
  PROVE  /\ NotifyPackage(m, d) \in Manager /\ Alike(m, NotifyPackage(m, d))
         /\ NotifyPackage(m, d).session = m.session /\ Tried(NotifyPackage(m, d))
<1> DEFINE n == NotifyPackage(m, d)
<1>1. n \in Manager /\ n.session = m.session /\ n.owner = m.owner /\ n.pending = m.pending
      /\ n.errors = m.errors /\ n.rev = m.rev /\ n.state = m.state /\ n.attempt = m.attempt
      /\ n.lastActive = m.lastActive
  BY NotifyTyped
<1> HIDE DEF n
<1>2. n \in Manager /\ Alike(m, n) /\ n.session = m.session /\ Tried(n)
  BY <1>1 DEF Alike, Tried
<1> QED BY <1>2 DEF n

\* refreshPackageAdmission tells every open step of its package.
LEMMA RefreshTold ==
  ASSUME NEW m \in Manager, Tried(m), NEW d \in Documents,
         \A s \in Sessions : DocumentOf[s] # d => Told(m, s)
  PROVE  LET n == RefreshPackageAdmission(m, d)
         IN  n \in Manager /\ Alike(m, n) /\ Tried(n) /\ ToldAll(n)
<1> DEFINE n == RefreshPackageAdmission(m, d)
           owners == {s \in Steps(d) : Admitting(m.session[s])}
           next == [s \in Sessions |-> IF s \in Steps(d) /\ m.session[s].open
                                       THEN [m.session[s] EXCEPT !.blocked = owners \ {s} # {}]
                                       ELSE m.session[s]]
<1>1. CASE d \notin Packages
  <2>1. n = m
    BY <1>1 DEF RefreshPackageAdmission
  <2>2. ToldAll(m)
    BY <1>1 DEF ToldAll, Told, Standalone
  <2> HIDE DEF n
  <2>3. Alike(m, n) /\ n \in Manager
    BY <2>1 DEF Alike
  <2> QED BY <2>1, <2>2, <2>3 DEF n
<1>2. CASE d \in Packages
  <2>1. n = [m EXCEPT !.session = next]
    BY <1>2 DEF RefreshPackageAdmission
  <2>2. \A s \in Sessions : m.session[s] \in SessionType
    BY DEF Manager
  <2>3. \A s \in Sessions :
          /\ next[s] \in SessionType
          /\ next[s].run = m.session[s].run /\ next[s].starting = m.session[s].starting
          /\ next[s].awaiting = m.session[s].awaiting /\ next[s].open = m.session[s].open
          /\ next[s].status = m.session[s].status /\ next[s].acting = m.session[s].acting
          /\ s \in Steps(d) /\ m.session[s].open => next[s].blocked = (owners \ {s} # {})
          /\ s \notin Steps(d) => next[s].blocked = m.session[s].blocked
    BY <2>2, ZenonT(40) DEF SessionType
  <2>4. next \in [Sessions -> SessionType]
    BY <2>3
  <2> HIDE DEF next
  <2>5. n \in Manager /\ n.session = next /\ Alike(m, n)
    BY <2>1, <2>3, <2>4 DEF Manager, Alike
  <2>6. Tried(n)
    BY <2>5, AlikeGood
  <2>7. \A s \in Sessions : Admitting(next[s]) <=> Admitting(m.session[s])
    BY <2>3 DEF Admitting
  <2> HIDE DEF n
  <2>8. ASSUME NEW s \in Sessions PROVE Told(n, s)
    <3>1. CASE DocumentOf[s] = d
      <4>1. s \in Steps(d)
        BY <3>1 DEF Steps
      <4>2. owners \ {s} # {} <=> \E t \in Steps(d) \ {s} : Admitting(next[t])
        BY <2>7, SessionsThere
      <4> QED BY <2>3, <2>5, <3>1, <4>1, <4>2 DEF Told
    <3>2. CASE DocumentOf[s] # d
      <4>1. Told(m, s) /\ s \notin Steps(d) /\ Steps(DocumentOf[s]) \subseteq Sessions
        BY <3>2, SessionsThere DEF Steps
      <4> QED BY <2>3, <2>5, <2>7, <4>1 DEF Told
    <3> QED BY <3>1, <3>2
  <2> QED BY <2>5, <2>6, <2>8 DEF n, ToldAll
<1> QED BY <1>1, <1>2

\* refreshPackageAdmission with the notification that follows it: only the steps of
\* the package need to be told.
LEMMA AnnounceGood ==
  ASSUME NEW m \in Manager, Tried(m), NEW d \in Documents,
         \A s \in Sessions : DocumentOf[s] # d => Told(m, s)
  PROVE  LET n == NotifyPackage(RefreshPackageAdmission(m, d), d)
         IN  n \in Manager /\ Alike(m, n) /\ Tried(n) /\ ToldAll(n)
<1> DEFINE r == RefreshPackageAdmission(m, d)
           n == NotifyPackage(r, d)
<1>1. r \in Manager /\ Alike(m, r) /\ Tried(r) /\ ToldAll(r)
  BY RefreshTold
<1> HIDE DEF r
<1>2. n \in Manager /\ Alike(r, n) /\ Tried(n) /\ n.session = r.session
  BY <1>1, NotifyAlike
<1> HIDE DEF n
<1>3. Alike(m, n)
  BY <1>1, <1>2 DEF Alike
<1>4. ToldAll(n)
  BY <1>1, <1>2 DEF ToldAll, Told
<1> QED BY <1>2, <1>3, <1>4 DEF r, n

\* What every operator of the manager keeps.
Good(m, starter) == m \in Manager /\ Tried(m) /\ ToldAll(m) /\ Attributed(m, starter)

LEMMA NotifyGood ==
  ASSUME NEW m, NEW starter, Good(m, starter), NEW d
  PROVE  /\ Good(NotifyPackage(m, d), starter) /\ Alike(m, NotifyPackage(m, d))
         /\ NotifyPackage(m, d).session = m.session
<1> DEFINE n == NotifyPackage(m, d)
<1>1. n \in Manager /\ Alike(m, n) /\ Tried(n) /\ n.session = m.session
  BY NotifyAlike DEF Good
<1> HIDE DEF n
<1>2. ToldAll(n) /\ Attributed(n, starter)
  BY <1>1, AlikeGood DEF ToldAll, Told, Good
<1> QED BY <1>1, <1>2 DEF n, Good

LEMMA SessionsAre ==
  /\ Absent \in SessionType /\ NewSession \in SessionType /\ NoState \in State /\ InitState \in State
  /\ ~Absent.open /\ Absent.run = 0 /\ ~Absent.starting /\ Absent.awaiting = 0
  /\ NewSession.run = 0 /\ ~NewSession.blocked /\ ~NewSession.starting /\ NewSession.awaiting = 0
<1>1. 0 \in 0..MaxRuns /\ 0 \in Nat
  BY SessionsAssumption
<1>2. "loaded" \in ProgramStatus
  BY DEF ProgramStatus
<1>3. Absent \in SessionType /\ ~Absent.open /\ Absent.run = 0 /\ ~Absent.starting /\ Absent.awaiting = 0
  BY <1>1, <1>2 DEF Absent, SessionType
<1>4. NewSession \in SessionType /\ NewSession.run = 0 /\ ~NewSession.blocked /\ ~NewSession.starting
      /\ NewSession.awaiting = 0
  BY <1>3 DEF NewSession, SessionType
<1>5. InitState \in State
  BY <1>1, <1>2 DEF InitState, State
<1>6. NoState \in State
  BY <1>5 DEF NoState, State
<1> QED BY <1>3, <1>4, <1>5, <1>6

-----------------------------------------------------------------------------
(* The operators of one session. *)

LEMMA ReconcileTyped ==
  ASSUME NEW x \in SessionType, NEW run \in 0..MaxRuns, NEW ok \in BOOLEAN
  PROVE  LET y == ReconcileAdmission(x, run, ok)
         IN  /\ y \in SessionType /\ y.open = x.open /\ y.starting = x.starting
             /\ y.awaiting = x.awaiting
             /\ y.run = x.run \/ (ok /\ run # 0 /\ y.run = run)
<1> DEFINE y == ReconcileAdmission(x, run, ok)
<1>1. CASE ~ok
  BY <1>1 DEF ReconcileAdmission, SessionType
<1>2. CASE ok /\ (run = 0 \/ x.run >= run)
  BY <1>2 DEF ReconcileAdmission
<1>3. CASE ok /\ ~(run = 0 \/ x.run >= run)
  <2>1. y = [x EXCEPT !.run = run, !.status = "running", !.error = ""]
    BY <1>3 DEF ReconcileAdmission
  <2>2. "running" \in ProgramStatus
    BY DEF ProgramStatus
  <2> HIDE DEF y
  <2>3. /\ y \in SessionType /\ y.open = x.open /\ y.starting = x.starting
        /\ y.awaiting = x.awaiting /\ y.run = run
    BY <2>1, <2>2 DEF SessionType
  <2> QED BY <1>3, <2>3 DEF y
<1> QED BY <1>1, <1>2, <1>3

LEMMA FinishTyped ==
  ASSUME NEW x \in SessionType, NEW s \in Sessions, NEW run \in 0..MaxRuns, NEW ok \in BOOLEAN,
         NEW st \in State
  PROVE  LET y == FinishStart(x, s, run, ok, st)
         IN  /\ y \in SessionType /\ y.open = x.open /\ ~y.starting
             /\ y.run = x.run \/ (ok /\ run # 0 /\ y.run = run)
<1> DEFINE shown == IF ok \/ Standalone(s) \/ x.run = 0 THEN ReconcileAdmission(x, run, ok) ELSE x
           y == FinishStart(x, s, run, ok, st)
           aw == IF ok /\ run # 0 /\ ~(st.doc = DocumentOf[s] /\ st.run = run) THEN run
                 ELSE IF ok /\ run # 0 THEN 0 ELSE shown.awaiting
<1>1. shown \in SessionType /\ shown.open = x.open
      /\ (shown.run = x.run \/ (ok /\ run # 0 /\ shown.run = run))
  BY ReconcileTyped
<1>2. y = [shown EXCEPT !.starting = FALSE, !.request = 0, !.rejected = ~ok, !.awaiting = aw]
  BY DEF FinishStart
<1> HIDE DEF shown, y
<1>3. aw \in 0..MaxRuns
  <2>1. shown.awaiting \in 0..MaxRuns /\ 0 \in 0..MaxRuns
    <3>1. shown \in SessionType
      BY <1>1
    <3>2. shown.awaiting \in 0..MaxRuns
      BY <3>1 DEF SessionType
    <3>3. 0 \in 0..MaxRuns
      BY SessionsAssumption
    <3> QED BY <3>2, <3>3
  <2> QED BY <2>1
<1> HIDE DEF aw
<1>4. y \in SessionType /\ y.open = shown.open /\ ~y.starting /\ y.run = shown.run
  BY <1>1, <1>2, <1>3 DEF SessionType
<1> QED BY <1>1, <1>4 DEF y

LEMMA ApplyTyped ==
  ASSUME NEW x \in SessionType, NEW s \in Sessions, NEW st \in State
  PROVE  LET y == ApplyRunState(x, s, st)
         IN  /\ y \in SessionType /\ y.open = x.open /\ y.starting = x.starting /\ y.run = x.run
<1> DEFINE error == IF st.status = "failed" THEN "failed" ELSE ""
           waits == IF x.awaiting = st.run THEN 0 ELSE x.awaiting
           y == ApplyRunState(x, s, st)
<1>1. st.status \in ProgramStatus /\ 0 \in 0..MaxRuns
  BY SessionsAssumption DEF State
<1>2. error \in {"", "rejected", "failed", "action"} /\ waits \in 0..MaxRuns
  BY <1>1 DEF SessionType
<1>3. y = x \/ y = [x EXCEPT !.status = st.status, !.error = error, !.awaiting = waits]
  BY DEF ApplyRunState
<1> HIDE DEF error, waits, y
<1>4. y \in SessionType /\ y.open = x.open /\ y.starting = x.starting /\ y.run = x.run
  BY <1>1, <1>2, <1>3 DEF SessionType
<1> QED BY <1>4 DEF y

-----------------------------------------------------------------------------
(* The operators of the manager. *)

LEMMA InitGood ==
  ASSUME NEW docs, NEW starter
  PROVE  Good(InitManager(docs), starter) /\ \A s \in Sessions : ~InitManager(docs).session[s].starting
<1> DEFINE m == InitManager(docs)
<1>1. 0 \in 0..MaxRuns /\ 0 \in Nat /\ {} \in SUBSET Runs
  BY SessionsAssumption
<1>2. NoAttempt \in AttemptType /\ NoStrip \in StripType
  BY <1>1 DEF NoAttempt, AttemptType, NoStrip, StripType, Phases, ProgramStatus
<1>3. /\ m.session = [s \in Sessions |-> IF DocumentOf[s] \in docs THEN NewSession ELSE Absent]
      /\ m.owner = [r \in Runs |-> 0] /\ m.attempt = [d \in Packages |-> NoAttempt]
  BY DEF InitManager
<1>4. m \in Manager
  BY <1>1, <1>2, SessionsAre DEF InitManager, Manager
<1>5. \A s \in Sessions : /\ m.session[s].run = 0 /\ ~m.session[s].starting
                          /\ ~Admitting(m.session[s])
                          /\ m.session[s].open => ~m.session[s].blocked
  BY <1>3, SessionsAre DEF Admitting
<1>6. NoAttempt.phase = "none"
  BY DEF NoAttempt
<1> HIDE DEF m
<1>7. Tried(m)
  BY <1>3, <1>6 DEF Tried
<1>8. ToldAll(m)
  BY <1>5, SessionsThere DEF ToldAll, Told
<1>9. Attributed(m, starter)
  BY <1>3, <1>5, SessionsAssumption DEF Attributed, Runs
<1> QED BY <1>4, <1>5, <1>7, <1>8, <1>9 DEF m, Good

LEMMA AddGood ==
  ASSUME NEW m, NEW starter, Good(m, starter), NEW d \in Documents
  PROVE  /\ Good(AddSessions(m, d), starter)
         /\ \A s \in Sessions \ Steps(d) : AddSessions(m, d).session[s] = m.session[s]
<1> DEFINE next == [s \in Sessions |-> IF s \in Steps(d) THEN NewSession ELSE m.session[s]]
           n == AddSessions(m, d)
<1>1. n = [m EXCEPT !.session = next]
  BY DEF AddSessions
<1>2. m \in Manager /\ next \in [Sessions -> SessionType]
  BY SessionsAre DEF Good, Manager
<1>3. \A s \in Sessions : /\ s \in Steps(d) => next[s] = NewSession
                          /\ s \notin Steps(d) => next[s] = m.session[s]
  OBVIOUS
<1> HIDE DEF n, next
<1>4. n \in Manager /\ n.session = next /\ n.owner = m.owner /\ n.attempt = m.attempt
  BY <1>1, <1>2 DEF Manager
<1>5. Tried(n)
  BY <1>4 DEF Tried, Good
<1>6. Attributed(n, starter)
  BY <1>3, <1>4, SessionsAre, SessionsAssumption DEF Attributed, Good, Runs
<1>7. ASSUME NEW s \in Sessions PROVE Told(n, s)
  <2>1. CASE s \in Steps(d)
    <3>1. DocumentOf[s] = d /\ \A t \in Steps(d) : ~Admitting(next[t])
      BY <1>3, <2>1, SessionsThere, SessionsAre DEF Admitting, Steps
    <3> QED BY <1>3, <1>4, <2>1, <3>1, SessionsAre DEF Told
  <2>2. CASE s \notin Steps(d)
    <3>1. Told(m, s) /\ DocumentOf[s] # d
      BY <2>2 DEF Good, ToldAll, Steps
    <3>2. \A t \in Steps(DocumentOf[s]) : t \in Sessions /\ t \notin Steps(d)
      BY <3>1 DEF Steps
    <3> QED BY <1>3, <1>4, <2>2, <3>1, <3>2 DEF Told
  <2> QED BY <2>1, <2>2
<1> QED BY <1>3, <1>4, <1>5, <1>6, <1>7 DEF n, Good, ToldAll

LEMMA RemoveGood ==
  ASSUME NEW m, NEW starter, Good(m, starter), NEW d \in Documents
  PROVE  /\ Good(RemoveSessions(m, d), starter)
         /\ \A s \in Sessions \ Steps(d) : RemoveSessions(m, d).session[s] = m.session[s]
<1> DEFINE next == [s \in Sessions |-> IF s \in Steps(d) THEN Absent ELSE m.session[s]]
           owner == [r \in Runs |-> IF m.owner[r] \in Steps(d) /\ m.session[m.owner[r]].run = r
                                    THEN 0 ELSE m.owner[r]]
           attempt == [e \in Packages |-> IF e = d THEN NoAttempt ELSE m.attempt[e]]
           strip == [e \in Packages |-> IF e = d THEN NoStrip ELSE m.strip[e]]
           n == RemoveSessions(m, d)
<1>1. 0 \in 0..MaxRuns /\ 0 \in Nat
  BY SessionsAssumption
<1>2. n = [m EXCEPT !.session = next, !.owner = owner, !.attempt = attempt, !.strip = strip]
  BY DEF RemoveSessions
<1>3. NoAttempt \in AttemptType /\ NoAttempt.phase = "none" /\ NoStrip \in StripType
  BY <1>1 DEF NoAttempt, AttemptType, NoStrip, StripType, Phases, ProgramStatus
<1>4. m \in Manager /\ next \in [Sessions -> SessionType] /\ owner \in [Runs -> Sessions \cup {0}]
      /\ attempt \in [Packages -> AttemptType] /\ strip \in [Packages -> StripType]
  BY <1>3, SessionsAre DEF Good, Manager
<1>5. /\ \A s \in Sessions : /\ s \in Steps(d) => next[s] = Absent
                             /\ s \notin Steps(d) => next[s] = m.session[s]
      /\ \A r \in Runs : owner[r] # 0 => owner[r] = m.owner[r]
      /\ \A e \in Packages : attempt[e].phase # "none" => attempt[e] = m.attempt[e]
  BY <1>3
<1> HIDE DEF n, next, owner, attempt, strip
<1>6. n \in Manager /\ n.session = next /\ n.owner = owner /\ n.attempt = attempt
  BY <1>2, <1>4 DEF Manager
<1>7. Tried(n)
  BY <1>5, <1>6 DEF Tried, Good
<1>8. Attributed(n, starter)
  BY <1>5, <1>6, SessionsAre, SessionsAssumption DEF Attributed, Good, Runs
<1>9. ASSUME NEW s \in Sessions PROVE Told(n, s)
  <2>1. CASE s \in Steps(d)
    BY <1>5, <1>6, <2>1, SessionsAre DEF Told
  <2>2. CASE s \notin Steps(d)
    <3>1. Told(m, s) /\ DocumentOf[s] # d
      BY <2>2 DEF Good, ToldAll, Steps
    <3>2. \A t \in Steps(DocumentOf[s]) : t \in Sessions /\ t \notin Steps(d)
      BY <3>1 DEF Steps
    <3> QED BY <1>5, <1>6, <2>2, <3>1, <3>2 DEF Told
  <2> QED BY <2>1, <2>2
<1> QED BY <1>5, <1>6, <1>7, <1>8, <1>9 DEF n, Good, ToldAll

\* What happens to one session is no news to the sessions of other documents.
LEMMA OneTold ==
  ASSUME NEW m, NEW n, NEW s \in Sessions, ToldAll(m),
         \A t \in Sessions \ {s} : n.session[t] = m.session[t]
  PROVE  \A t \in Sessions : DocumentOf[t] # DocumentOf[s] => Told(n, t)
<1> SUFFICES ASSUME NEW t \in Sessions, DocumentOf[t] # DocumentOf[s] PROVE Told(n, t)
  OBVIOUS
<1>1. \A u \in Steps(DocumentOf[t]) : u \in Sessions \ {s}
  BY DEF Steps
<1>2. n.session[t] = m.session[t] /\ \A u \in Steps(DocumentOf[t]) : n.session[u] = m.session[u]
  BY <1>1
<1> QED BY <1>2 DEF Told, ToldAll

LEMMA BeginStartGood ==
  ASSUME NEW m, NEW starter, Good(m, starter), NEW s \in Sessions, NEW request \in Nat
  PROVE  LET n == BeginStart(m, s, request)
         IN  /\ Good(n, starter) /\ n.session[s].starting
             /\ \A t \in Sessions \ {s} : n.session[t].starting = m.session[t].starting
<1> DEFINE d == DocumentOf[s]
           x == [m.session[s] EXCEPT !.starting = TRUE, !.request = request, !.rejected = FALSE]
           begun == [m EXCEPT !.session[s].starting = TRUE, !.session[s].request = request,
                              !.session[s].rejected = FALSE]
           tried == [step |-> s, request |-> request, run |-> 0, phase |-> "pending"]
           noted == IF Standalone(s) THEN begun ELSE [begun EXCEPT !.attempt[d] = tried]
           n == NotifyPackage(RefreshPackageAdmission(noted, d), d)
<1>1. n = BeginStart(m, s, request)
  BY DEF BeginStart
<1>2. m \in Manager /\ m.session[s] \in SessionType /\ d \in Documents /\ s \in Steps(d)
  BY SessionsThere DEF Good, Manager
<1>3. x \in SessionType /\ x.starting /\ x.run = m.session[s].run
  BY <1>2 DEF SessionType
<1>4. begun = [m EXCEPT !.session = [m.session EXCEPT ![s] = x]]
  BY <1>2, ZenonT(40) DEF Manager, SessionType
<1>5. tried \in AttemptType /\ tried.step = s
  BY SessionsAssumption DEF AttemptType
<1> HIDE DEF x, begun, tried
<1>6. begun \in Manager /\ begun.session = [m.session EXCEPT ![s] = x] /\ begun.owner = m.owner
      /\ begun.attempt = m.attempt
  BY <1>2, <1>3, <1>4 DEF Manager
<1>7. noted \in Manager /\ noted.session = begun.session /\ noted.owner = m.owner
      /\ (noted.attempt = m.attempt \/ noted.attempt = [m.attempt EXCEPT ![d] = tried])
  BY <1>5, <1>6 DEF Manager
<1> HIDE DEF noted
<1>8. noted.session[s] = x /\ \A t \in Sessions \ {s} : noted.session[t] = m.session[t]
  BY <1>2, <1>6, <1>7 DEF Manager
<1>9. Tried(noted)
  <2>1. \A e \in Packages : noted.attempt[e] = m.attempt[e] \/ (e = d /\ noted.attempt[e] = tried)
    BY <1>2, <1>7 DEF Manager
  <2> QED BY <1>2, <1>5, <2>1 DEF Tried, Good
<1>10. Attributed(noted, starter)
  BY <1>3, <1>7, <1>8 DEF Attributed, Good
<1>11. \A t \in Sessions : DocumentOf[t] # d => Told(noted, t)
  BY <1>8, OneTold DEF Good
<1>12. n \in Manager /\ Alike(noted, n) /\ Tried(n) /\ ToldAll(n)
  BY <1>2, <1>7, <1>9, <1>11, AnnounceGood
<1> HIDE DEF n
<1>13. Attributed(n, starter)
  BY <1>7, <1>10, <1>12, AlikeGood
<1>14. n.session[s].starting /\ \A t \in Sessions \ {s} : n.session[t].starting = m.session[t].starting
  BY <1>3, <1>8, <1>12 DEF Alike
<1> QED BY <1>1, <1>12, <1>13, <1>14 DEF Good

LEMMA AttemptRecorded ==
  ASSUME NEW m \in Manager, Tried(m), NEW s \in Sessions, NEW request, NEW run \in 0..MaxRuns,
         NEW phase \in {"awaiting", "rejected", "historical"}
  PROVE  LET n == RecordPackageAttempt(m, s, request, run, phase)
         IN  /\ n \in Manager /\ Tried(n)
             /\ n.session = m.session /\ n.owner = m.owner /\ n.pending = m.pending
             /\ n.errors = m.errors /\ n.state = m.state /\ n.rev = m.rev
<1> DEFINE d == DocumentOf[s]
           a == [m.attempt[d] EXCEPT !.run = run, !.phase = phase]
           n == RecordPackageAttempt(m, s, request, run, phase)
<1>1. CASE Standalone(s) \/ m.attempt[d].step # s \/ m.attempt[d].request # request
  <2>1. n = m
    BY <1>1 DEF RecordPackageAttempt
  <2> QED BY <2>1
<1>2. CASE ~(Standalone(s) \/ m.attempt[d].step # s \/ m.attempt[d].request # request)
  <2>1. d \in Packages /\ m.attempt[d] \in AttemptType
    BY <1>2 DEF Standalone, Manager
  <2>2. a \in AttemptType /\ a.step = s
    BY <1>2, <2>1 DEF AttemptType
  <2>3. n = [m EXCEPT !.attempt = [m.attempt EXCEPT ![d] = a]]
    BY <1>2, <2>1 DEF RecordPackageAttempt, Manager, AttemptType
  <2> HIDE DEF a, n
  <2>4. /\ n \in Manager /\ n.attempt = [m.attempt EXCEPT ![d] = a]
        /\ n.session = m.session /\ n.owner = m.owner /\ n.pending = m.pending
        /\ n.errors = m.errors /\ n.state = m.state /\ n.rev = m.rev
    BY <2>1, <2>2, <2>3 DEF Manager
  <2>5. \A e \in Packages : n.attempt[e] = IF e = d THEN a ELSE m.attempt[e]
    BY <2>4 DEF Manager
  <2>6. Tried(n)
    BY <2>2, <2>5, SessionsThere DEF Tried
  <2> QED BY <2>4, <2>6 DEF n
<1> QED BY <1>1, <1>2

\* A manager halfway through an operator that concerns session s.
Halfway(m, n, s, starter) ==
  /\ n \in Manager /\ Tried(n) /\ Attributed(n, starter)
  /\ \A t \in Sessions \ {s} : n.session[t] = m.session[t]

LEMMA HalfwayGood ==
  ASSUME NEW m, NEW n, NEW s \in Sessions, NEW starter, Good(m, starter), Halfway(m, n, s, starter)
  PROVE  LET l == NotifyPackage(RefreshPackageAdmission(n, DocumentOf[s]), DocumentOf[s])
             r == RefreshPackageAdmission(n, DocumentOf[s])
         IN  /\ Good(l, starter) /\ Alike(n, l)
             /\ Good(r, starter) /\ Alike(n, r)
<1> DEFINE d == DocumentOf[s]
           r == RefreshPackageAdmission(n, d)
           l == NotifyPackage(r, d)
<1>1. d \in Documents /\ n \in Manager /\ Tried(n) /\ \A t \in Sessions : DocumentOf[t] # d => Told(n, t)
  BY OneTold, SessionsThere DEF Good, Halfway
<1>2. l \in Manager /\ Alike(n, l) /\ Tried(l) /\ ToldAll(l)
  BY <1>1, AnnounceGood
<1>3. r \in Manager /\ Alike(n, r) /\ Tried(r) /\ ToldAll(r)
  BY <1>1, RefreshTold
<1> HIDE DEF l, r
<1>4. Attributed(l, starter) /\ Attributed(r, starter)
  BY <1>1, <1>2, <1>3, AlikeGood DEF Halfway
<1> QED BY <1>2, <1>3, <1>4 DEF Good, l, r

\* Session s becomes x.
LEMMA SessionBecomes ==
  ASSUME NEW m, NEW n, NEW s \in Sessions, NEW starter, NEW x \in SessionType,
         Halfway(m, n, s, starter),
         x.run = n.session[s].run \/ (x.run \in Runs /\ starter[x.run] = s)
  PROVE  LET l == [n EXCEPT !.session = [n.session EXCEPT ![s] = x]]
         IN  Halfway(m, l, s, starter) /\ l.session[s] = x /\ l.owner = n.owner /\ l.pending = n.pending
             /\ l.errors = n.errors /\ l.state = n.state /\ l.attempt = n.attempt /\ l.rev = n.rev
<1> DEFINE l == [n EXCEPT !.session = [n.session EXCEPT ![s] = x]]
<1>1. n \in Manager
  BY DEF Halfway
<1>2. /\ l \in Manager /\ l.session = [n.session EXCEPT ![s] = x] /\ l.owner = n.owner
      /\ l.attempt = n.attempt /\ l.pending = n.pending /\ l.errors = n.errors /\ l.state = n.state
      /\ l.rev = n.rev
  BY <1>1 DEF Manager
<1> HIDE DEF l
<1>3. l.session[s] = x /\ \A t \in Sessions \ {s} : l.session[t] = n.session[t]
  BY <1>1, <1>2 DEF Manager
<1>4. Tried(l)
  BY <1>2 DEF Tried, Halfway
<1>5. Attributed(l, starter)
  BY <1>2, <1>3 DEF Attributed, Halfway
<1> QED BY <1>2, <1>3, <1>4, <1>5 DEF Halfway, l

\* AssociateRun: the session adopts the run of its own Start only.
LEMMA AssociateGood ==
  ASSUME NEW m, NEW starter, Good(m, starter), NEW s \in Sessions, NEW run \in 0..MaxRuns,
         NEW ok \in BOOLEAN, ok /\ run # 0 => starter[run] = s
  PROVE  LET n == AssociateRun(m, s, run, ok)
         IN  /\ Good(n, starter)
             /\ \A t \in Sessions \ {s} : n.session[t].starting = m.session[t].starting
<1> DEFINE d == DocumentOf[s]
           old == m.session[s].run
           request == m.session[s].request
           x == FinishStart(m.session[s], s, run, ok, m.state)
           done == [m EXCEPT !.session = [m.session EXCEPT ![s] = x]]
           owner == [r \in Runs |-> IF r = run THEN s ELSE IF r = old THEN 0 ELSE m.owner[r]]
           owned == [done EXCEPT !.owner = owner]
           recorded == RecordPackageAttempt(owned, s, request, run, "awaiting")
           state == IF run = 0 THEN NoState ELSE m.pending[run]
           y == ApplyRunState(recorded.session[s], s, state)
           cleared == [recorded EXCEPT !.pending = [recorded.pending EXCEPT ![run] = NoState]]
           applied == [cleared EXCEPT !.session = [cleared.session EXCEPT ![s] = y]]
           ended == RecordPackageAttempt(applied, s, request, run, "historical")
           caught == IF state = NoState THEN recorded ELSE IF IsActive(state) THEN applied ELSE ended
           z == [caught.session[s] EXCEPT !.error = "failed"]
           forgot == [caught EXCEPT !.errors = caught.errors \ {run}]
           errored == IF run \in m.errors
                      THEN [forgot EXCEPT !.session = [forgot.session EXCEPT ![s] = z]] ELSE caught
           refused == RecordPackageAttempt(done, s, request, run, "rejected")
           result == IF ok /\ run # 0 THEN errored ELSE refused
           \* The same, as AssociateRun writes them.
           done0 == [m EXCEPT !.session[s] = FinishStart(@, s, run, ok, m.state)]
           owned0 == [done0 EXCEPT !.owner = [r \in Runs |-> IF r = run THEN s
                                                             ELSE IF r = old THEN 0 ELSE @[r]]]
           recorded0 == RecordPackageAttempt(owned0, s, request, run, "awaiting")
           applied0 == [recorded0 EXCEPT !.pending[run] = NoState,
                                         !.session[s] = ApplyRunState(@, s, state)]
           caught0 == IF state = NoState THEN recorded0
                      ELSE IF IsActive(state) THEN applied0
                      ELSE RecordPackageAttempt(applied0, s, request, run, "historical")
           errored0 == IF run \in m.errors
                       THEN [caught0 EXCEPT !.session[s].error = "failed", !.errors = @ \ {run}]
                       ELSE caught0
           result0 == IF ok /\ run # 0 THEN errored0
                      ELSE RecordPackageAttempt(done0, s, request, run, "rejected")
<1>1. AssociateRun(m, s, run, ok) = NotifyPackage(RefreshPackageAdmission(result0, d), d)
  BY DEF AssociateRun
<1>2. m \in Manager /\ m.session[s] \in SessionType /\ m.state \in State /\ Halfway(m, m, s, starter)
  BY DEF Good, Manager, Halfway
<1>3. x \in SessionType /\ (x.run = m.session[s].run \/ (ok /\ run # 0 /\ x.run = run))
  BY <1>2, FinishTyped
<1>4. run # 0 => run \in Runs
  BY SessionsAssumption DEF Runs
<1>5. done0 = done
  BY <1>2 DEF Manager
<1> HIDE DEF x, done0
<1>6. Halfway(m, done, s, starter) /\ done.owner = m.owner /\ done.pending = m.pending
  <2>1. x.run = m.session[s].run \/ (x.run \in Runs /\ starter[x.run] = s)
    BY <1>3, <1>4
  <2> QED BY <1>2, <1>3, <2>1, SessionBecomes
<1> HIDE DEF done
<1>7. Halfway(m, refused, s, starter)
  <2>1. done \in Manager /\ Tried(done)
    BY <1>6 DEF Halfway
  <2>2. refused \in Manager /\ Tried(refused) /\ refused.session = done.session /\ refused.owner = done.owner
    BY <2>1, AttemptRecorded
  <2> HIDE DEF refused
  <2> QED BY <1>6, <2>2 DEF Halfway, Attributed
<1>8. ASSUME ok, run # 0 PROVE Halfway(m, errored, s, starter) /\ errored0 = errored
  <2>1. owner \in [Runs -> Sessions \cup {0}]
    BY <1>2 DEF Manager
  <2>2. \A r \in Runs : owner[r] # 0 => owner[r] = m.owner[r] \/ (r = run /\ owner[r] = s)
    OBVIOUS
  <2>3. owned0 = owned
    <3>1. done \in Manager
      BY <1>6 DEF Halfway
    <3> QED BY <1>6, <1>5, <3>1 DEF Manager
  <2> HIDE DEF owner, owned0
  <2>4. owned \in Manager /\ owned.owner = owner /\ owned.session = done.session
        /\ owned.attempt = done.attempt /\ owned.pending = done.pending
    BY <1>6, <2>1 DEF Halfway, Manager
  <2> HIDE DEF owned
  <2>5. Halfway(m, owned, s, starter)
    BY <1>6, <1>8, <2>2, <2>4 DEF Halfway, Attributed, Tried
  <2>6. Halfway(m, recorded, s, starter) /\ recorded.pending = m.pending
    <3>1. owned \in Manager /\ Tried(owned)
      BY <2>5 DEF Halfway
    <3>2. recorded \in Manager /\ Tried(recorded) /\ recorded.session = owned.session
          /\ recorded.owner = owned.owner /\ recorded.pending = owned.pending
      BY <3>1, AttemptRecorded
    <3> HIDE DEF recorded
    <3> QED BY <1>6, <2>4, <2>5, <3>2 DEF Halfway, Attributed
  <2>7. recorded0 = recorded
    BY <2>3
  <2> HIDE DEF recorded, recorded0
  <2>8. state \in State
    BY <1>2, <1>4, SessionsAre DEF Manager
  <2> HIDE DEF state
  <2>9. recorded \in Manager /\ recorded.session[s] \in SessionType
    BY <2>6 DEF Halfway, Manager
  <2>10. y \in SessionType /\ y.run = recorded.session[s].run
    BY <2>8, <2>9, ApplyTyped
  <2>11. applied0 = applied
    BY <1>4, <1>8, <2>9, <2>7 DEF Manager
  <2> HIDE DEF y, applied0
  <2>12. Halfway(m, cleared, s, starter) /\ cleared.session = recorded.session
    <3>1. cleared \in Manager /\ cleared.session = recorded.session /\ cleared.owner = recorded.owner
          /\ cleared.attempt = recorded.attempt
      BY <1>4, <1>8, <2>9, SessionsAre DEF Manager
    <3> HIDE DEF cleared
    <3> QED BY <2>6, <3>1 DEF Halfway, Attributed, Tried
  <2> HIDE DEF cleared
  <2>13. Halfway(m, applied, s, starter)
    BY <2>10, <2>12, SessionBecomes
  <2> HIDE DEF applied
  <2>14. Halfway(m, ended, s, starter)
    <3>1. applied \in Manager /\ Tried(applied)
      BY <2>13 DEF Halfway
    <3>2. ended \in Manager /\ Tried(ended) /\ ended.session = applied.session
          /\ ended.owner = applied.owner
      BY <3>1, AttemptRecorded
    <3> HIDE DEF ended
    <3> QED BY <2>13, <3>2 DEF Halfway, Attributed
  <2> HIDE DEF ended
  <2>15. Halfway(m, caught, s, starter)
    BY <2>6, <2>13, <2>14
  <2>16. caught0 = caught
    BY <2>7, <2>11 DEF ended
  <2> HIDE DEF caught, caught0
  <2>17. caught \in Manager /\ caught.session[s] \in SessionType
    BY <2>15 DEF Halfway, Manager
  <2>18. Halfway(m, forgot, s, starter) /\ forgot.session = caught.session
    <3>1. forgot \in Manager /\ forgot.session = caught.session /\ forgot.owner = caught.owner
          /\ forgot.attempt = caught.attempt
      BY <2>17 DEF Manager
    <3> HIDE DEF forgot
    <3> QED BY <2>15, <3>1 DEF Halfway, Attributed, Tried
  <2>19. z \in SessionType /\ z.run = caught.session[s].run
    BY <2>17 DEF SessionType
  <2>20. errored0 = errored
    BY <2>17, <2>16 DEF Manager, SessionType
  <2> HIDE DEF forgot, z, errored0
  <2>21. Halfway(m, errored, s, starter)
    BY <2>15, <2>18, <2>19, SessionBecomes
  <2> QED BY <2>20, <2>21
<1>9. Halfway(m, result, s, starter) /\ result0 = result
  <2> HIDE DEF errored, errored0
  <2>1. CASE ok /\ run # 0
    BY <1>8, <2>1
  <2>2. CASE ~(ok /\ run # 0)
    <3>1. result0 = refused /\ result = refused
      BY <1>5, <2>2
    <3> QED BY <1>7, <3>1
  <2> QED BY <2>1, <2>2
<1> HIDE DEF result, result0
<1> DEFINE n == NotifyPackage(RefreshPackageAdmission(result, d), d)
<1>10. Good(n, starter) /\ Alike(result, n)
  BY <1>9, HalfwayGood
<1> HIDE DEF n
<1>11. \A t \in Sessions \ {s} : n.session[t].starting = m.session[t].starting
  BY <1>9, <1>10 DEF Alike, Halfway
<1> QED BY <1>1, <1>9, <1>10, <1>11 DEF n

EventsOf == [rev : Nat, state : State, error : 0..MaxRuns,
             from : {"start", "runner", "bridge", "action", "stop", "stopper"}]
SameStarting(m, n) == \A t \in Sessions : n.session[t].starting = m.session[t].starting

\* A change elsewhere than in the sessions, the owners and the attempts.
LEMMA AsideGood ==
  ASSUME NEW m, NEW n \in Manager, NEW starter, Good(m, starter),
         n.session = m.session, n.owner = m.owner, n.attempt = m.attempt
  PROVE  Good(n, starter) /\ SameStarting(m, n)
BY DEF Good, ToldAll, Told, Attributed, Tried, SameStarting

LEMMA RememberGood ==
  ASSUME NEW m, NEW starter, Good(m, starter), NEW st \in State
  PROVE  Good(RememberState(m, st), starter) /\ SameStarting(m, RememberState(m, st))
<1> DEFINE n == RememberState(m, st)
           l == [m EXCEPT !.pending = [m.pending EXCEPT ![st.run] = st]]
<1>1. m \in Manager
  BY DEF Good
<1>2. n = m \/ n = l
  BY <1>1 DEF RememberState, Manager
<1>3. l \in Manager /\ l.session = m.session /\ l.owner = m.owner /\ l.attempt = m.attempt
  BY <1>1 DEF Manager
<1> HIDE DEF l, n
<1>4. n \in Manager /\ n.session = m.session /\ n.owner = m.owner /\ n.attempt = m.attempt
  BY <1>1, <1>2, <1>3
<1>5. Good(n, starter) /\ SameStarting(m, n)
  BY <1>4, AsideGood
<1> QED BY <1>5 DEF n

LEMMA ApplyStateGood ==
  ASSUME NEW m, NEW starter, Good(m, starter), NEW e \in EventsOf
  PROVE  Good(ApplyState(m, e), starter) /\ SameStarting(m, ApplyState(m, e))
<1> DEFINE st == e.state
           s == IF st.run = 0 THEN 0 ELSE m.owner[st.run]
           d == IF s = 0 THEN 0 ELSE DocumentOf[s]
           now == [m EXCEPT !.rev = e.rev, !.state = st]
           run == [now EXCEPT !.session[s] = ApplyRunState(@, s, st)]
           ended == IF d \in Packages /\ m.attempt[d].step = s /\ m.attempt[d].run = st.run
                         /\ ~IsActive(st)
                    THEN [run EXCEPT !.attempt[d].phase = "historical"] ELSE run
           routed == IF s # 0 THEN RefreshPackageAdmission(ended, d)
                     ELSE IF AwaitingAdmission(m, st.doc) /\ st.run # 0 THEN RememberState(now, st)
                     ELSE now
           active == IF d \in Packages /\ IsActive(st) THEN d ELSE 0
           told == IF active = 0 THEN routed ELSE NotifyPackage(routed, active)
           result == IF m.lastActive \in {0, active} THEN told ELSE NotifyPackage(told, m.lastActive)
<1>1. ApplyState(m, e) = [result EXCEPT !.lastActive = active]
  BY DEF ApplyState
<1>2. m \in Manager /\ st \in State /\ e.rev \in Nat
  BY DEF Good, EventsOf
<1>3. s \in Sessions \cup {0} /\ (s # 0 => st.run \in Runs /\ d \in Documents /\ d = DocumentOf[s])
  BY <1>2, SessionsThere, SessionsAssumption DEF Manager, State, Runs
<1> HIDE DEF s, d
<1>4. now \in Manager /\ now.session = m.session /\ now.owner = m.owner /\ now.attempt = m.attempt
      /\ now.pending = m.pending
  BY <1>2 DEF Manager
<1>5. Good(now, starter) /\ SameStarting(m, now)
  BY <1>4, AsideGood
<1>6. Good(routed, starter) /\ SameStarting(m, routed)
  <2>1. CASE s # 0
    <3> DEFINE x == ApplyRunState(now.session[s], s, st)
               a == [m.attempt[d] EXCEPT !.phase = "historical"]
    <3>1. now.session[s] \in SessionType /\ s \in Sessions
      BY <1>3, <1>4, <2>1 DEF Manager
    <3>2. x \in SessionType /\ x.run = now.session[s].run /\ x.starting = now.session[s].starting
      BY <1>2, <3>1, ApplyTyped
    <3>3. run = [now EXCEPT !.session = [now.session EXCEPT ![s] = x]]
      BY <1>4 DEF Manager
    <3> HIDE DEF x, now, run
    <3>4. Halfway(now, now, s, starter)
      BY <1>5 DEF Good, Halfway
    <3>5. Halfway(now, run, s, starter) /\ run.session[s] = x /\ run.attempt = now.attempt
      BY <3>1, <3>2, <3>3, <3>4, SessionBecomes
    <3>6. run \in Manager
      BY <3>5 DEF Halfway
    <3>7. Halfway(now, ended, s, starter) /\ ended.session = run.session
      <4>1. CASE ended = run
        BY <3>5, <4>1
      <4>2. CASE d \in Packages /\ ended = [run EXCEPT !.attempt[d].phase = "historical"]
        <5>1. m.attempt[d] \in AttemptType
          BY <1>2, <4>2 DEF Manager
        <5>2. a \in AttemptType /\ a.phase = "historical"
          BY <5>1 DEF AttemptType
        <5>3. ended = [run EXCEPT !.attempt = [run.attempt EXCEPT ![d] = a]]
          BY <1>4, <3>5, <3>6, <4>2, <5>1 DEF Manager, AttemptType
        <5> HIDE DEF a, ended
        <5>4. ended \in Manager /\ ended.session = run.session /\ ended.owner = run.owner
              /\ ended.attempt = [run.attempt EXCEPT ![d] = a]
          BY <3>6, <5>2, <5>3 DEF Manager
        <5>5. \A b \in Packages : ended.attempt[b].phase # "historical" => ended.attempt[b] = run.attempt[b]
          BY <3>6, <5>2, <5>4 DEF Manager
        <5>6. Tried(ended)
          BY <3>5, <5>5 DEF Halfway, Tried
        <5> QED BY <3>5, <5>4, <5>6 DEF Halfway, Attributed
      <4>3. ended = run \/ (d \in Packages /\ ended = [run EXCEPT !.attempt[d].phase = "historical"])
        OBVIOUS
      <4> QED BY <4>1, <4>2, <4>3
    <3> HIDE DEF ended
    <3>8. routed = RefreshPackageAdmission(ended, DocumentOf[s])
      BY <1>3, <2>1
    <3> HIDE DEF routed
    <3>9. Good(routed, starter) /\ Alike(ended, routed)
      BY <1>5, <3>1, <3>7, <3>8, HalfwayGood
    <3>10. SameStarting(now, routed)
      BY <3>2, <3>5, <3>7, <3>9 DEF SameStarting, Alike, Halfway
    <3> QED BY <1>5, <3>9, <3>10 DEF SameStarting
  <2>2. CASE s = 0
    <3>1. routed = now \/ routed = RememberState(now, st)
      BY <2>2
    <3> HIDE DEF routed, now
    <3>2. Good(RememberState(now, st), starter) /\ SameStarting(now, RememberState(now, st))
      BY <1>2, <1>5, RememberGood
    <3> QED BY <1>5, <3>1, <3>2 DEF SameStarting
  <2> QED BY <2>1, <2>2
<1>7. active \in Packages \cup {0}
  OBVIOUS
<1> HIDE DEF routed, active
<1>8. Good(told, starter) /\ SameStarting(routed, told)
  BY <1>6, NotifyGood DEF Alike, SameStarting
<1> HIDE DEF told
<1>9. Good(result, starter) /\ SameStarting(told, result)
  BY <1>8, NotifyGood DEF Alike, SameStarting
<1> HIDE DEF result
<1> DEFINE l == [result EXCEPT !.lastActive = active]
<1>10. l \in Manager /\ l.session = result.session /\ l.owner = result.owner /\ l.attempt = result.attempt
  BY <1>7, <1>9 DEF Good, Manager
<1> HIDE DEF l
<1>11. Good(l, starter) /\ SameStarting(result, l)
  BY <1>9, <1>10, AsideGood
<1>12. SameStarting(m, l)
  BY <1>6, <1>8, <1>9, <1>11 DEF SameStarting
<1> QED BY <1>1, <1>11, <1>12 DEF l

\* A session changes in what neither its siblings nor the index of runs depend on.
LEMMA DetailGood ==
  ASSUME NEW m, NEW starter, Good(m, starter), NEW s \in Sessions, NEW x \in SessionType,
         x.run = m.session[s].run, x.starting = m.session[s].starting,
         x.awaiting = m.session[s].awaiting, x.blocked = m.session[s].blocked,
         x.open = m.session[s].open
  PROVE  LET l == [m EXCEPT !.session = [m.session EXCEPT ![s] = x]]
         IN  Good(l, starter) /\ SameStarting(m, l)
<1> DEFINE l == [m EXCEPT !.session = [m.session EXCEPT ![s] = x]]
<1>1. m \in Manager
  BY DEF Good
<1>2. l \in Manager /\ l.session = [m.session EXCEPT ![s] = x] /\ l.owner = m.owner
      /\ l.attempt = m.attempt
  BY <1>1 DEF Manager
<1> HIDE DEF l
<1>3. \A t \in Sessions :
        /\ l.session[t].run = m.session[t].run /\ l.session[t].starting = m.session[t].starting
        /\ l.session[t].awaiting = m.session[t].awaiting /\ l.session[t].open = m.session[t].open
        /\ l.session[t].blocked = m.session[t].blocked
  BY <1>1, <1>2 DEF Manager
<1>4. ToldAll(l)
  <2>1. \A t \in Sessions : Admitting(l.session[t]) <=> Admitting(m.session[t])
    BY <1>3 DEF Admitting
  <2> QED BY <1>3, <2>1, SessionsThere DEF ToldAll, Told, Good
<1>5. Good(l, starter) /\ SameStarting(m, l)
  BY <1>2, <1>3, <1>4 DEF Good, Tried, Attributed, SameStarting
<1> QED BY <1>5 DEF l

LEMMA ApplyErrorGood ==
  ASSUME NEW m, NEW starter, Good(m, starter), NEW e \in EventsOf, e.error # 0
  PROVE  Good(ApplyError(m, e), starter) /\ SameStarting(m, ApplyError(m, e))
<1> DEFINE s == m.owner[e.error]
           n == ApplyError(m, e)
           error == IF m.session[s].run = e.error THEN "failed" ELSE m.session[s].error
           x == [m.session[s] EXCEPT !.error = error]
           l == [m EXCEPT !.session = [m.session EXCEPT ![s] = x]]
           k == [m EXCEPT !.errors = m.errors \cup {e.error}]
<1>1. m \in Manager /\ e.error \in Runs /\ s \in Sessions \cup {0}
  BY SessionsAssumption DEF Good, EventsOf, Runs, Manager
<1>2. CASE s # 0
  <2>1. m.session[s] \in SessionType /\ s \in Sessions
    BY <1>1, <1>2 DEF Manager
  <2>2. n = NotifyPackage(l, DocumentOf[s])
    BY <1>1, <1>2, <2>1 DEF ApplyError, Manager, SessionType
  <2>3. error \in {"", "rejected", "failed", "action"}
    BY <2>1 DEF SessionType
  <2> HIDE DEF error, n
  <2>4. /\ x \in SessionType /\ x.run = m.session[s].run /\ x.starting = m.session[s].starting
        /\ x.awaiting = m.session[s].awaiting /\ x.blocked = m.session[s].blocked
        /\ x.open = m.session[s].open
    BY <2>1, <2>3 DEF SessionType
  <2> HIDE DEF x
  <2>5. Good(l, starter) /\ SameStarting(m, l)
    BY <2>1, <2>4, DetailGood
  <2> HIDE DEF l
  <2>6. Good(n, starter) /\ SameStarting(l, n)
    BY <2>2, <2>5, NotifyGood DEF Alike, SameStarting
  <2> QED BY <2>5, <2>6 DEF n, SameStarting
<1>3. CASE s = 0
  <2>1. n = m \/ n = k
    BY <1>3 DEF ApplyError
  <2>2. k \in Manager /\ k.session = m.session /\ k.owner = m.owner /\ k.attempt = m.attempt
    BY <1>1 DEF Manager
  <2> HIDE DEF n, k
  <2>3. Good(k, starter) /\ SameStarting(m, k)
    BY <2>2, AsideGood
  <2>4. Good(n, starter) /\ SameStarting(m, n)
    BY <2>1, <2>3 DEF SameStarting
  <2> QED BY <2>4 DEF n
<1> QED BY <1>2, <1>3

LEMMA ApplyEventGood ==
  ASSUME NEW m, NEW starter, Good(m, starter), NEW e \in EventsOf
  PROVE  Good(ApplyEvent(m, e), starter) /\ SameStarting(m, ApplyEvent(m, e))
<1> DEFINE now == IF e.rev > m.rev THEN ApplyState(m, e) ELSE m
<1>1. Good(now, starter) /\ SameStarting(m, now)
  BY ApplyStateGood DEF SameStarting
<1>2. ApplyEvent(m, e) = IF e.error = 0 THEN now ELSE ApplyError(now, e)
  BY DEF ApplyEvent
<1> HIDE DEF now
<1>3. e.error # 0 => Good(ApplyError(now, e), starter) /\ SameStarting(now, ApplyError(now, e))
  BY <1>1, ApplyErrorGood
<1> QED BY <1>1, <1>2, <1>3 DEF SameStarting

LEMMA ActionGood ==
  ASSUME NEW m, NEW starter, Good(m, starter), NEW s \in Sessions, NEW run \in 0..MaxRuns,
         NEW ok \in BOOLEAN
  PROVE  /\ Good(BeginAction(m, s, run), starter) /\ SameStarting(m, BeginAction(m, s, run))
         /\ Good(FinishAction(m, s, run, ok), starter)
         /\ SameStarting(m, FinishAction(m, s, run, ok))
<1>1. m \in Manager /\ m.session[s] \in SessionType
  BY DEF Good, Manager
<1>2. Good(BeginAction(m, s, run), starter) /\ SameStarting(m, BeginAction(m, s, run))
  <2> DEFINE x == [m.session[s] EXCEPT !.acting = run]
             l == [m EXCEPT !.session = [m.session EXCEPT ![s] = x]]
             n == NotifyPackage(l, DocumentOf[s])
  <2>1. BeginAction(m, s, run) = n
    BY <1>1 DEF BeginAction, Manager, SessionType
  <2>2. /\ x \in SessionType /\ x.run = m.session[s].run /\ x.starting = m.session[s].starting
        /\ x.awaiting = m.session[s].awaiting /\ x.blocked = m.session[s].blocked
        /\ x.open = m.session[s].open
    BY <1>1 DEF SessionType
  <2> HIDE DEF x
  <2>3. Good(l, starter) /\ SameStarting(m, l)
    BY <2>2, DetailGood
  <2> HIDE DEF l
  <2>4. Good(n, starter) /\ SameStarting(l, n)
    BY <2>3, NotifyGood DEF Alike, SameStarting
  <2> QED BY <2>1, <2>3, <2>4 DEF SameStarting
<1>3. Good(FinishAction(m, s, run, ok), starter) /\ SameStarting(m, FinishAction(m, s, run, ok))
  <2> DEFINE error == IF ok THEN m.session[s].error ELSE "action"
             x == [m.session[s] EXCEPT !.acting = 0, !.error = error]
             l == [m EXCEPT !.session = [m.session EXCEPT ![s] = x]]
             n == NotifyPackage(l, DocumentOf[s])
           l0 == [m EXCEPT !.session[s].acting = 0,
                           !.session[s].error = IF ok THEN @ ELSE "action"]
  <2>1. l0 = l
    <3>1. CASE ok
      BY <1>1, <3>1 DEF Manager, SessionType
    <3>2. CASE ~ok
      BY <1>1, <3>2 DEF Manager, SessionType
    <3> QED BY <3>1, <3>2
  <2>2. FinishAction(m, s, run, ok) = m \/ FinishAction(m, s, run, ok) = NotifyPackage(l0, DocumentOf[s])
    BY DEF FinishAction
  <2> HIDE DEF l0
  <2>3. FinishAction(m, s, run, ok) = m \/ FinishAction(m, s, run, ok) = n
    BY <2>1, <2>2
  <2>4. error \in {"", "rejected", "failed", "action"} /\ 0 \in 0..MaxRuns
    <3>1. m.session[s].error \in {"", "rejected", "failed", "action"}
      BY <1>1 DEF SessionType
    <3>2. 0 \in 0..MaxRuns
      BY SessionsAssumption
    <3> QED BY <3>1, <3>2
  <2> HIDE DEF error
  <2>5. /\ x \in SessionType /\ x.run = m.session[s].run /\ x.starting = m.session[s].starting
        /\ x.awaiting = m.session[s].awaiting /\ x.blocked = m.session[s].blocked
        /\ x.open = m.session[s].open
    BY <1>1, <2>4 DEF SessionType
  <2> HIDE DEF x
  <2>6. Good(l, starter) /\ SameStarting(m, l)
    BY <2>5, DetailGood
  <2> HIDE DEF l
  <2>7. Good(n, starter) /\ SameStarting(l, n)
    BY <2>6, NotifyGood DEF Alike, SameStarting
  <2> HIDE DEF n
  <2> QED BY <2>3, <2>6, <2>7 DEF SameStarting
<1> QED BY <1>2, <1>3
=============================================================================
