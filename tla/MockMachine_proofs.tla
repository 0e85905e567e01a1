-------------------------- MODULE MockMachine_proofs --------------------------
(***************************************************************************)
(* What holds of the mock machine for every length of its axis, every      *)
(* capacity and any number of hard limits: its types, the agreement of     *)
(* planner, reported state and alarm, and that an accepted move is made in *)
(* its turn.                                                               *)
(*                                                                         *)
(* PlannerSound is inductive together with the types (IInv).  Most actions *)
(* leave the planner alone, bring it to rest or keep its moves; the few    *)
(* that start, append or complete one have a lemma each.  That accepted    *)
(* moves keep their order (KeepsAccepted) rests on Chained: the start that *)
(* startNextAt gives the next move is the one it was planned with.         *)
(***************************************************************************)
EXTENDS MockMachine, TLAPS, SequenceTheorems

PlannerType ==
  /\ state \in {"Idle", "Run", "Jog", "Hold", "Alarm"}
  /\ active \in Move \cup {NoMove} /\ queue \in Seq(Move) /\ pos \in Place /\ absolute \in BOOLEAN
SerialType ==
  /\ rx \in [length : 0..RxCapacity, overflow : BOOLEAN]
  /\ report \in [Limit -> {"none", "raised", "queued", "delivered", "withheld", "cleared"}]
  /\ pending \in Seq(Limit)
  /\ link \in {"armed", "released", "stuck", "stopped"} /\ peer \in BOOLEAN

PlannerInv == PlannerType /\ PlannerSound
IInv == PlannerInv /\ SerialType

LEMMA TypeParts == TypeOK <=> PlannerType /\ SerialType
BY DEF TypeOK, PlannerType, SerialType

LEMMA MoveShape ==
  ASSUME NEW kind \in {"normal", "jog"}, NEW start \in Place, NEW target \in Place
  PROVE  /\ [kind |-> kind, start |-> start, target |-> target] \in Move
         /\ [kind |-> kind, start |-> start, target |-> target] # NoMove
BY DEF Move, NoMove

LEMMA MoveFields ==
  ASSUME NEW move \in Move
  PROVE  /\ move.kind \in {"normal", "jog"} /\ move.start \in Place /\ move.target \in Place
         /\ move # NoMove
         /\ Shown(move) \in {"Run", "Jog"}
         /\ move.kind = "jog" <=> Shown(move) = "Jog"
BY DEF Move, NoMove, Shown

LEMMA Restarted ==
  ASSUME NEW move \in Move, NEW p \in Place
  PROVE  /\ [move EXCEPT !.start = p] \in Move
         /\ [move EXCEPT !.start = p].target = move.target
         /\ [move EXCEPT !.start = p].kind = move.kind
         /\ move.start = p => [move EXCEPT !.start = p] = move
BY DEF Move

-----------------------------------------------------------------------------
(* The plan as a sequence. *)

LEMMA PlanOfActive ==
  ASSUME NEW move \in Move, NEW q \in Seq(Move)
  PROVE  /\ <<move>> \o q \in Seq(Move)
         /\ Len(<<move>> \o q) = Len(q) + 1
         /\ Tail(<<move>> \o q) = q
         /\ \A m \in Move : <<move>> \o Append(q, m) = Append(<<move>> \o q, m)
<1>1. <<move>> \in Seq(Move) /\ Len(<<move>>) = 1 /\ <<move>>[1] = move
  OBVIOUS
<1>2. /\ <<move>> \o q \in Seq(Move)
      /\ Len(<<move>> \o q) = 1 + Len(q)
      /\ \A i \in 1..1 + Len(q) : (<<move>> \o q)[i] = IF i <= 1 THEN <<move>>[i] ELSE q[i - 1]
  BY <1>1, ConcatProperties
<1>3. Len(q) \in Nat
  BY LenProperties
<1>4. Tail(<<move>> \o q) = q
  <2> DEFINE s == <<move>> \o q
  <2>1. s \in Seq(Move) /\ Len(s) = 1 + Len(q)
    BY <1>2
  <2>2. s # <<>>
    BY <2>1, <1>3
  <2>3. /\ Tail(s) \in Seq(Move) /\ Len(Tail(s)) = Len(q)
        /\ \A i \in 1..Len(Tail(s)) : Tail(s)[i] = s[i + 1]
    <3> HIDE DEF s
    <3> QED BY <2>1, <2>2, <1>3, HeadTailProperties
  <2>4. \A i \in 1..Len(Tail(s)) : Tail(s)[i] = q[i]
    <3>1. \A i \in 1..Len(q) : s[i + 1] = q[i]
      BY <1>2, <1>3
    <3> HIDE DEF s
    <3> QED BY <2>3, <3>1
  <2>5. Tail(s) = q
    <3> HIDE DEF s
    <3> QED BY <2>3, <2>4, SeqEqual
  <2> QED BY <2>5
<1>5. ASSUME NEW m \in Move
      PROVE  <<move>> \o Append(q, m) = Append(<<move>> \o q, m)
  <2>1. <<m>> \in Seq(Move)
    OBVIOUS
  <2>2. Append(q, m) = q \o <<m>>
    BY AppendIsConcat
  <2>3. Append(<<move>> \o q, m) = (<<move>> \o q) \o <<m>>
    BY <1>2, AppendIsConcat
  <2>4. (<<move>> \o q) \o <<m>> = <<move>> \o (q \o <<m>>)
    BY <1>1, <2>1, ConcatAssociative
  <2> QED
    BY <2>2, <2>3, <2>4
<1> QED
  BY <1>2, <1>3, <1>4, <1>5

LEMMA PlanAlone ==
  ASSUME NEW move \in Move
  PROVE  /\ <<move>> \o <<>> = <<move>>
         /\ Append(<<>>, move) = <<move>>
         /\ Tail(<<move>>) = <<>>
<1>1. <<move>> \in Seq(Move)
  OBVIOUS
<1> QED
  BY <1>1, ConcatEmptySeq

\* The length of the plan, active move included.
LEMMA PlanLength ==
  ASSUME PlannerType
  PROVE  Len(Plan) = Len(queue) + (IF active = NoMove THEN 0 ELSE 1)
<1>1. CASE active = NoMove
  BY <1>1, LenProperties DEF Plan, PlannerType
<1>2. CASE active # NoMove
  BY <1>2, PlanOfActive DEF Plan, PlannerType
<1> QED
  BY <1>1, <1>2

LEMMA BaseIsPlace == PlannerType => Base \in Place
<1> SUFFICES ASSUME PlannerType PROVE Base \in Place
  OBVIOUS
<1>1. CASE queue # <<>>
  <2>1. Len(queue) \in 1..Len(queue)
    BY <1>1, EmptySeq DEF PlannerType
  <2>2. queue[Len(queue)] \in Move
    BY <2>1, ElementOfSeq DEF PlannerType
  <2> QED
    BY <1>1, <2>2, MoveFields DEF Base
<1>2. CASE queue = <<>>
  BY <1>2, MoveFields DEF Base, PlannerType
<1> QED
  BY <1>1, <1>2

-----------------------------------------------------------------------------
(* What the steps of the machine do to its planner. *)

LEMMA PlannerSame == PlannerInv /\ UNCHANGED planner => PlannerInv'
BY DEF PlannerInv, PlannerType, PlannerSound, QueuedBehindActive, ShowsMotion, Chained, Plan,
       Busy, planner

\* Nothing is moved and nothing is queued.
LEMMA PlannerRests ==
  ASSUME PlannerInv, MockAssumption, active' = NoMove, queue' = <<>>,
         state' \in {"Idle", "Hold", "Alarm"}, pos' \in Place, absolute' \in BOOLEAN
  PROVE  PlannerInv'
<1>1. PlannerType'
  BY DEF PlannerInv, PlannerType
<1>2. QueuedBehindActive'
  BY DEF QueuedBehindActive, Plan, MockAssumption
<1>3. ShowsMotion'
  BY DEF ShowsMotion, Busy
<1>4. Chained'
  BY DEF Chained
<1> QED
  BY <1>1, <1>2, <1>3, <1>4 DEF PlannerInv, PlannerSound

\* The moves stay; what is reported stays as well, or becomes Idle or Hold.
LEMMA PlannerKeeps ==
  ASSUME PlannerInv, UNCHANGED <<active, queue>>,
         state' \in {state, "Idle", "Hold"}, pos' \in Place, absolute' \in BOOLEAN
  PROVE  PlannerInv'
<1>1. PlannerType'
  BY DEF PlannerInv, PlannerType
<1>2. PlannerSound'
  BY DEF PlannerInv, PlannerSound, QueuedBehindActive, ShowsMotion, Chained, Plan, Busy
<1> QED
  BY <1>1, <1>2 DEF PlannerInv

\* What is queued goes, and with it a jog that is active.
LEMMA PlannerStopsJog ==
  ASSUME PlannerInv, MockAssumption, StopJog
  PROVE  PlannerInv'
<1>1. CASE active.kind = "jog" \/ active = NoMove
  BY <1>1, PlannerRests DEF StopJog, PlannerInv, PlannerType
<1>2. CASE ~(active.kind = "jog" \/ active = NoMove)
  <2>1. active' = active /\ queue' = <<>> /\ state' = "Idle" /\ UNCHANGED <<pos, absolute>>
    BY <1>2 DEF StopJog
  <2>2. PlannerType'
    BY <2>1 DEF PlannerInv, PlannerType
  <2>3. Len(Plan') = 1
    BY <2>1, <1>2, PlanAlone DEF Plan, PlannerInv, PlannerType
  <2>4. QueuedBehindActive'
    BY <2>1, <2>3 DEF QueuedBehindActive, MockAssumption
  <2>5. ShowsMotion' /\ Chained'
    BY <2>1 DEF ShowsMotion, Chained
  <2> QED
    BY <2>2, <2>4, <2>5 DEF PlannerInv, PlannerSound
<1> QED
  BY <1>1, <1>2

\* A move is started in a machine that makes none.
LEMMA PlannerStarts ==
  ASSUME PlannerInv, MockAssumption, active = NoMove, NEW move \in Move,
         Start(move, pos), UNCHANGED <<queue, pos>>, absolute' \in BOOLEAN
  PROVE  /\ PlannerInv'
         /\ move.start = pos => Plan' = Append(Plan, move)
<1>1. queue = <<>> /\ queue' = <<>> /\ pos \in Place /\ pos' \in Place
  BY DEF PlannerInv, PlannerSound, QueuedBehindActive, PlannerType
<1>2. active' \in Move /\ state' = Shown(active') /\ state' \in {"Run", "Jog"} /\ active' # NoMove
  BY <1>1, Restarted, MoveFields DEF Start, Shown
<1>3. PlannerType'
  BY <1>1, <1>2 DEF PlannerType, PlannerInv
<1>4. Plan' = <<active'>>
  BY <1>1, <1>2, PlanAlone DEF Plan
<1>5. QueuedBehindActive'
  BY <1>2, <1>4 DEF QueuedBehindActive, MockAssumption
<1>6. ShowsMotion' /\ Chained'
  BY <1>1, <1>2 DEF ShowsMotion, Chained, Shown
<1>7. move.start = pos => Plan' = Append(Plan, move)
  BY <1>1, <1>4, Restarted, PlanAlone DEF Start, Plan
<1> QED
  BY <1>3, <1>5, <1>6, <1>7 DEF PlannerInv, PlannerSound

\* A move is queued that begins where the last one ends.
LEMMA PlannerQueues ==
  ASSUME PlannerInv, MockAssumption, active # NoMove, NEW move \in Move, move.start = Base,
         1 + Len(queue) < Capacity,
         queue' = Append(queue, move), UNCHANGED <<state, active, pos>>, absolute' \in BOOLEAN
  PROVE  /\ PlannerInv'
         /\ Plan' = Append(Plan, move)
<1>1. active \in Move /\ queue \in Seq(Move) /\ Len(queue) \in Nat
  BY LenProperties DEF PlannerInv, PlannerType
<1>2. /\ queue' \in Seq(Move) /\ queue' # <<>> /\ Len(queue') = Len(queue) + 1
      /\ \A n \in 1..Len(queue) : queue'[n] = queue[n]
      /\ queue'[Len(queue) + 1] = move
  BY <1>1, AppendProperties
<1>3. Plan' = Append(Plan, move)
  BY <1>1, PlanOfActive DEF Plan
<1>4. PlannerType'
  BY <1>2 DEF PlannerInv, PlannerType
<1>5. Len(Plan') = Len(queue') + 1
  BY <1>1, <1>2, PlanOfActive DEF Plan
<1>6. QueuedBehindActive'
  BY <1>1, <1>2, <1>5 DEF QueuedBehindActive, MockAssumption
<1>7. ShowsMotion'
  BY <1>1, <1>2 DEF PlannerInv, PlannerSound, ShowsMotion, Busy
<1>8. Chained'
  <2>1. CASE queue = <<>>
    <3>1. Len(queue) = 0 /\ Len(queue') = 1 /\ queue'[1] = move
      BY <2>1, <1>2, EmptySeq
    <3>2. Head(queue') = move /\ move.start = active.target
      BY <2>1, <1>1, HeadTailAppend DEF Base
    <3> QED
      BY <3>1, <3>2 DEF Chained
  <2>2. CASE queue # <<>>
    <3>1. Len(queue) \in Nat \ {0} /\ move.start = queue[Len(queue)].target
      BY <2>2, <1>1, EmptySeq DEF Base
    <3>2. Head(queue') = Head(queue) /\ Head(queue).start = active.target
      BY <2>2, <1>1, HeadTailAppend DEF PlannerInv, PlannerSound, Chained
    <3>3. ASSUME NEW n \in 1..Len(queue') - 1
          PROVE  queue'[n + 1].start = queue'[n].target
      <4>1. n \in 1..Len(queue) /\ queue'[n] = queue[n]
        BY <1>1, <1>2, <3>3
      <4>2. CASE n = Len(queue)
        BY <4>1, <4>2, <3>1, <1>2
      <4>3. CASE n # Len(queue)
        <5>1. n \in 1..Len(queue) - 1 /\ n + 1 \in 1..Len(queue)
          BY <4>1, <4>3, <1>1
        <5>2. queue[n + 1].start = queue[n].target
          BY <5>1 DEF PlannerInv, PlannerSound, Chained
        <5> QED
          BY <5>1, <5>2, <4>1, <1>2
      <4> QED
        BY <4>2, <4>3
    <3>4. UNCHANGED active
      OBVIOUS
    <3> QED
      BY <3>2, <3>3, <3>4 DEF Chained
  <2> QED
    BY <2>1, <2>2
<1> QED
  BY <1>3, <1>4, <1>6, <1>7, <1>8 DEF PlannerInv, PlannerSound

\* The active move is done: the next one begins where it was planned to.
LEMMA PlannerCompletes ==
  ASSUME PlannerInv, MockAssumption, Complete
  PROVE  /\ PlannerInv'
         /\ Plan' = Tail(Plan)
<1>1. active \in Move /\ queue \in Seq(Move) /\ active.target \in Place
  BY MoveFields DEF Complete, PlannerInv, PlannerType
<1>2. Tail(Plan) = queue
  BY <1>1, PlanOfActive DEF Plan, Complete
<1>3. CASE queue = <<>>
  <2>1. active' = NoMove /\ queue' = <<>> /\ state' = "Idle" /\ pos' = active.target /\ UNCHANGED absolute
    BY <1>3 DEF Complete
  <2>2. PlannerInv'
    BY <2>1, <1>1, PlannerRests DEF PlannerInv, PlannerType
  <2> QED
    BY <2>1, <2>2, <1>2, <1>3 DEF Plan
<1>4. CASE queue # <<>>
  <2>1. Start(Head(queue), active.target) /\ queue' = Tail(queue) /\ pos' = active.target /\ UNCHANGED absolute
    BY <1>4 DEF Complete
  <2>2. /\ Head(queue) \in Move /\ queue' \in Seq(Move) /\ Len(queue') = Len(queue) - 1
        /\ \A i \in 1..Len(queue') : queue'[i] = queue[i + 1]
        /\ Len(queue) \in Nat \ {0}
    BY <2>1, <1>1, <1>4, HeadTailProperties, EmptySeq
  <2>3. Head(queue).start = active.target
    BY <1>4 DEF PlannerInv, PlannerSound, Chained
  <2>4. active' = Head(queue) /\ state' = Shown(active')
    BY <2>1, <2>2, <2>3, <1>1, Restarted DEF Start
  <2>5. active' \in Move /\ active' # NoMove /\ state' \in {"Run", "Jog"}
    BY <2>2, <2>4, MoveFields
  <2>6. PlannerType'
    BY <2>1, <2>2, <2>5, <1>1 DEF PlannerInv, PlannerType
  <2>7. Plan' = queue
    <3>1. <<Head(queue)>> \o Tail(queue) = queue
      <4>1. /\ <<Head(queue)>> \in Seq(Move) /\ Len(<<Head(queue)>>) = 1
            /\ <<Head(queue)>>[1] = Head(queue) /\ Head(queue) = queue[1]
        BY <2>2, <1>4
      <4>2. /\ <<Head(queue)>> \o queue' \in Seq(Move)
            /\ Len(<<Head(queue)>> \o queue') = 1 + Len(queue')
            /\ \A i \in 1..1 + Len(queue') : (<<Head(queue)>> \o queue')[i] =
                 IF i <= 1 THEN <<Head(queue)>>[i] ELSE queue'[i - 1]
        BY <2>2, <4>1, ConcatProperties
      <4>3. \A i \in 1..Len(queue) : (<<Head(queue)>> \o queue')[i] = queue[i]
        BY <2>2, <4>1, <4>2
      <4>4. <<Head(queue)>> \o queue' = queue
        <5> DEFINE s == <<Head(queue)>> \o queue'
        <5>1. s \in Seq(Move) /\ Len(s) = Len(queue) /\ \A i \in 1..Len(s) : s[i] = queue[i]
          BY <4>2, <4>3, <2>2
        <5> HIDE DEF s
        <5>2. s = queue
          BY <5>1, <1>1, SeqEqual
        <5> QED
          BY <5>2 DEF s
      <4> QED
        BY <4>4, <2>1
    <3> QED
      BY <3>1, <2>1, <2>4, <2>5 DEF Plan
  <2>8. QueuedBehindActive'
    <3>1. Len(queue) <= Capacity
      BY <1>1, <2>2, PlanLength DEF PlannerInv, PlannerSound, QueuedBehindActive, Complete, MockAssumption
    <3> QED
      BY <3>1, <2>5, <2>7 DEF QueuedBehindActive
  <2>9. ShowsMotion'
    BY <2>4, <2>5 DEF ShowsMotion
  <2>10. Chained'
    <3>1. \A n \in 1..Len(queue) - 1 : queue[n + 1].start = queue[n].target
      BY DEF PlannerInv, PlannerSound, Chained
    <3>2. queue' # <<>> => Head(queue').start = active'.target
      <4>1. HAVE queue' # <<>>
      <4>2. Len(queue') \in Nat \ {0} /\ Head(queue') = queue'[1]
        BY <4>1, <2>2, EmptySeq
      <4>3. Head(queue') = queue[2] /\ 1 \in 1..Len(queue) - 1
        BY <4>2, <2>2
      <4>4. queue[2].start = queue[1].target /\ Head(queue) = queue[1]
        BY <4>3, <3>1, <1>4
      <4> QED
        BY <4>3, <4>4, <2>4
    <3>3. ASSUME NEW n \in 1..Len(queue') - 1
          PROVE  queue'[n + 1].start = queue'[n].target
      <4>1. /\ n \in 1..Len(queue') /\ n + 1 \in 1..Len(queue') /\ n + 1 \in 1..Len(queue) - 1
            /\ n \in Nat
        BY <2>2
      <4>2. queue'[n] = queue[n + 1] /\ queue'[n + 1] = queue[n + 1 + 1]
        BY <4>1, <2>2
      <4> QED
        BY <4>1, <4>2, <3>1
    <3> QED
      BY <3>2, <3>3 DEF Chained
  <2> QED
    BY <2>6, <2>7, <2>8, <2>9, <2>10, <1>2 DEF PlannerInv, PlannerSound
<1> QED
  BY <1>3, <1>4

\* A step that the client or the debug server takes keeps the plan, or appends
\* one move to it while there is no alarm.
Appends == state # "Alarm" /\ \E move \in Move : Plan' = Append(Plan, move)
PlanKept == Plan' = Plan \/ Appends

LEMMA PlanOfSame == UNCHANGED <<active, queue>> => PlanKept
BY DEF PlanKept, Plan

LEMMA AcceptsKeeps ==
  ASSUME PlannerInv, MockAssumption, state # "Alarm", NEW kind \in {"normal", "jog"},
         NEW target, Accepts(kind, target, absolute' \in BOOLEAN)
  PROVE  PlannerInv' /\ PlanKept
<1> DEFINE move == [kind |-> kind, start |-> Base, target |-> target]
<1>1. CASE UNCHANGED planner
  BY <1>1, PlannerSame, PlanOfSame DEF planner
<1>2. CASE ~UNCHANGED planner
  <2>1. target \in Place
    BY <1>2 DEF Accepts
  <2>2. move \in Move /\ move.start = Base
    BY <2>1, BaseIsPlace, MoveShape DEF PlannerInv
  <2>3. CASE active = NoMove
    <3>1. Start(move, pos) /\ UNCHANGED <<queue, pos>> /\ absolute' \in BOOLEAN
      BY <2>1, <2>3 DEF Accepts
    <3>2. Base = pos
      BY <2>3 DEF Base, PlannerInv, PlannerSound, QueuedBehindActive
    <3> HIDE DEF move
    <3> QED
      BY <3>1, <3>2, <2>2, <2>3, PlannerStarts DEF PlanKept, Appends
  <2>4. CASE active # NoMove
    <3>1. /\ 1 + Len(queue) < Capacity
          /\ queue' = Append(queue, move) /\ UNCHANGED <<state, active, pos>> /\ absolute' \in BOOLEAN
      BY <1>2, <2>1, <2>4 DEF Accepts
    <3> HIDE DEF move
    <3> QED
      BY <3>1, <2>2, <2>4, PlannerQueues DEF PlanKept, Appends
  <2> QED
    BY <2>3, <2>4
<1> QED
  BY <1>1, <1>2

-----------------------------------------------------------------------------
(* Lines. *)

LEMMA LineKinds ==
  ASSUME NEW line \in Line
  PROVE  line.kind \in Kind
BY DEF Line, Kind

LEMMA MotionKeeps ==
  ASSUME PlannerInv, MockAssumption, NEW line, HandleMotion(line)
  PROVE  PlannerInv' /\ PlanKept
<1> DEFINE isAbsolute == IF line.mode = "default" THEN absolute ELSE line.mode = "absolute"
<1>1. isAbsolute \in BOOLEAN
  BY DEF PlannerInv, PlannerType
<1>2. CASE UNCHANGED planner
  BY <1>2, PlannerSame, PlanOfSame DEF planner
<1>3. CASE state # "Alarm" /\ line.kind = "mode"
  <2>1. absolute' = isAbsolute /\ UNCHANGED <<state, active, queue, pos>>
    BY <1>3 DEF HandleMotion
  <2>2. absolute' \in BOOLEAN /\ pos' \in Place /\ state' \in {state, "Idle", "Hold"}
    BY <2>1, <1>1 DEF PlannerInv, PlannerType
  <2> QED
    BY <2>1, <2>2, PlannerKeeps, PlanOfSame
<1>4. CASE state # "Alarm" /\ line.kind # "mode"
  <2>1. Accepts("normal", Target(line, isAbsolute), absolute' = isAbsolute)
    BY <1>4 DEF HandleMotion
  <2>2. Accepts("normal", Target(line, isAbsolute), absolute' \in BOOLEAN)
    BY <2>1, <1>1 DEF Accepts
  <2> QED
    BY <2>2, <1>4, AcceptsKeeps
<1> QED
  BY <1>2, <1>3, <1>4 DEF HandleMotion

LEMMA JogKeeps ==
  ASSUME PlannerInv, MockAssumption, NEW line, HandleJog(line)
  PROVE  PlannerInv' /\ PlanKept
<1>1. CASE UNCHANGED planner
  BY <1>1, PlannerSame, PlanOfSame DEF planner
<1>2. CASE ~UNCHANGED planner
  <2>1. state # "Alarm" /\ Accepts("jog", Target(line, line.mode = "absolute"), UNCHANGED absolute)
    BY <1>2 DEF HandleJog
  <2>2. Accepts("jog", Target(line, line.mode = "absolute"), absolute' \in BOOLEAN)
    BY <2>1 DEF Accepts, PlannerInv, PlannerType
  <2> QED
    BY <2>1, <2>2, AcceptsKeeps
<1> QED
  BY <1>1, <1>2

LEMMA LineKeeps ==
  ASSUME PlannerInv, MockAssumption, NEW line \in Line, HandleLine(line)
  PROVE  PlannerInv' /\ PlanKept
<1>1. CASE UNCHANGED planner
  BY <1>1, PlannerSame, PlanOfSame DEF planner
<1>2. CASE HandleJog(line)
  BY <1>2, JogKeeps
<1>3. CASE line.kind = "probe" /\ HandleProbe(line)
  <2>1. /\ UNCHANGED <<state, active, queue, absolute>> /\ pos' \in Place
        /\ absolute' \in BOOLEAN
    BY <1>3 DEF HandleProbe, MockAssumption, PlannerInv, PlannerType
  <2> QED
    BY <2>1, PlannerKeeps, PlanOfSame
<1>4. CASE HandleMotion(line)
  BY <1>4, MotionKeeps
<1>5. CASE state' = "Idle" /\ UNCHANGED <<active, queue, pos, absolute>>
  <2>1. pos' \in Place /\ absolute' \in BOOLEAN
    BY <1>5 DEF PlannerInv, PlannerType
  <2> QED
    BY <1>5, <2>1, PlannerKeeps, PlanOfSame
<1>6. CASE /\ line.kind = "home" /\ ~WaitsForPlanner(line)
           /\ active' = NoMove /\ queue' = <<>> /\ state' = "Idle"
           /\ pos' = Travel /\ UNCHANGED absolute
  <2>1. active = NoMove /\ queue = <<>>
    BY <1>6 DEF WaitsForPlanner, Busy
  <2>2. pos' \in Place /\ absolute' \in BOOLEAN
    BY <1>6 DEF PlannerInv, PlannerType, Place, MockAssumption
  <2>3. PlannerInv'
    BY <1>6, <2>2, PlannerRests
  <2> QED
    BY <1>6, <2>1, <2>3, PlanOfSame
<1> QED
  <2>1. line.kind \in Kind
    BY LineKinds
  <2> QED
    BY <2>1, <1>1, <1>2, <1>3, <1>4, <1>5, <1>6
       DEF HandleLine, Kind, Answers, WaitsForPlanner

-----------------------------------------------------------------------------
(* The serial side: its types, and how the actions divide by what they do    *)
(* to the planner.                                                           *)

Stage == {"none", "raised", "queued", "delivered", "withheld", "cleared"}

LEMMA BecomesType ==
  ASSUME SerialType, NEW stage \in Stage, Becomes(stage)
  PROVE  report' \in [Limit -> Stage] /\ pending' \in Seq(Limit)
BY EmptySeq DEF SerialType, Becomes, Stage

LEMMA SerialSame == SerialType /\ UNCHANGED serial => SerialType'
BY DEF SerialType, serial

LEMMA DrainsType ==
  ASSUME SerialType, Drains, rx' \in [length : 0..RxCapacity, overflow : BOOLEAN]
  PROVE  SerialType'
BY BecomesType DEF SerialType, Drains, Receives, Stage

LEMMA ResetsType ==
  ASSUME SerialType, MockAssumption, Resets,
         link' \in {"armed", "released", "stuck", "stopped"}, peer' \in BOOLEAN
  PROVE  SerialType'
<1>1. Empty \in [length : 0..RxCapacity, overflow : BOOLEAN]
  BY DEF Empty, MockAssumption
<1> QED
  BY <1>1, BecomesType DEF SerialType, Resets, Stage

LEMMA ResetsRests ==
  ASSUME PlannerInv, MockAssumption, Resets
  PROVE  PlannerInv'
BY PlannerRests DEF Resets, PlannerInv, PlannerType

\* One step for each action: planner and serial side keep their types and agree,
\* and what was accepted is kept.
Kept ==
  \/ PlanKept
  \/ active # NoMove /\ Plan' = Tail(Plan)
  \/ ResetByte \/ DebugReset \/ \E i \in Limit : HardLimit(i)
  \/ JogCancelByte \/ (FeedHoldByte /\ state = "Jog")

LEMMA StepKeeps ==
  ASSUME IInv, MockAssumption, Next
  PROVE  IInv' /\ Kept
<1> USE DEF IInv
<1>1. CASE Progress
  <2>1. pos' \in Place /\ absolute' \in BOOLEAN
    BY <1>1 DEF Progress, Between, PlannerInv, PlannerType
  <2> QED
    BY <1>1, <2>1, PlannerKeeps, PlanOfSame, SerialSame DEF Progress, Kept
<1>2. CASE Complete
  BY <1>2, PlannerCompletes, SerialSame DEF Complete, Kept
<1>3. CASE StatusByte
  BY <1>3, PlannerSame, PlanOfSame, DrainsType DEF StatusByte, SerialType, planner, Kept
<1>4. CASE JogCancelByte
  BY <1>4, PlannerStopsJog, DrainsType DEF JogCancelByte, SerialType, Kept
<1>5. CASE FeedHoldByte
  <2>1. SerialType'
    BY <1>5, DrainsType DEF FeedHoldByte, SerialType
  <2>2. CASE state = "Jog"
    BY <1>5, <2>1, <2>2, PlannerStopsJog DEF FeedHoldByte, Kept
  <2>3. CASE state # "Jog"
    <3>1. /\ state' = "Hold" /\ UNCHANGED <<active, queue>> /\ pos' \in Place
          /\ absolute' \in BOOLEAN
      BY <1>5, <2>3 DEF FeedHoldByte, PlannerInv, PlannerType
    <3> QED
      BY <2>1, <3>1, PlannerKeeps, PlanOfSame DEF Kept
  <2> QED
    BY <2>2, <2>3
<1>6. CASE CycleStartByte
  <2>1. SerialType'
    BY <1>6, DrainsType DEF CycleStartByte, SerialType
  <2>2. /\ state' \in {state, "Idle", "Hold"} /\ UNCHANGED <<active, queue>> /\ pos' \in Place
        /\ absolute' \in BOOLEAN
    BY <1>6 DEF CycleStartByte, PlannerInv, PlannerType, PlannerSound, QueuedBehindActive
  <2> QED
    BY <2>1, <2>2, PlannerKeeps, PlanOfSame DEF Kept
<1>7. CASE ResetByte
  BY <1>7, ResetsType, ResetsRests DEF ResetByte, Receives, SerialType, Kept
<1>8. CASE CharacterByte
  <2>1. rx' \in [length : 0..RxCapacity, overflow : BOOLEAN]
    <3> DEFINE Rx == [length : 0..RxCapacity, overflow : BOOLEAN]
    <3>1. rx \in Rx /\ RxCapacity \in Nat
      BY DEF SerialType, MockAssumption
    <3>2. CASE rx.overflow \/ rx.length >= RxCapacity
      <4>1. rx' = [rx EXCEPT !.overflow = TRUE]
        BY <1>8, <3>2 DEF CharacterByte
      <4> QED
        BY <4>1, <3>1
    <3>3. CASE ~(rx.overflow \/ rx.length >= RxCapacity)
      <4>1. rx' = [rx EXCEPT !.length = @ + 1]
        BY <1>8, <3>3 DEF CharacterByte
      <4>2. rx.length + 1 \in 0..RxCapacity
        BY <3>1, <3>3
      <4> QED
        BY <4>1, <4>2, <3>1
    <3> QED
      BY <3>2, <3>3
  <2> QED
    BY <1>8, <2>1, PlannerSame, PlanOfSame, DrainsType DEF CharacterByte, planner, Kept
<1>9. CASE EndOfNoLine
  <2>1. Empty \in [length : 0..RxCapacity, overflow : BOOLEAN]
    BY DEF Empty, MockAssumption
  <2> QED
    BY <1>9, <2>1, PlannerSame, PlanOfSame, DrainsType DEF EndOfNoLine, planner, Kept
<1>10. ASSUME NEW line \in Line, EndOfLine(line)
       PROVE  IInv' /\ Kept
  <2>1. Empty \in [length : 0..RxCapacity, overflow : BOOLEAN]
    BY DEF Empty, MockAssumption
  <2>2. SerialType'
    BY <1>10, <2>1, BecomesType DEF EndOfLine, Receives, SerialType, Stage
  <2> QED
    BY <1>10, <2>2, LineKeeps DEF EndOfLine, Kept
<1>11. CASE DebugReset
  BY <1>11, ResetsType, ResetsRests DEF DebugReset, SerialType, Kept
<1>12. ASSUME NEW i \in Limit, HardLimit(i)
       PROVE  IInv' /\ Kept
  <2>1. pos' \in Place /\ absolute' \in BOOLEAN
    BY <1>12 DEF HardLimit, PlannerInv, PlannerType
  <2>2. PlannerInv'
    BY <1>12, <2>1, PlannerRests DEF HardLimit
  <2>3. SerialType'
    BY <1>12 DEF HardLimit, SerialType
  <2> QED
    BY <1>12, <2>2, <2>3 DEF Kept
<1>13. ASSUME NEW i \in Limit, QueueSerial(i)
       PROVE  IInv' /\ Kept
  <2>1. pending' \in Seq(Limit)
    BY <1>13, AppendProperties DEF QueueSerial, SerialType
  <2>2. SerialType'
    BY <1>13, <2>1 DEF QueueSerial, SerialType
  <2> QED
    BY <1>13, <2>2, PlannerSame, PlanOfSame DEF QueueSerial, planner, Kept
<1>14. CASE ClientOpens \/ ClientCloses \/ RearmFails
  <2>1. SerialType'
    BY <1>14 DEF ClientOpens, ClientCloses, RearmFails, SerialType
  <2> QED
    BY <1>14, <2>1, PlannerSame, PlanOfSame
       DEF ClientOpens, ClientCloses, RearmFails, planner, Kept
<1>15. CASE Rearm
  <2>1. Empty \in [length : 0..RxCapacity, overflow : BOOLEAN]
    BY DEF Empty, MockAssumption
  <2>2. SerialType'
    BY <1>15, <2>1, BecomesType DEF Rearm, SerialType, Stage
  <2> QED
    BY <1>15, <2>2, PlannerSame, PlanOfSame DEF Rearm, planner, Kept
<1> QED
  BY <1>1, <1>2, <1>3, <1>4, <1>5, <1>6, <1>7, <1>8, <1>9, <1>10, <1>11, <1>12, <1>13,
     <1>14, <1>15 DEF Next

LEMMA InitKeeps == MockAssumption /\ Init => IInv
<1> SUFFICES ASSUME MockAssumption, Init PROVE IInv
  OBVIOUS
<1>1. PlannerType /\ SerialType
  <2>1. <<>> \in Seq(Move) /\ <<>> \in Seq(Limit)
    BY EmptySeq
  <2>2. PlannerType
    BY <2>1 DEF Init, MockAssumption, PlannerType, Place
  <2>3. [length |-> 0, overflow |-> FALSE] \in [length : 0..RxCapacity, overflow : BOOLEAN]
    BY DEF MockAssumption
  <2>4. SerialType
    BY <2>1, <2>3 DEF Init, SerialType
  <2> QED
    BY <2>2, <2>4
<1>2. PlannerSound
  BY DEF Init, MockAssumption, PlannerSound, QueuedBehindActive, ShowsMotion, Chained, Plan, Busy
<1> QED
  BY <1>1, <1>2 DEF IInv, PlannerInv

LEMMA StutterKeeps == IInv /\ UNCHANGED vars => IInv'
BY PlannerSame, SerialSame DEF IInv, vars, planner

LEMMA Inductive == Spec => []IInv
<1>1. Init => IInv
  BY InitKeeps, MockAssumption
<1>2. IInv /\ [Next]_vars => IInv'
  BY StepKeeps, StutterKeeps, MockAssumption
<1> QED
  BY <1>1, <1>2, PTL DEF Spec

-----------------------------------------------------------------------------

\* Every reachable state of the mock machine has its types: no position leaves the
\* axis, no line outgrows the receive buffer (ProcessBytes, limitAxis).
THEOREM TypeCorrect == Spec => []TypeOK
<1>1. IInv => TypeOK
  BY TypeParts DEF IInv, PlannerInv
<1> QED
  BY <1>1, Inductive, PTL

\* Planner, reported state and alarm agree, for every capacity and number of limits
\* (handleNormalMotion, handleJog, startNextAt, cancelJog, HardLimit).
THEOREM PlannerCorrect == Spec => []PlannerSound
<1>1. IInv => PlannerSound
  BY DEF IInv, PlannerInv
<1> QED
  BY <1>1, Inductive, PTL

\* An accepted move is made in its turn: no step but a reset, a hard limit or the
\* cancelling of a jog takes one out of the plan (reconcile, startNextAt, handleLine).
THEOREM AcceptedKept == Spec => KeepsAccepted
<1>1. IInv /\ [Next]_vars =>
        [\/ Plan' = Plan
         \/ active # NoMove /\ Plan' = Tail(Plan)
         \/ state # "Alarm" /\ \E move \in Move : Plan' = Append(Plan, move)
         \/ ResetByte \/ DebugReset \/ \E i \in Limit : HardLimit(i)
         \/ JogCancelByte \/ (FeedHoldByte /\ state = "Jog")]_vars
  BY StepKeeps, MockAssumption DEF Kept, PlanKept, Appends
<1> QED
  BY <1>1, Inductive, PTL DEF Spec, KeepsAccepted
=============================================================================
