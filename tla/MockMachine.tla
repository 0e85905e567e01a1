----------------------------- MODULE MockMachine -----------------------------
(***************************************************************************)
(* The machine the integration tests run against: internal/mockgrbl and    *)
(* cmd/mockgrbl.  A planner of accepted moves, the framing of the bytes a  *)
(* serial client sends, the debug server that injects resets and hard      *)
(* limits from goroutines of its own, and the terminal that is armed again *)
(* for every client.                                                       *)
(*                                                                         *)
(* One axis stands for the three.  How long a move takes is left open: the *)
(* code settles what has happened since the last call, by the clock, as    *)
(* the first thing of every call that looks (reconcile); here every move   *)
(* progresses and completes in steps of its own, at any time.  What is     *)
(* answered is modelled where it decides something: the output of a hard   *)
(* limit, which waits for a byte of the client to be delivered with.       *)
(***************************************************************************)
EXTENDS Integers, Sequences

CONSTANTS
  Travel,      \* the axis goes from 0 to Travel, where it is homed: limitAxis
  Contact,     \* where a probe meets something: -3.5 on Z
  Capacity,    \* PlannerQueueCapacity (15), the active move included
  RxCapacity,  \* SerialRXCapacity (128)
  MaxLimits,   \* bound on the hard limits injected
  Withheld,    \* kinds of lines named by -suppress-response-for and -probe-omit-result-for
  Holding      \* kinds of lines named by -hold-response-for

Place == 0..Travel
Steps == (0 - Travel)..Travel

\* A line by what it asks for. "other" stands for all that leaves planner and
\* position alone: queries, the offsets, the spindle, and what is refused as such.
Line ==
  [kind : {"motion", "jog"}, mode : {"default", "absolute", "relative"}, value : Steps]
  \cup [kind : {"mode"}, mode : {"absolute", "relative"}, value : {0}]
  \cup [kind : {"probe"}, mode : {"default"}, value : Place]
  \cup [kind : {"home", "unlock", "query", "other"}, mode : {"default"}, value : {0}]
Kind == {"motion", "jog", "mode", "probe", "home", "unlock", "query", "other"}

ASSUME MockAssumption ==
  /\ Travel \in Nat /\ Contact \in Place /\ Capacity \in Nat \ {0}
  /\ RxCapacity \in Nat \ {0} /\ MaxLimits \in Nat
  /\ Withheld \subseteq Kind /\ Holding \subseteq Kind

Move == [kind : {"normal", "jog"}, start : Place, target : Place]
NoMove == [kind |-> "none", start |-> 0, target |-> 0]
Limit == 1..MaxLimits

VARIABLES
  state,     \* what the machine reports: Idle, Run, Jog, Hold, Alarm (Home is passed within $H)
  active,    \* the move being made
  queue,     \* the moves behind it
  pos,       \* where the axis is
  absolute,  \* distanceAbsolute
  rx,        \* bytes of the line being received, and whether it was too long
  report,    \* what has become of the output of each hard limit
  pending,   \* pendingSerial: the hard limits whose output waits for the client
  link,      \* armed: a handle of the mock's own keeps the terminal alive; released
             \* since the client's first byte; stuck in -hold-response-for; stopped
  peer       \* a client has the terminal open

planner == <<state, active, queue, pos, absolute>>
serial == <<rx, report, pending, link, peer>>
vars == <<planner, serial>>

Init ==
  /\ state = "Idle" /\ active = NoMove /\ queue = <<>> /\ pos = Travel /\ absolute = TRUE
  /\ rx = [length |-> 0, overflow |-> FALSE]
  /\ report = [i \in Limit |-> "none"] /\ pending = <<>>
  /\ link = "armed" /\ peer = FALSE

Plan == IF active = NoMove THEN queue ELSE <<active>> \o queue
Busy == active # NoMove \/ queue # <<>>

-----------------------------------------------------------------------------
(* Motion. *)

Between(a, b) == {p \in Place : (a <= p /\ p <= b) \/ (b <= p /\ p <= a)}
Shown(move) == IF move.kind = "jog" THEN "Jog" ELSE "Run"

\* startMoveAt from the position p
Start(move, p) ==
  /\ active' = [move EXCEPT !.start = p]
  /\ state' = Shown(move)

\* reconcile, of a move that is under way. Hold does not stop it.
Progress ==
  /\ link # "stopped" /\ active # NoMove
  /\ pos' \in Between(active.start, active.target)
  /\ UNCHANGED <<state, active, queue, absolute, serial>>

\* reconcile, of a move that is complete; startNextAt
Complete ==
  /\ link # "stopped" /\ active # NoMove
  /\ pos' = active.target
  /\ IF queue = <<>> THEN active' = NoMove /\ state' = "Idle" /\ UNCHANGED queue
     ELSE Start(Head(queue), active.target) /\ queue' = Tail(queue)
  /\ UNCHANGED <<absolute, serial>>

\* plannerBasePositionLocked
Base == IF queue # <<>> THEN queue[Len(queue)].target
        ELSE IF active # NoMove THEN active.target ELSE pos
Target(line, isAbsolute) == IF isAbsolute THEN line.value ELSE Base + line.value

\* The end of handleNormalMotion and handleJog, limits included; accepted is
\* what else an accepted line changes.
Accepts(kind, target, accepted) ==
  LET move == [kind |-> kind, start |-> Base, target |-> target] IN
  IF target \notin Place THEN UNCHANGED planner
  ELSE IF active = NoMove THEN Start(move, pos) /\ accepted /\ UNCHANGED <<queue, pos>>
  ELSE IF 1 + Len(queue) < Capacity
       THEN queue' = Append(queue, move) /\ accepted /\ UNCHANGED <<state, active, pos>>
       ELSE UNCHANGED planner

\* Mutant: Jog Cancel stops the jog and leaves what is queued behind it.
StopJogKeepsQueue ==
  /\ active' = IF active.kind = "jog" THEN NoMove ELSE active
  /\ state' = "Idle"
  /\ UNCHANGED <<queue, pos, absolute>>

\* cancelJog: what is queued goes, an ordinary move that is active does not.
StopJog ==
  /\ active' = IF active.kind = "jog" THEN NoMove ELSE active
  /\ queue' = <<>> /\ state' = "Idle"
  /\ UNCHANGED <<pos, absolute>>

-----------------------------------------------------------------------------
(* Lines: handleLine, in the order of its tests. *)

HandleMotion(line) ==
  LET isAbsolute == IF line.mode = "default" THEN absolute ELSE line.mode = "absolute" IN
  IF state = "Alarm" THEN UNCHANGED planner
  ELSE IF line.kind = "mode" THEN absolute' = isAbsolute /\ UNCHANGED <<state, active, queue, pos>>
  ELSE Accepts("normal", Target(line, isAbsolute), absolute' = isAbsolute)

HandleJog(line) ==
  IF \/ state = "Alarm" \/ line.mode = "default"
     \/ line.mode = "relative" /\ Busy
  THEN UNCHANGED planner
  ELSE Accepts("jog", Target(line, line.mode = "absolute"), UNCHANGED absolute)

\* handleProbe asks neither for the planner nor for the alarm.
HandleProbe(line) ==
  /\ pos' = IF line.value <= Contact THEN Contact ELSE pos
  /\ UNCHANGED <<state, active, queue, absolute>>

\* What the offsets and the queries answer does not move the machine.
Answers == UNCHANGED planner

\* Mutant: $H is let through like $X.
WaitsForPlannerUnlessHome(line) == line.kind = "query" /\ Busy

\* An ordinary $-line is refused while the planner has work.
WaitsForPlanner(line) == line.kind \in {"home", "query"} /\ Busy

HandleLine(line) ==
  CASE line.kind = "jog" -> HandleJog(line)
    [] WaitsForPlanner(line) -> UNCHANGED planner
    [] line.kind \in {"query", "other"} /\ ~WaitsForPlanner(line) -> Answers
    [] line.kind = "probe" -> HandleProbe(line)
    [] line.kind \in {"motion", "mode"} -> HandleMotion(line)
    [] line.kind = "unlock" -> state' = "Idle" /\ UNCHANGED <<active, queue, pos, absolute>>
    [] line.kind = "home" /\ ~WaitsForPlanner(line) ->
         /\ active' = NoMove /\ queue' = <<>> /\ state' = "Idle"
         /\ pos' = Travel /\ UNCHANGED absolute

-----------------------------------------------------------------------------
(* Bytes of the client: ProcessBytes, one at a time as the read loop has it. *)

Empty == [length |-> 0, overflow |-> FALSE]
Waiting(i) == \E n \in 1..Len(pending) : pending[n] = i
Becomes(stage) ==
  /\ report' = [i \in Limit |-> IF Waiting(i) THEN stage ELSE report[i]]
  /\ pending' = <<>>

\* The read loop lets go of its own handle; what is pending goes out first.
Receives == peer /\ link \in {"armed", "released"} /\ UNCHANGED peer
Drains == Receives /\ link' = "released" /\ Becomes("delivered")

\* '?' and the bytes that are ignored
StatusByte == Drains /\ UNCHANGED <<planner, rx>>

JogCancelByte == Drains /\ StopJog /\ UNCHANGED rx

FeedHoldByte ==
  /\ Drains /\ UNCHANGED rx
  /\ IF state = "Jog" THEN StopJog
     ELSE state' = "Hold" /\ UNCHANGED <<active, queue, pos, absolute>>

\* There is never anything for startNext to start here: QueuedBehindActive.
CycleStartByte ==
  /\ Drains /\ UNCHANGED <<rx, pos, absolute>>
  /\ IF state # "Hold" THEN UNCHANGED <<state, active, queue>>
     ELSE IF active = NoMove /\ queue # <<>> THEN Start(Head(queue), pos) /\ queue' = Tail(queue)
     ELSE state' = "Idle" /\ UNCHANGED <<active, queue>>

\* resetLocked
Resets ==
  /\ state' = "Idle" /\ active' = NoMove /\ queue' = <<>> /\ absolute' = TRUE
  /\ rx' = Empty /\ Becomes("cleared") /\ UNCHANGED pos
ResetByte == Receives /\ link' = "released" /\ Resets

CharacterByte ==
  /\ Drains /\ UNCHANGED planner
  /\ rx' = IF rx.overflow \/ rx.length >= RxCapacity THEN [rx EXCEPT !.overflow = TRUE]
           ELSE [rx EXCEPT !.length = @ + 1]

\* A newline ends an empty or overlong line, which changes nothing else,
EndOfNoLine ==
  /\ rx.overflow \/ rx.length = 0
  /\ Drains /\ rx' = Empty /\ UNCHANGED planner

\* or a line, whose response the options of the mock may withhold, together with
\* whatever the same byte drained.
EndOfLine(line) ==
  /\ ~rx.overflow /\ rx.length > 0
  /\ Receives /\ rx' = Empty /\ HandleLine(line)
  /\ Becomes(IF line.kind \in Withheld \cup Holding THEN "withheld" ELSE "delivered")
  /\ link' = IF line.kind \in Holding \ Withheld THEN "stuck" ELSE "released"

-----------------------------------------------------------------------------
(* The debug server: each request in a goroutine of its own. *)

\* /reset answers the request only: the client is not told.
DebugReset == link # "stopped" /\ Resets /\ UNCHANGED <<link, peer>>

\* /hard-limit: the machine stops and its output is queued in two critical sections.
HardLimit(i) ==
  /\ link # "stopped" /\ report[i] = "none" /\ \A j \in Limit : j < i => report[j] # "none"
  /\ active' = NoMove /\ queue' = <<>> /\ state' = "Alarm"
  /\ report' = [report EXCEPT ![i] = "raised"]
  /\ UNCHANGED <<pos, absolute, rx, pending, link, peer>>

\* Mutant: output is queued only while the machine is still in alarm.
QueueSerialInAlarm(i) ==
  /\ link # "stopped" /\ report[i] = "raised" /\ state = "Alarm"
  /\ report' = [report EXCEPT ![i] = "queued"]
  /\ pending' = Append(pending, i)
  /\ UNCHANGED <<planner, rx, link, peer>>

QueueSerial(i) ==
  /\ link # "stopped" /\ report[i] = "raised"
  /\ report' = [report EXCEPT ![i] = "queued"]
  /\ pending' = Append(pending, i)
  /\ UNCHANGED <<planner, rx, link, peer>>

-----------------------------------------------------------------------------
(* Clients of the terminal. *)

ClientOpens ==
  /\ ~peer /\ link # "stopped" /\ peer' = TRUE
  /\ UNCHANGED <<planner, rx, report, pending, link>>
ClientCloses ==
  /\ peer /\ peer' = FALSE
  /\ UNCHANGED <<planner, rx, report, pending, link>>

\* The read loop finds the terminal without a client: armSerialClient and Connect,
\* unless the next client was there first.
Rearm ==
  /\ ~peer /\ link = "released" /\ link' = "armed"
  /\ rx' = Empty /\ Becomes("cleared")
  /\ UNCHANGED <<planner, peer>>
RearmFails ==
  /\ ~peer /\ link = "released" /\ link' = "stopped"
  /\ UNCHANGED <<planner, rx, report, pending, peer>>

Next ==
  \/ Progress \/ Complete
  \/ StatusByte \/ JogCancelByte \/ FeedHoldByte \/ CycleStartByte \/ ResetByte
  \/ CharacterByte \/ EndOfNoLine \/ \E line \in Line : EndOfLine(line)
  \/ DebugReset \/ \E i \in Limit : HardLimit(i) \/ QueueSerial(i)
  \/ ClientOpens \/ ClientCloses \/ Rearm \/ RearmFails

Spec == Init /\ [][Next]_vars

(***************************************************************************)
(* The goroutine of a request goes on; clients come, and one that comes    *)
(* over and over polls at last, as the controller does after Open.         *)
(***************************************************************************)
FairSpec ==
  /\ Spec
  /\ \A i \in Limit : WF_vars(QueueSerial(i))
  /\ WF_vars(ClientOpens) /\ SF_vars(StatusByte)

-----------------------------------------------------------------------------

TypeOK ==
  /\ state \in {"Idle", "Run", "Jog", "Hold", "Alarm"}
  /\ active \in Move \cup {NoMove} /\ queue \in Seq(Move) /\ pos \in Place /\ absolute \in BOOLEAN
  /\ rx \in [length : 0..RxCapacity, overflow : BOOLEAN]
  /\ report \in [Limit -> {"none", "raised", "queued", "delivered", "withheld", "cleared"}]
  /\ pending \in Seq(Limit)
  /\ link \in {"armed", "released", "stuck", "stopped"} /\ peer \in BOOLEAN

\* Nothing is queued without a move to wait for, and never more than there is room for.
QueuedBehindActive ==
  /\ active = NoMove => queue = <<>>
  /\ Len(Plan) <= Capacity
\* A machine that shows Run or Jog makes such a move, one in alarm makes none.
ShowsMotion ==
  /\ state \in {"Run", "Jog"} => active # NoMove /\ state = Shown(active)
  /\ state = "Alarm" => ~Busy
\* Every queued move begins where the one before it ends.
Chained ==
  /\ queue # <<>> => Head(queue).start = active.target
  /\ \A n \in 1..Len(queue) - 1 : queue[n + 1].start = queue[n].target

\* Planner, reported state and alarm agree, whatever bytes, resets, hard limits
\* and completions come between each other.
PlannerSound == QueuedBehindActive /\ ShowsMotion /\ Chained

\* docs/mockgrbl.md:75: "An `ok` response means that a command was accepted". What
\* was accepted is made, in the order of acceptance: only a reset, a hard limit or
\* the cancelling of a jog take a move out of the plan; homing waits for it.
KeepsAccepted ==
  [][\/ Plan' = Plan
     \/ active # NoMove /\ Plan' = Tail(Plan)
     \/ state # "Alarm" /\ \E move \in Move : Plan' = Append(Plan, move)
     \/ ResetByte \/ DebugReset \/ \E i \in Limit : HardLimit(i)
     \/ JogCancelByte \/ (FeedHoldByte /\ state = "Jog")]_vars

\* The output of a hard limit reaches the client with some later byte of it, unless
\* a reset or a new client clears it or an option withholds it.
LimitAnnounced ==
  \A i \in Limit :
    report[i] = "raised" ~> report[i] \in {"delivered", "withheld", "cleared"}
                              \/ link \in {"stuck", "stopped"}

\* controller.go:277: "the shared move queue continues to report Run until physical
\* motion completes". Jog Cancel, $X and Hold followed by Resume report Idle during it.
IdleMeansAtRest == state = "Idle" => active = NoMove
=============================================================================
