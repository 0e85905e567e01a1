------------------------ MODULE CommandSessions_proofs ------------------------
(***************************************************************************)
(* What holds of commands for every number of them, every number of lines, *)
(* every value a setting may have and every timeout: the types, that the   *)
(* lease and the pending setting belong to the session that owns           *)
(* responses, that a dead machine is noticed, and, where nothing takes     *)
(* ownership or settings away, that the watchdog raises no false           *)
(* emergency, that the snapshot is what the machine has stored and that    *)
(* responses complete the lines they answer.                               *)
(*                                                                         *)
(* The types need no more than the types of what the goroutines, the event *)
(* channel and the machine hold.  Ownership is inductive with the type of  *)
(* the record: without an owner there is neither a lease nor a pending     *)
(* setting, because the operation of one names a command.  So a section    *)
(* that acquires ownership begins with nothing to inherit, and one that    *)
(* gives it away forgets what the owner had prepared.                      *)
(*                                                                         *)
(* The last three are one induction over invariants that need each other.  *)
(* Flow says where the one line of the owner and its one response are: at  *)
(* the machine, homing, in the event channel or in the session's backlog.  *)
(* A response nobody waits for appears only when the watchdog takes        *)
(* ownership away, and Leases and Heartbeat say that it never does: the    *)
(* machine is never silent for longer than the lease as it will be when    *)
(* the bridge has read all that was said, and an unanswered poll is one    *)
(* that a rejected or failed line, or an event on its way, has delayed.    *)
(*                                                                         *)
(* A dead machine is noticed because the time since its death can be       *)
(* accounted for (Waited): to leases, each of which takes a command and is *)
(* ended by another, to the heartbeat, to commands that held a poll up and *)
(* to upsets.  Tied and Departed say what this needs of the goroutines and *)
(* of the lines that were on their way.                                    *)
(***************************************************************************)
EXTENDS CommandSessions, FiniteSets, FiniteSetTheorems, SequenceTheorems, TLAPS

\* PreparedOwned of a record.
Owns(c) ==
  /\ c.lease # NoLease => c.lease.op.cmd = c.owner.cmd
  /\ c.mutation # NoMutation => c.mutation.op.cmd = c.owner.cmd
Owned(c) == c \in CommandsType /\ Owns(c)

-----------------------------------------------------------------------------
(* Numbers: every limit that is computed fits the ages. *)

LEMMA AgeType ==
  /\ Timeout \in Nat /\ Margin \in Nat /\ MaxValue \in Nat /\ MaxAge \in Nat
  /\ Age \subseteq Nat /\ 0 \in Age /\ NotSet \notin Nat
  /\ 2 * MaxValue + 2 + Margin <= MaxAge
BY CommandAssumption DEF MaxAge, Age, NotSet

LEMMA OlderType ==
  ASSUME NEW age \in Age
  PROVE  Older(age) \in Age
BY AgeType DEF Older, Age

LEMMA SilentTimeType ==
  ASSUME NEW kind \in Silent, NEW v \in 0..MaxValue, NEW adjustment \in Adjustments, NEW leg \in Nat
  PROVE  /\ SilentTime(kind, v, adjustment, leg) \in Nat
         /\ SilentTime(kind, v, adjustment, leg) <= 2 * MaxValue + 2
         /\ SilentTime(kind, v, adjustment, leg) \in Age
         /\ SilentTime(kind, v, adjustment, leg) + Margin \in Age
<1> DEFINE time == SilentTime(kind, v, adjustment, leg)
<1>1. v \in Nat /\ v <= MaxValue /\ MaxValue \in Nat /\ adjustment \in 0..1
  BY AgeType DEF Adjustments
<1>2. time \in {v, 2 * v + 1, adjustment + 2 * v + 1, adjustment + v}
  BY DEF SilentTime
<1>3. time \in Nat /\ time <= 2 * MaxValue + 2
  <2> HIDE DEF time
  <2> QED BY <1>1, <1>2
<1>4. \A t \in Nat : t <= 2 * MaxValue + 2 => t \in Age /\ t + Margin \in Age
  BY AgeType DEF Age
<1> HIDE DEF time
<1>5. time \in Age /\ time + Margin \in Age
  BY <1>3, <1>4
<1> QED BY <1>3, <1>5 DEF time

-----------------------------------------------------------------------------
(* The locked functions. *)

LEMMA Nobody ==
  ASSUME NEW c, Owned(c), c.owner.cmd \notin Commands
  PROVE  c.owner = NoOwner /\ c.lease = NoLease /\ c.mutation = NoMutation
BY DEF Owned, Owns, CommandsType, Owner, NoOwner, Operation

LEMMA InitCommandsOwned == Owned(InitCommands)
BY CommandAssumption, AgeType
   DEF Owned, Owns, InitCommands, CommandsType, NoOwner, NoMutation, NoLease

LEMMA RegisterOwned ==
  ASSUME NEW c, Owned(c), NEW s \in Commands
  PROVE  Owned([c EXCEPT !.waiters = @ \cup {s}]) /\ Owned([c EXCEPT !.waiters = @ \ {s}])
BY DEF Owned, Owns, CommandsType

LEMMA ReserveOwned ==
  ASSUME NEW c, Owned(c), NEW w \in {"none", "poll", "reset"}
  PROVE  Owned([c EXCEPT !.write = w])
BY DEF Owned, Owns, CommandsType

LEMMA AcquireOwned ==
  ASSUME NEW c, Owned(c), c.owner = NoOwner, NEW owner \in Owner
  PROVE  Owned([c EXCEPT !.owner = owner])
<1>1. c.lease = NoLease /\ c.mutation = NoMutation
  BY Nobody DEF NoOwner, Commands
<1> QED BY <1>1 DEF Owned, Owns, CommandsType

LEMMA ReleaseOwned ==
  ASSUME NEW c, Owned(c), NEW s
  PROVE  Owned(ReleaseOwner(c, s))
<1>1. CASE c.owner.cmd # s \/ s = 0
  BY <1>1 DEF ReleaseOwner
<1>2. CASE c.owner.cmd = s /\ s # 0
  <2> DEFINE f == Forget(c, s)
  <2>1. f.lease = NoLease /\ f.mutation = NoMutation /\ f \in CommandsType
    BY <1>2 DEF Forget, Owned, Owns, CommandsType
  <2>2. ReleaseOwner(c, s) = [f EXCEPT !.owner = NoOwner]
    BY <1>2 DEF ReleaseOwner
  <2> QED BY <2>1, <2>2 DEF Owned, Owns, CommandsType
<1> QED BY <1>1, <1>2

LEMMA CommitOwned ==
  ASSUME NEW c, Owned(c), NEW op
  PROVE  Owned(CommitMutation(c, op))
<1>1. CASE c.mutation.op # op \/ op = NoOp
  BY <1>1 DEF CommitMutation
<1>2. CASE c.mutation.op = op /\ op # NoOp
  <2>1. c.mutation.value \in 0..MaxValue
    BY <1>2, AgeType DEF Owned, CommandsType, NoMutation
  <2> QED BY <1>2, <2>1, AgeType DEF CommitMutation, Owned, Owns, CommandsType
<1> QED BY <1>1, <1>2

LEMMA ClearOwned ==
  ASSUME NEW c, Owned(c), NEW op
  PROVE  Owned(ClearPreparation(c, op))
BY DEF ClearPreparation, Owned, Owns, CommandsType

\* What is prepared is prepared for the owner.
LEMMA PrepareOwned ==
  ASSUME NEW c, Owned(c), NEW line \in Line, NEW op \in Operation, c.owner.cmd = op.cmd
  PROVE  Owned(Prepare(c, op, line))
<1>1. CASE line.kind = "set"
  <2>1. line.value \in 1..MaxValue
    BY <1>1 DEF Line, Silent
  <2>2. Prepare(c, op, line) = [c EXCEPT !.mutation = [op |-> op, value |-> line.value]]
    BY <1>1 DEF Prepare, Silent
  <2> QED BY <2>1, <2>2 DEF Owned, Owns, CommandsType
<1>2. CASE line.kind = "reset"
  BY <1>2, AgeType DEF Prepare, Owned, Owns, CommandsType, Silent
<1>3. CASE line.kind \in Silent
  <2> DEFINE lease == [op |-> op, kind |-> line.kind, leg |-> 0, age |-> 0, idle |-> 0,
                       limit |-> SilentTime(line.kind, c.snapshot, 0, 0) + Margin]
  <2>1. SilentTime(line.kind, c.snapshot, 0, 0) + Margin \in Age
    BY <1>3, SilentTimeType DEF Owned, CommandsType, Adjustments
  <2>2. lease \in [op : Operation, kind : Silent, leg : 0..3, age : Age, idle : Age, limit : Age]
    BY <1>3, <2>1, AgeType
  <2>3. Owned([c EXCEPT !.lease = lease, !.beat = NotSet])
    <3> HIDE DEF lease
    <3>1. lease.op = op
      BY DEF lease
    <3> QED BY <2>2, <3>1 DEF Owned, Owns, CommandsType
  <2>4. Prepare(c, op, line) = IF c.snapshot = 0 THEN c ELSE [c EXCEPT !.lease = lease, !.beat = NotSet]
    BY <1>3 DEF Prepare, BeginSilence, Silent
  <2> QED BY <2>3, <2>4
<1>4. CASE line.kind \in {"move", "unlock"}
  BY <1>4 DEF Prepare, Silent
<1> QED BY <1>1, <1>2, <1>3, <1>4 DEF Line

LEMMA BeginPollOwned ==
  ASSUME NEW c, Owned(c)
  PROVE  Owned(BeginPoll(c))
BY AgeType DEF BeginPoll, Owned, Owns, CommandsType

LEMMA NoteActivityOwned ==
  ASSUME NEW c, Owned(c), NEW age \in Nat
  PROVE  Owned(NoteActivity(c, age))
<1>1. CASE c.lease = NoLease \/ age > c.lease.age
  <2>1. c.lease = NoLease \/ c.lease.age \in Nat
    BY AgeType DEF Owned, CommandsType
  <2>2. ~(c.lease # NoLease /\ age <= c.lease.age)
    BY <1>1, <2>1
  <2>3. NoteActivity(c, age) = [c EXCEPT !.beat = IF @ # NotSet /\ age <= @ THEN NotSet ELSE @,
                                         !.lease = c.lease]
    BY <2>2 DEF NoteActivity
  <2> QED BY <2>3 DEF Owned, Owns, CommandsType
<1>2. CASE c.lease # NoLease /\ age <= c.lease.age
  <2> DEFINE lease == [c.lease EXCEPT !.idle = IF age < @ THEN age ELSE @]
  <2>1. /\ lease \in [op : Operation, kind : Silent, leg : 0..3, age : Age, idle : Age, limit : Age]
        /\ lease.op = c.lease.op
    BY <1>2, AgeType DEF Owned, CommandsType, Age
  <2>2. NoteActivity(c, age) = [c EXCEPT !.beat = IF @ # NotSet /\ age <= @ THEN NotSet ELSE @,
                                         !.lease = lease]
    BY <1>2 DEF NoteActivity, Owned, CommandsType
  <2> HIDE DEF lease
  <2> QED BY <1>2, <2>1, <2>2 DEF Owned, Owns, CommandsType
<1> QED BY <1>1, <1>2, AgeType DEF Owned, CommandsType, NoLease, Age

LEMMA NoteProgressOwned ==
  ASSUME NEW c, Owned(c), NEW age \in Nat, NEW adjustment \in Adjustments \cup {NotSet}
  PROVE  Owned(NoteProgress(c, age, adjustment))
<1> DEFINE l == c.lease
           made == IF adjustment = NotSet THEN 1 ELSE adjustment
           limit == SilentTime("level", c.snapshot, made, l.leg + 1) + Margin
           none == l = NoLease \/ l.kind # "level" \/ age > l.age \/ age > l.idle \/ l.leg = 3
<1>1. CASE none
  BY <1>1 DEF NoteProgress
<1>2. CASE ~none
  <2>1. l \in [op : Operation, kind : Silent, leg : 0..3, age : Age, idle : Age, limit : Age]
        /\ l.leg \in 0..2
    BY <1>2 DEF Owned, CommandsType
  <2>2. made \in Adjustments
    BY DEF Adjustments
  <2>3. limit \in Age
    BY <2>1, <2>2, SilentTimeType DEF Owned, CommandsType, Silent
  <2>4. NoteProgress(c, age, adjustment) = [c EXCEPT !.lease.leg = @ + 1, !.lease.limit = limit]
    BY <1>2 DEF NoteProgress
  <2> DEFINE next == [l EXCEPT !.leg = @ + 1, !.limit = limit]
  <2>5. NoteProgress(c, age, adjustment) = [c EXCEPT !.lease = next]
    BY <2>4 DEF Owned, CommandsType
  <2>6. /\ next \in [op : Operation, kind : Silent, leg : 0..3, age : Age, idle : Age, limit : Age]
        /\ next.op = l.op /\ l # NoLease
    <3>1. l # NoLease
      BY <1>2
    <3>2. l.leg + 1 \in 0..3
      BY <2>1
    <3>3. next = [l EXCEPT !.leg = l.leg + 1, !.limit = limit]
      OBVIOUS
    <3> HIDE DEF limit, made, l, next
    <3> QED BY <3>1, <3>2, <3>3, <2>1, <2>3
  <2> HIDE DEF next, none
  <2> QED BY <2>5, <2>6 DEF Owned, Owns, CommandsType
<1> QED BY <1>1, <1>2

LEMMA EnterEStopOwned ==
  ASSUME NEW c, Owned(c)
  PROVE  Owned(EnterEStop(c))
<1> DEFINE r == ReleaseOwner(c, c.owner.cmd)
<1>1. Owned(r)
  BY ReleaseOwned
<1>2. EnterEStop(c) \in {c, [r EXCEPT !.lease = NoLease, !.estop = "active"]}
  BY DEF EnterEStop
<1> HIDE DEF r
<1>3. Owned([r EXCEPT !.lease = NoLease, !.estop = "active"])
  BY ZenonT(60), <1>1 DEF Owned, Owns, CommandsType
<1> QED BY <1>2, <1>3

LEMMA NoteStatusOwned ==
  ASSUME NEW c, Owned(c), NEW idle \in BOOLEAN
  PROVE  Owned(NoteStatus(c, idle))
BY DEF NoteStatus, Owned, Owns, CommandsType

LEMMA AgesOwned ==
  ASSUME NEW c, Owned(c)
  PROVE  Owned(Ages(c))
<1>1. c.beat # NotSet => Older(c.beat) \in Age
  BY OlderType DEF Owned, CommandsType
<1> DEFINE lease == [c.lease EXCEPT !.age = Older(@), !.idle = Older(@)]
<1>2. CASE c.lease = NoLease
  BY ZenonT(60), <1>1, <1>2 DEF Ages, Owned, Owns, CommandsType
<1>3. CASE c.lease # NoLease
  <2>1. c.lease \in [op : Operation, kind : Silent, leg : 0..3, age : Age, idle : Age, limit : Age]
    BY <1>3 DEF Owned, CommandsType
  <2>2. /\ lease \in [op : Operation, kind : Silent, leg : 0..3, age : Age, idle : Age, limit : Age]
        /\ lease.op = c.lease.op
    BY <2>1, OlderType
  <2>3. Ages(c) = [c EXCEPT !.beat = IF @ = NotSet THEN @ ELSE Older(@), !.lease = lease]
    BY <1>3 DEF Ages, Owned, CommandsType
  <2> HIDE DEF lease
  <2>4. Ages(c) \in CommandsType
    BY <1>1, <2>2, <2>3 DEF Owned, CommandsType
  <2>5. /\ Ages(c).lease = lease /\ Ages(c).mutation = c.mutation /\ Ages(c).owner = c.owner
    BY <2>3 DEF Owned, CommandsType
  <2> QED BY <1>3, <2>2, <2>4, <2>5 DEF Owned, Owns
<1> QED BY <1>2, <1>3

-----------------------------------------------------------------------------
(* What goroutines, event channel and machine hold. *)

Label == {"new", "admission", "prepare", "write", "write ctrl-x", "wait", "end", "done"}
Text == {"ok", "error", "banner", "alarm50", "idle", "alarm status"} \cup Progress
Answered == Operation \cup {NoOp}
Response == [text : Text, op : Answered]
Backlog == {q \in Seq(Response) : Len(q) <= MaxBacklog}
CommandType ==
  [kind : {"none", "manual", "macro", "unlock", "reset"}, pc : Label, line : Line,
   at : 0..MaxLines, rxCh : Backlog, canceled : BOOLEAN]
Input == [cmd : Commands, at : Nat, line : Line]
MachineType ==
  [alive : BOOLEAN, alarm : BOOLEAN, setting : 1..MaxValue, homing : Age \cup {NotSet},
   op : Answered, kind : Silent, leg : 0..3, input : Seq(Input), ask : BOOLEAN, dead : Nat]
LineEvent == [text : Text, age : 0..Lag, op : Answered]
Channel == {q \in Seq(LineEvent) : Len(q) <= MaxRx}

CmdInv == cmd \in [Commands -> CommandType]
RxInv == rx \in Channel
DevInv == dev \in MachineType
Held == CmdInv /\ RxInv /\ DevInv
IInv == Owned(ctl) /\ Held

LEMMA Bounds ==
  /\ MaxLines \in Nat /\ MaxLines >= 1 /\ MaxBacklog \in Nat /\ MaxBacklog >= 1
  /\ MaxRx \in Nat /\ Lag \in Nat /\ Offered \subseteq Line /\ NoLine \in Line
  /\ 0 \notin Commands /\ NoOp \in Answered /\ 1 \in 1..MaxValue
BY SessionAssumption, CommandAssumption DEF NoLine, Line, Commands, Answered

LEMMA LongestType ==
  /\ LongestLease \in Nat /\ LongestLease >= 5
  /\ \A n \in 1..LongestLease : n \in Nat /\ 0 < n /\ n <= LongestLease
BY CommandAssumption DEF LongestLease

LEMMA NoticedType == Noticed \in Nat /\ Lag <= Noticed
<1> DEFINE each == Timeout + 1 + LongestLease
           beat == Timeout + 1
           p == (MaxCommands + 1) \div 2
           most == p * each
           upset == MaxUpsets * beat
<1>1. each \in Nat /\ beat \in Nat /\ p \in Nat /\ MaxUpsets \in Nat
  BY CommandAssumption, LongestType, SessionAssumption
<1>2. most \in Nat /\ upset \in Nat
  <2> HIDE DEF each, beat, p
  <2> QED BY <1>1
<1>3. Noticed = Lag + upset + most
  BY DEF Noticed
<1> HIDE DEF most, upset
<1> QED BY Bounds, <1>2, <1>3

LEMMA LinesType ==
  ASSUME NEW kind \in Kinds
  PROVE  LinesOf(kind) \subseteq Line
BY Bounds, SessionAssumption DEF LinesOf, Line

LEMMA SilenceType ==
  ASSUME NEW kind \in Silent, NEW v \in 1..MaxValue, NEW adjustment \in Adjustments, NEW leg \in Nat
  PROVE  SilentTime(kind, v, adjustment, leg) \in Age
BY SilentTimeType, AgeType

-----------------------------------------------------------------------------
(* The goroutine of a command. *)

LEMMA OpType ==
  ASSUME CmdInv, NEW s \in Commands
  PROVE  Op(s) \in Operation /\ Op(s).cmd = s
BY Bounds DEF CmdInv, CommandType, Op, Operation

LEMMA GoesType ==
  ASSUME CmdInv, NEW s \in Commands, NEW pc \in Label, Goes(s, pc)
  PROVE  CmdInv'
BY DEF CmdInv, CommandType, Goes

LEMMA CancelsType ==
  ASSUME CmdInv, NEW s \in Commands \cup {0}
  PROVE  Cancels(s) \in [Commands -> CommandType]
BY Bounds DEF CmdInv, CommandType, Cancels

LEMMA TailType ==
  ASSUME NEW q \in Backlog, q # <<>>
  PROVE  Tail(q) \in Backlog
<1>1. Tail(q) \in Seq(Response) /\ Len(Tail(q)) = Len(q) - 1
  BY HeadTailProperties DEF Backlog
<1> QED BY <1>1, Bounds, LenProperties DEF Backlog

LEMMA RestType ==
  ASSUME RxInv, rx # <<>>
  PROVE  Tail(rx) \in Channel /\ Head(rx) \in LineEvent
<1>1. Tail(rx) \in Seq(LineEvent) /\ Len(Tail(rx)) = Len(rx) - 1 /\ Head(rx) \in LineEvent
  BY HeadTailProperties DEF RxInv, Channel
<1> QED BY <1>1, Bounds, LenProperties DEF RxInv, Channel

LEMMA SaysType ==
  ASSUME RxInv, NEW text \in Text, NEW op \in Answered, Says(text, op)
  PROVE  RxInv'
<1>1. [text |-> text, age |-> 0, op |-> op] \in LineEvent
  BY Bounds DEF LineEvent
<1>2. Len(rx) \in Nat /\ rx \in Seq(LineEvent)
  BY LenProperties DEF RxInv, Channel
<1>3. Append(rx, [text |-> text, age |-> 0, op |-> op]) \in Seq(LineEvent)
      /\ Len(Append(rx, [text |-> text, age |-> 0, op |-> op])) = Len(rx) + 1
  BY <1>1, <1>2, AppendProperties
<1> QED BY <1>2, <1>3, Bounds DEF Says, RxInv, Channel

LEMMA IssueStep ==
  ASSUME IInv, NEW s \in Commands, Issue(s)
  PROVE  IInv'
<1>1. Owned(ctl')
  BY RegisterOwned DEF Issue, IInv
<1>2. CmdInv'
  <2> PICK kind \in Kinds : \E line \in LinesOf(kind) :
        cmd' = [cmd EXCEPT ![s] = [NoCommand EXCEPT !.kind = kind, !.pc = "admission", !.at = 1,
                                                    !.line = line]]
    BY DEF Issue
  <2>1. PICK line \in LinesOf(kind) :
          cmd' = [cmd EXCEPT ![s] = [NoCommand EXCEPT !.kind = kind, !.pc = "admission", !.at = 1,
                                                      !.line = line]]
    OBVIOUS
  <2>2. line \in Line /\ kind \in {"manual", "macro", "unlock", "reset"}
    BY LinesType, SessionAssumption
  <2>3. <<>> \in Backlog /\ 1 \in 0..MaxLines
    BY Bounds, EmptySeq DEF Backlog
  <2>4. [NoCommand EXCEPT !.kind = kind, !.pc = "admission", !.at = 1, !.line = line] \in CommandType
    BY <2>2, <2>3 DEF NoCommand, CommandType, Label
  <2> QED BY <2>1, <2>4 DEF IInv, Held, CmdInv
<1> QED BY <1>1, <1>2 DEF Issue, IInv, Held, RxInv, DevInv

LEMMA AdmitStep ==
  ASSUME IInv, NEW s \in Commands, Admit(s)
  PROVE  IInv'
<1> DEFINE x == cmd[s]
           registered == Registered(s)
           owner == [kind |-> IF x.kind = "macro" THEN "macro" ELSE "manual", cmd |-> s]
           owned == [registered EXCEPT !.owner = owner]
<1>1. Owned(registered) /\ registered.owner = ctl.owner
  BY RegisterOwned DEF Registered, IInv, Owned, CommandsType
<1>2. x.line \in Line /\ CmdInv /\ owner \in Owner /\ owner.cmd = s
  BY DEF IInv, Held, CmdInv, CommandType, Owner
<1>3. Op(s) \in Operation /\ Op(s).cmd = s
  BY <1>2, OpType
<1>4. CASE ~AdmitsOwner(ctl, x.kind)
  <2>1. ctl' = registered /\ Goes(s, "done")
    BY <1>4 DEF Admit
  <2> QED BY <2>1, <1>1, <1>2, GoesType DEF Label, Admit, IInv, Held, RxInv, DevInv
<1>5. CASE AdmitsOwner(ctl, x.kind)
  <2>1. Owned(owned)
    <3> HIDE DEF registered, owner
    <3> QED BY <1>1, <1>2, <1>5, AcquireOwned DEF AdmitsOwner
  <2>2. owned.owner.cmd = s
    BY <1>1, <1>2 DEF Owned, CommandsType
  <2>3. \/ ctl' = owned /\ Goes(s, "prepare")
        \/ ctl' = ReleaseOwner(owned, s) /\ Goes(s, "done")
        \/ ctl' = Prepare(owned, Op(s), x.line) /\ Goes(s, "write")
    BY <1>5 DEF Admit
  <2>4. Owned(ReleaseOwner(owned, s)) /\ Owned(Prepare(owned, Op(s), x.line))
    <3> HIDE DEF owned, x
    <3> QED BY <2>1, <2>2, <1>2, <1>3, ReleaseOwned, PrepareOwned
  <2>5. Owned(ctl')
    <3> HIDE DEF owned, x
    <3> QED BY <2>1, <2>3, <2>4
  <2>6. CmdInv'
    <3> HIDE DEF owned, x
    <3> QED BY <2>3, <1>2, GoesType DEF Label
  <2> QED BY <2>5, <2>6 DEF Admit, IInv, Held, RxInv, DevInv
<1> QED BY <1>4, <1>5

LEMMA PrepareLineStep ==
  ASSUME IInv, NEW s \in Commands, PrepareLine(s)
  PROVE  IInv'
<1>1. cmd[s].line \in Line /\ CmdInv /\ Owned(ctl)
  BY DEF IInv, Held, CmdInv, CommandType
<1>2. Op(s) \in Operation /\ Op(s).cmd = s
  BY <1>1, OpType
<1>3. \/ UNCHANGED ctl /\ (Goes(s, "write") \/ Goes(s, "end"))
      \/ /\ ctl.owner = [kind |-> "macro", cmd |-> s]
         /\ ctl' = Prepare(ctl, Op(s), cmd[s].line) /\ Goes(s, "write")
  BY DEF PrepareLine
<1>4. ctl.owner = [kind |-> "macro", cmd |-> s] => Owned(Prepare(ctl, Op(s), cmd[s].line))
  BY <1>1, <1>2, PrepareOwned
<1>5. Owned(ctl') /\ CmdInv'
  BY <1>1, <1>3, <1>4, GoesType DEF Label
<1> QED BY <1>5 DEF PrepareLine, IInv, Held, RxInv, DevInv

LEMMA WriteLineStep ==
  ASSUME IInv, NEW s \in Commands, WriteLine(s)
  PROVE  IInv'
<1> DEFINE input == [cmd |-> s, at |-> cmd[s].at, line |-> cmd[s].line]
<1>1. CmdInv /\ cmd[s].at \in Nat /\ input \in Input
  BY Bounds DEF IInv, Held, CmdInv, CommandType, Input
<1>2. Append(dev.input, input) \in Seq(Input)
  BY <1>1, AppendProperties DEF IInv, Held, DevInv, MachineType
<1>3. dev' \in {dev, [dev EXCEPT !.input = Append(dev.input, input)]}
  BY DEF WriteLine
<1>4. DevInv'
  <2> HIDE DEF input
  <2> QED BY <1>2, <1>3 DEF IInv, Held, DevInv, MachineType
<1>5. CmdInv'
  BY <1>1, GoesType DEF WriteLine, Label
<1> QED BY <1>4, <1>5 DEF WriteLine, IInv, Held, RxInv

LEMMA WriteLineFailsStep ==
  ASSUME IInv, NEW s \in Commands, WriteLineFails(s)
  PROVE  IInv'
<1> DEFINE cleared == ClearPreparation(ctl, Op(s))
<1>1. Owned(cleared) /\ Owned(ReleaseOwner(cleared, s))
  BY ClearOwned, ReleaseOwned DEF IInv
<1>2. ctl' \in {cleared, ReleaseOwner(cleared, s)} /\ (Goes(s, "end") \/ Goes(s, "done"))
  BY DEF WriteLineFails
<1>3. Owned(ctl')
  <2> HIDE DEF cleared
  <2> QED BY <1>1, <1>2
<1>4. CmdInv'
  BY <1>2, GoesType DEF IInv, Held, Label
<1> QED BY <1>3, <1>4 DEF WriteLineFails, IInv, Held, RxInv, DevInv

LEMMA TakeOKStep ==
  ASSUME IInv, NEW s \in Commands, TakeOK(s)
  PROVE  IInv'
<1>1. Owned(ctl')
  BY CommitOwned, ClearOwned DEF IInv, TakeOK
<1>2. cmd[s] \in CommandType /\ cmd[s].rxCh # <<>> /\ cmd \in [Commands -> CommandType]
  BY DEF IInv, Held, CmdInv, TakeOK
<1> DEFINE answered == [cmd[s] EXCEPT !.rxCh = Tail(@), !.pc = "end"]
<1>3. answered \in CommandType /\ answered.at = cmd[s].at
  BY <1>2, TailType DEF CommandType, Label
<1>4. \/ cmd' = [cmd EXCEPT ![s] = answered]
      \/ /\ cmd[s].at < MaxLines
         /\ \E line \in Offered :
              cmd' = [cmd EXCEPT ![s] = [answered EXCEPT !.pc = "prepare", !.at = @ + 1, !.line = line]]
  BY DEF TakeOK
<1>5. CmdInv'
  <2>1. CASE cmd' = [cmd EXCEPT ![s] = answered]
    <3> HIDE DEF answered
    <3> QED BY <1>2, <1>3, <2>1 DEF CmdInv
  <2>2. ASSUME cmd[s].at < MaxLines, NEW line \in Offered,
               cmd' = [cmd EXCEPT ![s] = [answered EXCEPT !.pc = "prepare", !.at = @ + 1, !.line = line]]
        PROVE  CmdInv'
    <3>1. cmd[s].at + 1 \in 0..MaxLines /\ line \in Line
      BY <1>2, <2>2, Bounds DEF CommandType
    <3> HIDE DEF answered
    <3>2. [answered EXCEPT !.pc = "prepare", !.at = @ + 1, !.line = line] \in CommandType
      BY <1>3, <3>1 DEF CommandType, Label
    <3> QED BY <1>2, <2>2, <3>2 DEF CmdInv
  <2> QED BY <1>4, <2>1, <2>2
<1> QED BY <1>1, <1>5 DEF TakeOK, IInv, Held, RxInv, DevInv

LEMMA TakeFailureStep ==
  ASSUME IInv, NEW s \in Commands, TakeFailure(s)
  PROVE  IInv'
<1>1. Owned(ctl')
  BY ClearOwned DEF IInv, TakeFailure
<1>2. CmdInv'
  BY GoesType DEF IInv, Held, TakeFailure, Label
<1> QED BY <1>1, <1>2 DEF TakeFailure, IInv, Held, RxInv, DevInv

LEMMA EndSessionStep ==
  ASSUME IInv, NEW s \in Commands, EndSession(s)
  PROVE  IInv'
<1>1. Owned(ctl')
  BY ReleaseOwned DEF IInv, EndSession
<1>2. CmdInv'
  BY GoesType DEF IInv, Held, EndSession, Label
<1> QED BY <1>1, <1>2 DEF EndSession, IInv, Held, RxInv, DevInv

\* The session that loses ownership, if there is one, is one of the commands.
LEMMA OwnerType ==
  ASSUME NEW c, Owned(c)
  PROVE  c.owner.cmd \in Commands \cup {0}
BY DEF Owned, CommandsType, Owner, NoOwner

LEMMA AdmitResetStep ==
  ASSUME IInv, NEW s \in Commands, AdmitReset(s)
  PROVE  IInv'
<1> DEFINE released == ReleaseOwner(Registered(s), ctl.owner.cmd)
<1>1. Owned(Registered(s)) /\ Owned(released)
  BY RegisterOwned, ReleaseOwned DEF Registered, IInv
<1>2. \/ ctl' = Registered(s) /\ Goes(s, "done")
      \/ /\ ctl' = [released EXCEPT !.write = "reset"]
         /\ cmd' = [Cancels(ctl.owner.cmd) EXCEPT ![s].pc = "write ctrl-x"]
  BY DEF AdmitReset
<1>3. Owned(ctl')
  <2> HIDE DEF released
  <2> QED BY <1>1, <1>2, ReserveOwned
<1>4. Cancels(ctl.owner.cmd) \in [Commands -> CommandType]
  BY CancelsType, OwnerType DEF IInv, Held
<1>5. CASE Goes(s, "done")
  <2>1. CmdInv'
    BY <1>5, GoesType DEF IInv, Held, Label
  <2> QED BY <1>3, <2>1 DEF AdmitReset, IInv, Held, RxInv, DevInv
<1>6. CASE cmd' = [Cancels(ctl.owner.cmd) EXCEPT ![s].pc = "write ctrl-x"]
  <2>1. CmdInv'
    BY ZenonT(60), <1>4, <1>6 DEF CmdInv, CommandType, Label
  <2> QED BY <1>3, <2>1 DEF AdmitReset, IInv, Held, RxInv, DevInv
<1> QED BY <1>2, <1>5, <1>6

LEMMA WriteResetStep ==
  ASSUME IInv, NEW s \in Commands, WriteReset(s)
  PROVE  IInv'
<1>1. Owned(ctl')
  BY ReserveOwned DEF IInv, WriteReset
<1>2. CmdInv'
  BY GoesType DEF IInv, Held, WriteReset, Label
<1>3. \/ UNCHANGED <<rx, dev>>
      \/ /\ dev' = [dev EXCEPT !.input = <<>>, !.homing = NotSet, !.ask = FALSE]
         /\ Says("banner", NoOp)
  BY DEF WriteReset, Says
<1>4. DevInv'
  <2>1. <<>> \in Seq(Input)
    BY EmptySeq
  <2> QED BY <1>3, <2>1 DEF IInv, Held, DevInv, MachineType
<1>5. RxInv'
  BY <1>3, SaysType, Bounds DEF IInv, Held, RxInv, Text
<1> QED BY <1>1, <1>2, <1>4, <1>5 DEF IInv, Held

-----------------------------------------------------------------------------
(* Heartbeat, watchdog and event bridge. *)

LEMMA MonitorStep ==
  ASSUME IInv, Monitor
  PROVE  IInv'
<1>1. CASE PollRefused
  BY <1>1 DEF PollRefused, IInv, Held, CmdInv, RxInv, DevInv
<1>2. CASE PollAdmitted
  BY <1>2, BeginPollOwned DEF PollAdmitted, IInv, Held, CmdInv, RxInv, DevInv
<1>3. CASE WritePoll
  <2>1. Owned(ctl')
    BY <1>3, ReserveOwned DEF IInv, WritePoll
  <2>2. DevInv'
    BY <1>3 DEF WritePoll, IInv, Held, DevInv, MachineType
  <2> QED BY <1>3, <2>1, <2>2 DEF WritePoll, IInv, Held, CmdInv, RxInv
<1>4. CASE CheckWatchdog
  <2>1. Owned(ctl')
    BY <1>4, EnterEStopOwned DEF IInv, CheckWatchdog
  <2>2. CmdInv'
    BY <1>4, CancelsType, OwnerType DEF CheckWatchdog, IInv, Held, CmdInv
  <2> QED BY <1>4, <2>1, <2>2 DEF CheckWatchdog, IInv, Held, RxInv, DevInv
<1> QED BY <1>1, <1>2, <1>3, <1>4 DEF Monitor

LEMMA DeliverStep ==
  ASSUME IInv, NEW c, Owned(c), c.owner = ctl.owner, NEW e \in LineEvent, Deliver(c, e)
  PROVE  Owned(ctl') /\ CmdInv'
<1> DEFINE s == c.owner.cmd
<1>1. s \in Commands \cup {0} /\ CmdInv
  BY OwnerType DEF IInv, Held
<1>2. CASE c.owner.kind = "none"
  BY <1>1, <1>2 DEF Deliver, CmdInv
<1>3. CASE c.owner.kind = "manual"
  <2>1. UNCHANGED cmd /\ \E d \in {c, CommitMutation(c, c.mutation.op)} : ctl' = ReleaseOwner(d, s)
    BY <1>3 DEF Deliver
  <2>2. \A d \in {c, CommitMutation(c, c.mutation.op)} : Owned(ReleaseOwner(d, s))
    BY CommitOwned, ReleaseOwned
  <2> QED BY <1>1, <2>1, <2>2 DEF CmdInv
<1>4. CASE c.owner.kind = "macro" /\ Len(cmd[s].rxCh) < MaxBacklog
  <2> DEFINE r == [text |-> e.text, op |-> e.op]
  <2>1. ctl' = c /\ cmd' = [cmd EXCEPT ![s].rxCh = Append(@, r)]
    <3>1. ~(Len(cmd[s].rxCh) >= MaxBacklog)
      <4>1. s \in Commands
        BY <1>4 DEF Owned, CommandsType, Owner, NoOwner
      <4>2. Len(cmd[s].rxCh) \in Nat
        BY <4>1, <1>1, LenProperties DEF CmdInv, CommandType, Backlog
      <4> QED BY <4>2, <1>4, Bounds
    <3> QED BY <1>4, <3>1 DEF Deliver
  <2>2. r \in Response
    BY DEF LineEvent, Response
  <2>3. s \in Commands
    BY <1>4 DEF Owned, CommandsType, Owner, NoOwner
  <2>4. cmd[s].rxCh \in Seq(Response) /\ Len(cmd[s].rxCh) \in Nat /\ cmd[s] \in CommandType
    BY <1>1, <2>3, LenProperties DEF CmdInv, CommandType, Backlog
  <2>5. Append(cmd[s].rxCh, r) \in Backlog
    <3> HIDE DEF r
    <3>1. Append(cmd[s].rxCh, r) \in Seq(Response) /\ Len(Append(cmd[s].rxCh, r)) = Len(cmd[s].rxCh) + 1
      BY <2>2, <2>4, AppendProperties
    <3> QED BY <3>1, <1>4, <2>4, Bounds DEF Backlog
  <2>6. CmdInv'
    <3> HIDE DEF r, s
    <3> QED BY <1>1, <2>1, <2>3, <2>5 DEF CmdInv, CommandType
  <2> QED BY <2>1, <2>6
<1>5. CASE c.owner.kind \notin {"none", "manual"} /\ ~(c.owner.kind = "macro" /\ Len(cmd[s].rxCh) < MaxBacklog)
  <2>1. ~(c.owner.kind = "macro" /\ ~(Len(cmd[s].rxCh) >= MaxBacklog))
    <3>1. s \in Commands
      BY <1>5 DEF Owned, CommandsType, Owner, NoOwner
    <3>2. Len(cmd[s].rxCh) \in Nat
      BY <3>1, <1>1, LenProperties DEF CmdInv, CommandType, Backlog
    <3> QED BY <3>2, <1>5, Bounds
  <2>2. ctl' = ReleaseOwner(c, s) /\ cmd' = Cancels(s)
    BY <1>5, <2>1 DEF Deliver
  <2> QED BY <1>1, <2>2, ReleaseOwned, CancelsType DEF CmdInv
<1> QED BY <1>2, <1>3, <1>4, <1>5

LEMMA NoteOwner ==
  ASSUME NEW c, Owned(c), NEW age \in Nat, NEW adjustment
  PROVE  /\ NoteActivity(c, age).owner = c.owner
         /\ Owned(NoteActivity(c, age)) => NoteProgress(NoteActivity(c, age), age, adjustment).owner = c.owner
<1>1. NoteActivity(c, age).owner = c.owner
  BY DEF NoteActivity, Owned, CommandsType
<1>2. \A d : Owned(d) => NoteProgress(d, age, adjustment).owner = d.owner
  BY DEF NoteProgress, Owned, CommandsType
<1> QED BY <1>1, <1>2

LEMMA BridgeStep ==
  ASSUME IInv, Bridge
  PROVE  IInv'
<1> DEFINE e == Head(rx)
           noted == NoteActivity(ctl, e.age)
           heard == IF e.text \in Progress THEN NoteProgress(noted, e.age, Adjusted(e.text)) ELSE noted
<1>1. e \in LineEvent /\ e.age \in Nat /\ RxInv'
  <2>1. RxInv /\ rx # <<>> /\ rx' = Tail(rx)
    BY DEF Bridge, IInv, Held
  <2>2. e \in LineEvent /\ rx' \in Channel
    BY <2>1, RestType
  <2> QED BY <2>2, Bounds DEF RxInv, LineEvent
<1>2. Adjusted(e.text) \in Adjustments \cup {NotSet}
  BY DEF Adjusted, Adjustments
<1>3. Owned(heard) /\ heard.owner = ctl.owner
  <2>1. Owned(noted) /\ noted.owner = ctl.owner
    BY <1>1, NoteActivityOwned, NoteOwner DEF IInv
  <2>2. /\ Owned(NoteProgress(noted, e.age, Adjusted(e.text)))
        /\ NoteProgress(noted, e.age, Adjusted(e.text)).owner = ctl.owner
    BY <2>1, <1>1, <1>2, NoteProgressOwned, NoteOwner DEF IInv
  <2> HIDE DEF noted
  <2> QED BY <2>1, <2>2
<1>4. \/ ctl' = NoteStatus(heard, e.text = "idle") /\ UNCHANGED cmd
      \/ ctl' = heard /\ UNCHANGED cmd
      \/ ctl' = EnterEStop(heard) /\ cmd' = Cancels(ctl.owner.cmd)
      \/ Deliver(heard, e)
  BY DEF Bridge
<1>5. UNCHANGED dev /\ Cancels(ctl.owner.cmd) \in [Commands -> CommandType]
  BY CancelsType, OwnerType DEF Bridge, IInv, Held
<1> HIDE DEF heard, e
<1>6. Owned(ctl') /\ CmdInv'
  <2>1. CASE ctl' = NoteStatus(heard, e.text = "idle") /\ UNCHANGED cmd
    BY <1>3, <2>1, NoteStatusOwned DEF IInv, Held, CmdInv
  <2>2. CASE ctl' = heard /\ UNCHANGED cmd
    BY <1>3, <2>2 DEF IInv, Held, CmdInv
  <2>3. CASE ctl' = EnterEStop(heard) /\ cmd' = Cancels(ctl.owner.cmd)
    BY <1>3, <1>5, <2>3, EnterEStopOwned DEF CmdInv
  <2>4. CASE Deliver(heard, e)
    BY <1>1, <1>3, <2>4, DeliverStep
  <2> QED BY <1>4, <2>1, <2>2, <2>3, <2>4
<1> QED BY <1>1, <1>5, <1>6 DEF IInv, Held, DevInv

-----------------------------------------------------------------------------
(* The machine and the clock. *)

LEMMA TakesStep ==
  ASSUME IInv, Takes
  PROVE  IInv'
<1> DEFINE next == Head(dev.input)
           op == [cmd |-> next.cmd, at |-> next.at]
           line == next.line
           taken == [dev EXCEPT !.input = Tail(@)]
<1>1. dev \in MachineType /\ next \in Input /\ Tail(dev.input) \in Seq(Input)
  BY HeadTailProperties DEF Takes, IInv, Held, DevInv, MachineType
<1>2. taken \in MachineType /\ op \in Operation /\ line \in Line
  BY <1>1 DEF MachineType, Input, Operation
<1>3. \/ /\ line.kind \in Silent /\ UNCHANGED rx
         /\ dev' = [taken EXCEPT !.homing = SilentTime(line.kind, dev.setting, 0, 0), !.op = op,
                                 !.kind = line.kind, !.leg = 0, !.alarm = FALSE]
      \/ /\ line.kind \notin Silent /\ Says("ok", op)
         /\ dev' = CASE line.kind = "set" -> [taken EXCEPT !.setting = line.value]
                     [] line.kind = "reset" -> [taken EXCEPT !.setting = 1]
                     [] line.kind = "unlock" -> [taken EXCEPT !.alarm = FALSE]
                     [] line.kind = "move" -> taken
      \/ Says("error", op) /\ dev' = taken
      \/ Says("banner", NoOp) /\ dev' = [taken EXCEPT !.setting = 1, !.input = <<>>]
  BY DEF Takes
<1> HIDE DEF next, op, line, taken
<1>4. RxInv'
  BY <1>2, <1>3, SaysType, Bounds DEF IInv, Held, RxInv, Channel, Text, Answered
<1>5. DevInv'
  <2>1. CASE /\ line.kind \in Silent
             /\ dev' = [taken EXCEPT !.homing = SilentTime(line.kind, dev.setting, 0, 0), !.op = op,
                                     !.kind = line.kind, !.leg = 0, !.alarm = FALSE]
    <3>1. SilentTime(line.kind, dev.setting, 0, 0) \in Age
      BY <2>1, <1>1, SilenceType DEF MachineType, Adjustments
    <3>2. op \in Answered
      BY <1>2 DEF Answered
    <3>3. \A time \in Age, kind \in Silent :
            [taken EXCEPT !.homing = time, !.op = op, !.kind = kind, !.leg = 0, !.alarm = FALSE]
              \in MachineType
      <4> TAKE time \in Age, kind \in Silent
      <4>1. time \in Age \cup {NotSet} /\ 0 \in 0..3
        OBVIOUS
      <4>2. [taken EXCEPT !.homing = time, !.op = op, !.kind = kind, !.leg = 0] \in MachineType
        BY <3>2, <1>2, <4>1 DEF MachineType
      <4>3. \A d \in MachineType : [d EXCEPT !.alarm = FALSE] \in MachineType
        BY DEF MachineType
      <4>4. [taken EXCEPT !.homing = time, !.op = op, !.kind = kind, !.leg = 0, !.alarm = FALSE]
              = [[taken EXCEPT !.homing = time, !.op = op, !.kind = kind, !.leg = 0] EXCEPT !.alarm = FALSE]
        OBVIOUS
      <4> QED BY <4>2, <4>3, <4>4
    <3> QED BY <2>1, <3>1, <3>3 DEF DevInv
  <2>2. CASE /\ line.kind \notin Silent
             /\ dev' = CASE line.kind = "set" -> [taken EXCEPT !.setting = line.value]
                         [] line.kind = "reset" -> [taken EXCEPT !.setting = 1]
                         [] line.kind = "unlock" -> [taken EXCEPT !.alarm = FALSE]
                         [] line.kind = "move" -> taken
    <3>1. /\ line.kind \in {"move", "reset", "unlock", "set"}
          /\ line.kind = "set" => line.value \in 1..MaxValue
      BY <1>2, <2>2 DEF Line, Silent
    <3>2. \/ line.kind = "set" /\ dev' = [taken EXCEPT !.setting = line.value]
          \/ dev' = [taken EXCEPT !.setting = 1]
          \/ dev' = [taken EXCEPT !.alarm = FALSE]
          \/ dev' = taken
      BY <2>2, <3>1
    <3>3. \A v \in 1..MaxValue : [taken EXCEPT !.setting = v] \in MachineType
      BY <1>2 DEF MachineType
    <3>4. [taken EXCEPT !.alarm = FALSE] \in MachineType
      BY <1>2 DEF MachineType
    <3> QED BY <1>2, <3>1, <3>2, <3>3, <3>4, Bounds DEF DevInv
  <2>3. CASE dev' = taken
    BY <1>2, <2>3 DEF DevInv
  <2>4. CASE dev' = [taken EXCEPT !.setting = 1, !.input = <<>>]
    BY <1>2, <2>4, Bounds, EmptySeq DEF DevInv, MachineType
  <2> QED BY <1>3, <2>1, <2>2, <2>3, <2>4
<1> QED BY <1>4, <1>5 DEF Takes, IInv, Held, CmdInv

LEMMA HomedStep ==
  ASSUME IInv, Homed
  PROVE  IInv'
<1>1. dev \in MachineType /\ dev.op \in Answered
  BY DEF IInv, Held, DevInv, MachineType
<1>2. DevInv'
  <2>1. dev' = [dev EXCEPT !.homing = NotSet, !.op = NoOp, !.kind = "home", !.leg = 0]
    BY DEF Homed
  <2>2. "home" \in Silent /\ NoOp \in Answered /\ 0 \in 0..3 /\ NotSet \in Age \cup {NotSet}
    BY Bounds DEF Silent
  <2>3. [dev EXCEPT !.homing = NotSet, !.op = NoOp, !.kind = "home", !.leg = 0] \in MachineType
    <3> HIDE DEF NotSet, NoOp
    <3> QED BY <1>1, <2>2 DEF MachineType
  <2> QED BY <2>1, <2>3 DEF DevInv
<1>3. RxInv'
  BY <1>1, SaysType DEF Homed, IInv, Held, Text
<1> QED BY <1>2, <1>3 DEF Homed, IInv, Held, CmdInv

LEMMA AdjustsStep ==
  ASSUME IInv, Adjusts
  PROVE  IInv'
<1>1. dev \in MachineType /\ dev.setting \in 1..MaxValue /\ dev.leg \in 0..2
  BY DEF Adjusts, IInv, Held, DevInv, MachineType
<1>2. PICK text \in Progress : \E adjustment \in Adjustments :
        /\ Says(text, NoOp)
        /\ dev' = [dev EXCEPT !.leg = @ + 1,
                              !.homing = SilentTime("level", dev.setting, adjustment, dev.leg + 1)]
  BY DEF Adjusts
<1>3. PICK adjustment \in Adjustments :
        dev' = [dev EXCEPT !.leg = @ + 1,
                           !.homing = SilentTime("level", dev.setting, adjustment, dev.leg + 1)]
  BY <1>2
<1> DEFINE time == SilentTime("level", dev.setting, adjustment, dev.leg + 1)
<1>4. time \in Age
  BY <1>1, SilenceType DEF Silent
<1>5. DevInv'
  <2>1. dev' = [dev EXCEPT !.leg = dev.leg + 1, !.homing = time] /\ dev.leg + 1 \in 0..3
    BY <1>1, <1>3
  <2> HIDE DEF time
  <2> QED BY <1>1, <1>4, <2>1 DEF DevInv, MachineType
<1>6. RxInv'
  BY <1>2, SaysType, Bounds DEF IInv, Held, Text
<1> QED BY <1>5, <1>6 DEF Adjusts, IInv, Held, CmdInv

LEMMA MachineStep ==
  ASSUME IInv, Machine \/ Dies \/ RaisesAlarm50
  PROVE  IInv'
<1>1. CASE Reports
  <2>1. RxInv'
    BY <1>1, SaysType, Bounds DEF Reports, IInv, Held, Text
  <2>2. DevInv'
    BY <1>1 DEF Reports, IInv, Held, DevInv, MachineType
  <2> QED BY <1>1, <2>1, <2>2 DEF Reports, IInv, Held, CmdInv
<1>2. CASE Dies
  <2>1. DevInv'
    BY <1>2, EmptySeq DEF Dies, IInv, Held, DevInv, MachineType
  <2> QED BY <1>2, <2>1 DEF Dies, IInv, Held, CmdInv, RxInv
<1>3. CASE RaisesAlarm50
  <2>1. RxInv'
    BY <1>3, SaysType, Bounds DEF RaisesAlarm50, IInv, Held, Text
  <2>2. DevInv'
    BY <1>3, EmptySeq DEF RaisesAlarm50, IInv, Held, DevInv, MachineType
  <2> QED BY <1>3, <2>1, <2>2 DEF RaisesAlarm50, IInv, Held, CmdInv
<1> QED BY <1>1, <1>2, <1>3, TakesStep, HomedStep, AdjustsStep DEF Machine

LEMMA TickStep ==
  ASSUME IInv, Tick
  PROVE  IInv'
<1>1. Owned(ctl')
  BY AgesOwned DEF IInv, Tick
<1>2. RxInv'
  <2>1. rx \in Seq(LineEvent) /\ Len(rx) \in Nat /\ Len(rx) <= MaxRx
    BY LenProperties DEF IInv, Held, RxInv, Channel
  <2>2. \A i \in 1..Len(rx) : rx[i] \in LineEvent /\ rx[i].age < Lag
    BY <2>1, ElementOfSeq DEF Tick, Timely
  <2>3. \A i \in 1..Len(rx) : [rx[i] EXCEPT !.age = @ + 1] \in LineEvent
    BY <2>2, Bounds DEF LineEvent
  <2>4. rx' = [i \in 1..Len(rx) |-> [rx[i] EXCEPT !.age = @ + 1]]
    BY DEF Tick
  <2>5. rx' \in Seq(LineEvent) /\ Len(rx') = Len(rx)
    BY <2>1, <2>3, <2>4, LenProperties
  <2> QED BY <2>1, <2>5 DEF RxInv, Channel
<1>3. DevInv'
  <2>1. dev \in MachineType /\ Noticed \in Int
    BY NoticedType DEF IInv, Held, DevInv
  <2>2. CASE ~dev.alive
    <3>1. dev' = dev \/ dev' = [dev EXCEPT !.dead = dev.dead + 1]
      BY <2>1, <2>2 DEF Tick, MachineType
    <3> QED BY <2>1, <3>1 DEF DevInv, MachineType
  <2>3. CASE dev.alive /\ dev.homing = NotSet
    BY <2>1, <2>3 DEF Tick, DevInv
  <2>4. CASE dev.alive /\ dev.homing # NotSet
    <3>1. dev.homing - 1 \in Age
      BY SMTT(30), <2>1, <2>4, AgeType DEF Tick, Timely, MachineType, Age
    <3>2. dev' = [dev EXCEPT !.homing = dev.homing - 1]
      BY <2>4 DEF Tick
    <3> QED BY <2>1, <3>1, <3>2 DEF DevInv, MachineType
  <2> QED BY <2>2, <2>3, <2>4
<1> QED BY <1>1, <1>2, <1>3 DEF Tick, IInv, Held, CmdInv

-----------------------------------------------------------------------------
(* The theorems. *)

LEMMA InitHolds == Init => IInv
<1> SUFFICES ASSUME Init PROVE IInv
  OBVIOUS
<1>1. Owned(ctl)
  BY InitCommandsOwned DEF Init
<1>2. <<>> \in Backlog /\ <<>> \in Channel /\ 0 \in 0..MaxLines
  BY Bounds, EmptySeq DEF Backlog, Channel
<1>3. CmdInv
  BY <1>2, Bounds DEF Init, CmdInv, NoCommand, CommandType, Label
<1>4. RxInv
  BY <1>2 DEF Init, RxInv
<1>5. DevInv
  BY Bounds, EmptySeq DEF Init, InitMachine, DevInv, MachineType, Silent
<1> QED BY <1>1, <1>3, <1>4, <1>5 DEF IInv, Held

LEMMA StepHolds == IInv /\ [Next]_vars => IInv'
<1> SUFFICES ASSUME IInv, [Next]_vars PROVE IInv'
  OBVIOUS
<1>1. CASE UNCHANGED vars
  BY <1>1 DEF vars, IInv, Held, CmdInv, RxInv, DevInv
<1>2. ASSUME NEW s \in Commands, Issue(s) \/ Command(s) PROVE IInv'
  BY <1>2, IssueStep, AdmitStep, PrepareLineStep, WriteLineStep, WriteLineFailsStep, TakeOKStep,
     TakeFailureStep, EndSessionStep, AdmitResetStep, WriteResetStep DEF Command
<1>3. CASE Monitor \/ Bridge \/ Machine \/ Dies \/ RaisesAlarm50 \/ Tick
  BY <1>3, MonitorStep, BridgeStep, MachineStep, TickStep
<1> QED BY <1>1, <1>2, <1>3 DEF Next

LEMMA Invariant == Spec => []IInv
BY InitHolds, StepHolds, PTL DEF Spec

LEMMA InvariantTypes == IInv => TypeOK
<1> SUFFICES ASSUME IInv PROVE TypeOK
  OBVIOUS
<1>1. ctl \in CommandsType
  BY DEF IInv, Owned
<1>2. \A s \in Commands : cmd[s].at \in 0..MaxLines /\ cmd[s].line \in Line /\ Len(cmd[s].rxCh) <= MaxBacklog
  BY DEF IInv, Held, CmdInv, CommandType, Backlog
<1>3. dev.setting \in 1..MaxValue /\ dev.homing \in Age \cup {NotSet} /\ dev.leg \in 0..3
  BY DEF IInv, Held, DevInv, MachineType
<1>4. Len(rx) <= MaxRx /\ \A i \in 1..Len(rx) : rx[i].age <= Lag
  <2>1. rx \in Seq(LineEvent) /\ Len(rx) <= MaxRx
    BY DEF IInv, Held, RxInv, Channel
  <2>2. \A i \in 1..Len(rx) : rx[i] \in LineEvent
    BY <2>1, ElementOfSeq
  <2> QED BY <2>1, <2>2, Bounds DEF LineEvent
<1> QED BY <1>1, <1>2, <1>3, <1>4 DEF TypeOK

\* In every reachable state the fields of the controller have the types TypeOK
\* states, no backlog and no channel is fuller than it may be, and no line waits
\* for the bridge longer than Lag: responses, errors and cancellations in any order
\* never make a session's line counter, a lease's leg or a limit leave its range.
THEOREM TypeCorrect == Spec => []TypeOK
BY Invariant, InvariantTypes, PTL

\* A lease and a pending setting always belong to the session that owns responses:
\* whichever goroutine ends a command (its own, the bridge on an answer or a full
\* backlog, the watchdog, Soft Reset), nothing it prepared is left for the next.
THEOREM NothingInherited == Spec => []PreparedOwned
<1>1. IInv => PreparedOwned
  BY DEF IInv, Owned, Owns, PreparedOwned
<1> QED BY <1>1, Invariant, PTL

-----------------------------------------------------------------------------
(* The flow of answers. *)

\* What the properties of answers suppose: nobody takes ownership from a session
\* with Soft Reset and nothing resets the settings, the controller or the machine.
Undisturbed ==
  /\ "reset" \notin Kinds /\ \A line \in Offered : line.kind # "reset"
  /\ Upsets \subseteq {"reject", "write"}

Reply == {"ok", "error"}
Clean(q) == \A i \in 1..Len(q) : q[i].text \notin Reply
Lone(q, op) ==
  \A i, j \in 1..Len(q) : q[i].text \in Reply /\ q[j].text \in Reply => i = j /\ q[i].op = op
Granted(q) == \E i \in 1..Len(q) : q[i].text = "ok"

Working == {"new", "admission", "prepare", "write", "wait", "end", "done"}
Calm ==
  /\ ctl.estop = "clear" /\ ctl.write # "reset" /\ ctl.snapshot # 0 /\ dev.alive
  /\ \A i \in 1..Len(rx) : rx[i].text \notin {"banner", "alarm50"}
  /\ \A s \in Commands : /\ ~cmd[s].canceled /\ cmd[s].pc \in Working
                         /\ cmd[s].kind # "reset" /\ cmd[s].line.kind # "reset"

\* The owner's line is nowhere: neither at the machine nor answered.
Idle == dev.input = <<>> /\ dev.homing = NotSet /\ Clean(rx)
Stored == dev.setting = ctl.snapshot
Promised == dev.setting = IF ctl.mutation = NoMutation THEN ctl.snapshot ELSE ctl.mutation.value
PreparedFor(s) ==
  ctl.mutation = IF cmd[s].line.kind = "set" THEN [op |-> Op(s), value |-> cmd[s].line.value]
                 ELSE NoMutation

Sent(s) ==
  /\ dev.input = <<[cmd |-> s, at |-> cmd[s].at, line |-> cmd[s].line]>> /\ dev.homing = NotSet
  /\ Clean(rx) /\ cmd[s].rxCh = <<>> /\ Stored
Homing(s) ==
  /\ dev.input = <<>> /\ dev.homing # NotSet /\ dev.op = Op(s) /\ cmd[s].line.kind \in Silent
  /\ Clean(rx) /\ cmd[s].rxCh = <<>> /\ Stored
Replied(s) ==
  /\ dev.input = <<>> /\ dev.homing = NotSet
  /\ ~Clean(rx) /\ Lone(rx, Op(s)) /\ cmd[s].rxCh = <<>>
  /\ IF Granted(rx) THEN Promised ELSE Stored
Received(s) ==
  /\ Idle /\ cmd[s].kind = "macro" /\ Len(cmd[s].rxCh) = 1 /\ cmd[s].rxCh[1].op = Op(s)
  /\ IF cmd[s].rxCh[1].text = "ok" THEN Promised ELSE Stored

Between(s) ==
  /\ cmd[s].pc \in {"prepare", "end"} /\ cmd[s].kind = "macro" /\ Idle /\ Stored
  /\ ctl.mutation = NoMutation /\ (cmd[s].pc = "prepare" => cmd[s].rxCh = <<>>)
Writing(s) ==
  cmd[s].pc = "write" /\ Idle /\ Stored /\ PreparedFor(s) /\ cmd[s].rxCh = <<>>
Awaiting(s) ==
  /\ cmd[s].pc = IF cmd[s].kind = "macro" THEN "wait" ELSE "done"
  /\ PreparedFor(s)
  /\ Sent(s) \/ Homing(s) \/ Replied(s) \/ Received(s)

OwnerOf(s) == [kind |-> IF cmd[s].kind = "macro" THEN "macro" ELSE "manual", cmd |-> s]
Free == ctl.owner = NoOwner => Idle /\ Stored
Busy == ctl.owner # NoOwner =>
  \E s \in Commands : ctl.owner = OwnerOf(s) /\ (Between(s) \/ Writing(s) \/ Awaiting(s))
Waiters == \A s \in Commands :
  /\ cmd[s].pc \in {"prepare", "write", "wait", "end"} => ctl.owner.cmd = s
  /\ cmd[s].pc \in {"new", "admission"} => cmd[s].rxCh = <<>>
Flow == Calm /\ Free /\ Busy /\ Waiters

-----------------------------------------------------------------------------
(* The event channel: what a line at its end, or the one taken from it, is to replies. *)

SameReplies(q, r) ==
  /\ Clean(q) <=> Clean(r)
  /\ \A op : Lone(q, op) => Lone(r, op)
  /\ Granted(q) <=> Granted(r)

LEMMA CleanIsLone ==
  ASSUME NEW q, Clean(q), NEW op
  PROVE  Lone(q, op) /\ ~Granted(q)
BY DEF Clean, Lone, Granted, Reply

LEMMA AppendRemark ==
  ASSUME NEW q \in Seq(LineEvent), NEW e \in LineEvent, e.text \notin Reply
  PROVE  SameReplies(q, Append(q, e))
<1> DEFINE r == Append(q, e)
<1>1. /\ Len(q) \in Nat /\ Len(r) = Len(q) + 1 /\ r[Len(q) + 1] = e
      /\ \A i \in 1..Len(q) : r[i] = q[i]
  BY AppendProperties, LenProperties
<1>2. 1..Len(r) = 1..Len(q) \cup {Len(q) + 1}
  BY <1>1
<1> HIDE DEF r
<1>3. Clean(q) <=> Clean(r)
  BY <1>1, <1>2 DEF Clean
<1>4. \A op : Lone(q, op) => Lone(r, op)
  BY <1>1, <1>2 DEF Lone
<1>5. Granted(q) <=> Granted(r)
  BY <1>1, <1>2 DEF Granted, Reply
<1> QED BY <1>3, <1>4, <1>5 DEF SameReplies, r

LEMMA AppendReply ==
  ASSUME NEW q \in Seq(LineEvent), Clean(q), NEW e \in LineEvent
  PROVE  /\ Lone(Append(q, e), e.op) /\ (Granted(Append(q, e)) <=> e.text = "ok")
         /\ e.text \in Reply => ~Clean(Append(q, e))
<1> DEFINE r == Append(q, e)
<1>1. /\ Len(q) \in Nat /\ Len(r) = Len(q) + 1 /\ r[Len(q) + 1] = e
      /\ \A i \in 1..Len(q) : r[i] = q[i]
  BY AppendProperties, LenProperties
<1>2. 1..Len(r) = 1..Len(q) \cup {Len(q) + 1}
  BY <1>1
<1> HIDE DEF r
<1>3. \A i \in 1..Len(r) : r[i].text \in Reply => i = Len(q) + 1
  BY <1>1, <1>2 DEF Clean
<1>4. Lone(r, e.op)
  BY <1>1, <1>3 DEF Lone
<1>5. Granted(r) <=> e.text = "ok"
  BY <1>1, <1>2, <1>3 DEF Granted, Reply
<1>6. e.text \in Reply => ~Clean(r)
  BY <1>1, <1>2 DEF Clean
<1> QED BY <1>4, <1>5, <1>6 DEF r

LEMMA TailRemark ==
  ASSUME NEW q \in Seq(LineEvent), q # <<>>, Head(q).text \notin Reply
  PROVE  SameReplies(q, Tail(q))
<1> DEFINE r == Tail(q)
<1>1. /\ Len(q) \in Nat /\ Len(q) > 0 /\ Len(r) = Len(q) - 1 /\ Head(q) = q[1]
      /\ \A i \in 1..Len(r) : r[i] = q[i + 1]
  BY HeadTailProperties, LenProperties, EmptySeq
<1>2. \A i \in 1..Len(r) : i + 1 \in 1..Len(q)
  BY <1>1
<1>3. \A i \in 1..Len(q) : i # 1 => i - 1 \in 1..Len(r) /\ q[i] = r[i - 1]
  BY <1>1
<1> HIDE DEF r
<1>4. Clean(q) <=> Clean(r)
  BY <1>1, <1>2, <1>3 DEF Clean
<1>5. ASSUME NEW op, Lone(q, op) PROVE Lone(r, op)
  <2>1. ASSUME NEW i \in 1..Len(r), NEW j \in 1..Len(r),
               r[i].text \in Reply, r[j].text \in Reply
        PROVE  i = j /\ r[i].op = op
    <3>1. i + 1 = j + 1 /\ q[i + 1].op = op
      BY <1>1, <1>2, <1>5, <2>1 DEF Lone
    <3> QED BY <1>1, <2>1, <3>1
  <2> QED BY <2>1 DEF Lone
<1>6. Granted(q) <=> Granted(r)
  BY <1>1, <1>2, <1>3 DEF Granted, Reply
<1> QED BY <1>4, <1>5, <1>6 DEF SameReplies, r

LEMMA TailReply ==
  ASSUME NEW q \in Seq(LineEvent), NEW op, Lone(q, op), q # <<>>, Head(q).text \in Reply
  PROVE  Clean(Tail(q)) /\ Head(q).op = op /\ (Granted(q) <=> Head(q).text = "ok")
<1>1. /\ Len(q) \in Nat /\ Len(q) > 0 /\ Len(Tail(q)) = Len(q) - 1 /\ Head(q) = q[1]
      /\ \A i \in 1..Len(Tail(q)) : Tail(q)[i] = q[i + 1]
  BY HeadTailProperties, LenProperties, EmptySeq
<1>2. \A i \in 1..Len(q) : q[i].text \in Reply => i = 1 /\ q[i].op = op
  BY <1>1 DEF Lone
<1>3. Clean(Tail(q))
  BY <1>1, <1>2 DEF Clean
<1>4. Granted(q) <=> Head(q).text = "ok"
  BY <1>1, <1>2 DEF Granted, Reply
<1> QED BY <1>1, <1>2, <1>3, <1>4

\* A channel of the same texts and operations, older by a tick.
LEMMA OlderReplies ==
  ASSUME NEW q, NEW r, Len(r) = Len(q),
         \A i \in 1..Len(q) : r[i].text = q[i].text /\ r[i].op = q[i].op
  PROVE  SameReplies(q, r)
BY DEF SameReplies, Clean, Lone, Granted

-----------------------------------------------------------------------------
(* What the flow of answers sees of the record. *)

SameFlow(c, d) ==
  /\ d.owner = c.owner /\ d.mutation = c.mutation /\ d.snapshot = c.snapshot
  /\ d.estop = c.estop

LEMMA SmallSteps ==
  ASSUME NEW c, Owned(c)
  PROVE  /\ \A s : SameFlow(c, [c EXCEPT !.waiters = @ \cup {s}])
         /\ \A s : SameFlow(c, [c EXCEPT !.waiters = @ \ {s}])
         /\ \A s : [c EXCEPT !.waiters = @ \cup {s}].write = c.write
         /\ \A s : [c EXCEPT !.waiters = @ \ {s}].write = c.write
         /\ \A w : SameFlow(c, [c EXCEPT !.write = w]) /\ [c EXCEPT !.write = w].write = w
         /\ SameFlow(c, BeginPoll(c)) /\ BeginPoll(c).write = "poll"
         /\ SameFlow(c, Ages(c)) /\ Ages(c).write = c.write
         /\ \A age : SameFlow(c, NoteActivity(c, age)) /\ NoteActivity(c, age).write = c.write
         /\ \A age, adjustment : /\ SameFlow(c, NoteProgress(c, age, adjustment))
                                 /\ NoteProgress(c, age, adjustment).write = c.write
         /\ \A idle : /\ c.estop = "clear" => SameFlow(c, NoteStatus(c, idle))
                      /\ NoteStatus(c, idle).write = c.write
<1>1. c \in CommandsType
  BY DEF Owned
<1>2. /\ \A s : SameFlow(c, [c EXCEPT !.waiters = @ \cup {s}])
      /\ \A s : SameFlow(c, [c EXCEPT !.waiters = @ \ {s}])
      /\ \A s : [c EXCEPT !.waiters = @ \cup {s}].write = c.write
      /\ \A s : [c EXCEPT !.waiters = @ \ {s}].write = c.write
      /\ \A w : SameFlow(c, [c EXCEPT !.write = w]) /\ [c EXCEPT !.write = w].write = w
  BY <1>1 DEF SameFlow, CommandsType
<1>3. SameFlow(c, BeginPoll(c)) /\ BeginPoll(c).write = "poll"
  BY <1>1 DEF SameFlow, BeginPoll, CommandsType
<1>4. SameFlow(c, Ages(c)) /\ Ages(c).write = c.write
  BY <1>1 DEF SameFlow, Ages, CommandsType
<1>5. \A age : SameFlow(c, NoteActivity(c, age)) /\ NoteActivity(c, age).write = c.write
  BY <1>1 DEF SameFlow, NoteActivity, CommandsType
<1>6. \A age, adjustment : /\ SameFlow(c, NoteProgress(c, age, adjustment))
                           /\ NoteProgress(c, age, adjustment).write = c.write
  BY <1>1 DEF SameFlow, NoteProgress, CommandsType
<1>7. \A idle : /\ c.estop = "clear" => SameFlow(c, NoteStatus(c, idle))
                /\ NoteStatus(c, idle).write = c.write
  BY <1>1 DEF SameFlow, NoteStatus, CommandsType
<1> QED BY <1>2, <1>3, <1>4, <1>5, <1>6, <1>7

LEMMA PrepareFields ==
  ASSUME NEW c, Owned(c), NEW line \in Line, line.kind # "reset", NEW op
  PROVE  LET d == Prepare(c, op, line) IN
         /\ d.owner = c.owner /\ d.snapshot = c.snapshot /\ d.estop = c.estop /\ d.write = c.write
         /\ d.mutation = IF line.kind = "set" THEN [op |-> op, value |-> line.value] ELSE c.mutation
<1>1. c \in CommandsType
  BY DEF Owned
<1>2. CASE line.kind = "set"
  <2>1. Prepare(c, op, line) = [c EXCEPT !.mutation = [op |-> op, value |-> line.value]]
    BY <1>2 DEF Prepare, Silent
  <2> QED BY <1>1, <1>2, <2>1 DEF CommandsType
<1>3. CASE line.kind \in Silent
  <2>1. Prepare(c, op, line) = IF c.snapshot = 0 THEN c ELSE BeginSilence(c, op, line.kind)
    BY <1>3 DEF Prepare, Silent
  <2>2. line.kind # "set"
    BY <1>3 DEF Silent
  <2> QED BY <1>1, <2>1, <2>2 DEF BeginSilence, CommandsType
<1>4. CASE line.kind \in {"move", "unlock"}
  BY <1>1, <1>4 DEF Prepare, Silent
<1> QED BY <1>2, <1>3, <1>4 DEF Line

\* An owner that gives ownership away leaves no preparation.
LEMMA Forgotten ==
  ASSUME NEW c, Owned(c), NEW s \in Commands, c.owner.cmd = s
  PROVE  Forget(c, s) = [c EXCEPT !.lease = NoLease, !.mutation = NoMutation]
         /\ Forget(c, s).lease = NoLease /\ Forget(c, s).mutation = NoMutation
         /\ Forget(c, s).beat = c.beat /\ Forget(c, s).waiters = c.waiters
         /\ Forget(c, s).snapshot = c.snapshot /\ Forget(c, s).estop = c.estop
         /\ Forget(c, s).write = c.write /\ Forget(c, s) \in CommandsType
<1>1. c \in CommandsType
  BY DEF Owned
<1>2. /\ (IF c.lease.op.cmd = s THEN NoLease ELSE c.lease) = NoLease
      /\ (IF c.mutation.op.cmd = s THEN NoMutation ELSE c.mutation) = NoMutation
  BY DEF Owned, Owns
<1>3. Forget(c, s) = [c EXCEPT !.lease = NoLease, !.mutation = NoMutation]
  BY <1>1, <1>2 DEF Forget, CommandsType
<1> QED BY <1>1, <1>3 DEF CommandsType

LEMMA ReleaseFields ==
  ASSUME NEW c, Owned(c), NEW s \in Commands, c.owner.cmd = s
  PROVE  LET d == ReleaseOwner(c, s) IN
         /\ d.owner = NoOwner /\ d.snapshot = c.snapshot /\ d.estop = c.estop
         /\ d.write = c.write /\ d.mutation = NoMutation
<1>1. c \in CommandsType /\ s # 0
  BY Bounds DEF Owned
<1>2. ReleaseOwner(c, s) = [Forget(c, s) EXCEPT !.owner = NoOwner]
  BY <1>1 DEF ReleaseOwner
<1>3. /\ Forget(c, s).mutation = NoMutation /\ Forget(c, s).snapshot = c.snapshot
      /\ Forget(c, s).estop = c.estop /\ Forget(c, s).write = c.write
      /\ Forget(c, s) \in CommandsType
  BY Forgotten
<1> QED BY <1>2, <1>3 DEF CommandsType

LEMMA CommitFields ==
  ASSUME NEW c, Owned(c), NEW op, c.snapshot # 0
  PROVE  LET d == CommitMutation(c, op) IN
         /\ d.owner = c.owner /\ d.estop = c.estop /\ d.write = c.write
         /\ op \in Operation /\ c.mutation.op = op =>
              d.snapshot = c.mutation.value /\ d.mutation = NoMutation
         /\ c.mutation = NoMutation => d.snapshot = c.snapshot /\ d.mutation = NoMutation
         /\ d.snapshot \in 1..MaxValue
<1>1. c \in CommandsType
  BY DEF Owned
<1>2. op \in Operation => op # NoOp
  BY Bounds DEF Operation, NoOp
<1>3. CASE c.mutation.op # op \/ op = NoOp
  <2>1. CommitMutation(c, op) = c
    BY <1>3 DEF CommitMutation
  <2>2. c.snapshot \in 1..MaxValue
    BY <1>1, AgeType DEF CommandsType
  <2> QED BY <1>2, <1>3, <2>1, <2>2
<1>4. CASE c.mutation.op = op /\ op # NoOp
  <2>1. CommitMutation(c, op) = [c EXCEPT !.mutation = NoMutation, !.snapshot = c.mutation.value]
    BY <1>4 DEF CommitMutation
  <2>2. c.mutation # NoMutation /\ c.mutation.value \in 1..MaxValue
    BY <1>1, <1>4 DEF CommandsType, NoMutation
  <2> QED BY <1>1, <2>1, <2>2 DEF CommandsType
<1> QED BY <1>3, <1>4

LEMMA ClearFields ==
  ASSUME NEW c, Owned(c), NEW op
  PROVE  LET d == ClearPreparation(c, op) IN
         /\ d.owner = c.owner /\ d.snapshot = c.snapshot /\ d.estop = c.estop /\ d.write = c.write
         /\ d.mutation = IF c.mutation.op = op THEN NoMutation ELSE c.mutation
BY DEF Owned, CommandsType, ClearPreparation

-----------------------------------------------------------------------------
(* Steps that leave the owner and its line alone. *)

\* Same as far as the flow of answers can tell.
SameMachine ==
  /\ dev'.input = dev.input /\ dev'.op = dev.op /\ dev'.setting = dev.setting
  /\ dev'.alive = dev.alive /\ (dev'.homing = NotSet <=> dev.homing = NotSet)

LEMMA FlowKept ==
  ASSUME Free, Busy, SameFlow(ctl, ctl'), SameReplies(rx, rx'), SameMachine,
         \A t \in Commands : ctl.owner.cmd = t => cmd'[t] = cmd[t]
  PROVE  Free' /\ Busy'
<1>1. /\ ctl'.owner = ctl.owner /\ ctl'.mutation = ctl.mutation /\ ctl'.snapshot = ctl.snapshot
      /\ Stored' <=> Stored
      /\ Promised' <=> Promised
  BY DEF SameFlow, SameMachine, Stored, Promised
<1>2. Idle => Idle'
  BY DEF Idle, SameMachine, SameReplies
<1>3. Free'
  BY <1>1, <1>2 DEF Free
<1>4. Busy'
  <2> SUFFICES ASSUME ctl.owner # NoOwner PROVE Busy'
    BY <1>1 DEF Busy
  <2> PICK s \in Commands : ctl.owner = OwnerOf(s) /\ (Between(s) \/ Writing(s) \/ Awaiting(s))
    BY DEF Busy
  <2>1. cmd'[s] = cmd[s] /\ Op(s)' = Op(s) /\ OwnerOf(s)' = OwnerOf(s)
    BY DEF OwnerOf, Op
  <2>2. PreparedFor(s) => PreparedFor(s)'
    BY <1>1, <2>1 DEF PreparedFor
  <2>3. Between(s) => Between(s)'
    BY <1>1, <1>2, <2>1 DEF Between
  <2>4. Writing(s) => Writing(s)'
    BY <1>1, <1>2, <2>1, <2>2 DEF Writing
  <2>5. Sent(s) => Sent(s)'
    BY <1>1, <2>1 DEF Sent, SameMachine, SameReplies
  <2>6. Homing(s) => Homing(s)'
    BY <1>1, <2>1 DEF Homing, SameMachine, SameReplies
  <2>7. Replied(s) => Replied(s)'
    BY <1>1, <2>1 DEF Replied, SameMachine, SameReplies
  <2>8. Received(s) => Received(s)'
    BY <1>1, <1>2, <2>1 DEF Received
  <2>9. Awaiting(s) => Awaiting(s)'
    BY <2>1, <2>2, <2>5, <2>6, <2>7, <2>8 DEF Awaiting
  <2> QED BY <1>1, <2>1, <2>3, <2>4, <2>9 DEF Busy
<1> QED BY <1>3, <1>4

LEMMA SameIsSame ==
  /\ \A q : SameReplies(q, q)
  /\ \A c : SameFlow(c, c)
  /\ UNCHANGED dev => SameMachine
  /\ UNCHANGED rx => SameReplies(rx, rx')
  /\ UNCHANGED ctl => SameFlow(ctl, ctl')
BY DEF SameReplies, SameFlow, SameMachine

\* Where no command moves, quiet is all that is left to show.
LEMMA Aside ==
  ASSUME Flow, SameFlow(ctl, ctl'), ctl'.write # "reset", UNCHANGED cmd, SameReplies(rx, rx'),
         \A i \in 1..Len(rx') : rx'[i].text \notin {"banner", "alarm50"}, SameMachine
  PROVE  Flow'
<1>1. Free' /\ Busy'
  BY FlowKept DEF Flow
<1>2. Calm'
  BY DEF Flow, Calm, SameFlow, SameMachine
<1>3. Waiters'
  BY DEF Flow, Waiters, SameFlow
<1> QED BY <1>1, <1>2, <1>3 DEF Flow

\* The false emergency that is supposed not to happen.
Justified ==
  CheckWatchdog /\ ctl'.estop = "active" /\ ctl.estop # "active" => ~dev.alive \/ ctl.snapshot = 0

LEMMA MonitorFlow ==
  ASSUME IInv, Flow, Justified, Monitor
  PROVE  Flow'
<1>1. Owned(ctl) /\ Calm
  BY DEF IInv, Flow
<1>2. CASE PollRefused
  BY <1>1, <1>2, SameIsSame, Aside DEF PollRefused, Calm
<1>3. CASE PollAdmitted
  BY <1>1, <1>3, SameIsSame, SmallSteps, Aside DEF PollAdmitted, Calm
<1>4. CASE WritePoll
  <2>1. SameFlow(ctl, ctl') /\ ctl'.write = "none"
    BY <1>1, <1>4, SmallSteps DEF WritePoll
  <2>2. SameMachine
    BY <1>4 DEF WritePoll, SameMachine, IInv, Held, DevInv, MachineType
  <2> QED BY <1>1, <1>4, <2>1, <2>2, SameIsSame, Aside DEF WritePoll, Calm
<1>5. CASE CheckWatchdog
  <2>1. ~Unresponsive(ctl)
    <3>1. EnterEStop(ctl).estop = "active"
      <4>1. Owned(ReleaseOwner(ctl, ctl.owner.cmd))
        BY <1>1, ReleaseOwned
      <4> QED BY <1>1, <4>1 DEF EnterEStop, Calm, Owned, CommandsType
    <3> QED BY <1>1, <1>5, <3>1 DEF CheckWatchdog, Justified, Calm
  <2> QED BY <1>1, <1>5, <2>1, SameIsSame, Aside DEF CheckWatchdog, Calm
<1> QED BY <1>2, <1>3, <1>4, <1>5 DEF Monitor

LEMMA SaysRemark ==
  ASSUME IInv, Calm, NEW text \in Text \ (Reply \cup {"banner", "alarm50"}), NEW op \in Answered,
         Says(text, op)
  PROVE  SameReplies(rx, rx') /\ \A i \in 1..Len(rx') : rx'[i].text \notin {"banner", "alarm50"}
<1> DEFINE e == [text |-> text, age |-> 0, op |-> op]
<1>1. e \in LineEvent /\ e.text = text /\ rx \in Seq(LineEvent) /\ rx' = Append(rx, e)
  BY Bounds DEF LineEvent, Says, IInv, Held, RxInv, Channel
<1> HIDE DEF e
<1>2. SameReplies(rx, rx')
  BY <1>1, AppendRemark
<1>3. \A i \in 1..Len(rx') : rx'[i] = e \/ (i \in 1..Len(rx) /\ rx'[i] = rx[i])
  <2>1. Len(rx) \in Nat /\ Len(rx') = Len(rx) + 1 /\ rx'[Len(rx) + 1] = e
        /\ \A i \in 1..Len(rx) : rx'[i] = rx[i]
    BY <1>1, AppendProperties, LenProperties
  <2>2. \A i \in 1..Len(rx') : i = Len(rx) + 1 \/ i \in 1..Len(rx)
    BY <2>1
  <2> QED BY <2>1, <2>2
<1> QED BY <1>1, <1>2, <1>3 DEF Calm

LEMMA ReportsFlow ==
  ASSUME IInv, Flow, Reports
  PROVE  Flow'
<1>1. SameReplies(rx, rx') /\ \A i \in 1..Len(rx') : rx'[i].text \notin {"banner", "alarm50"}
  BY SaysRemark, Bounds DEF Reports, Flow, Text, Reply
<1>2. SameMachine
  BY DEF Reports, SameMachine, IInv, Held, DevInv, MachineType
<1> QED BY <1>1, <1>2, SameIsSame, Aside DEF Reports, Flow, Calm

LEMMA AdjustsFlow ==
  ASSUME IInv, Flow, Adjusts
  PROVE  Flow'
<1> PICK text \in Progress, adjustment \in Adjustments :
        /\ Says(text, NoOp)
        /\ dev' = [dev EXCEPT !.leg = @ + 1,
                              !.homing = SilentTime("level", dev.setting, adjustment, dev.leg + 1)]
  BY DEF Adjusts
<1>1. text \in Text \ (Reply \cup {"banner", "alarm50"})
  BY DEF Text, Reply, Progress
<1>2. SameReplies(rx, rx') /\ \A i \in 1..Len(rx') : rx'[i].text \notin {"banner", "alarm50"}
  BY <1>1, SaysRemark, Bounds DEF Flow
<1> DEFINE time == SilentTime("level", dev.setting, adjustment, dev.leg + 1)
<1>3. time \in Age /\ dev \in MachineType
  <2>1. dev \in MachineType /\ dev.leg \in 0..3 /\ dev.setting \in 1..MaxValue
    BY DEF IInv, Held, DevInv, MachineType
  <2> QED BY <2>1, SilenceType DEF Silent
<1>4. dev.homing # NotSet /\ time # NotSet
  BY <1>3, AgeType DEF Adjusts, NotSet
<1> HIDE DEF time
<1>5. SameMachine
  <2>1. dev' = [dev EXCEPT !.leg = @ + 1, !.homing = time]
    BY DEF time
  <2> QED BY <1>3, <1>4, <2>1 DEF SameMachine, MachineType
<1> QED BY <1>2, <1>5, SameIsSame, Aside DEF Adjusts, Flow, Calm

LEMMA TickFlow ==
  ASSUME IInv, Flow, Tick
  PROVE  Flow'
<1>1. SameFlow(ctl, ctl') /\ ctl'.write = ctl.write
  BY SmallSteps DEF IInv, Tick
<1>2. /\ Len(rx') = Len(rx)
      /\ \A i \in 1..Len(rx) : rx'[i].text = rx[i].text /\ rx'[i].op = rx[i].op
  <2>1. rx \in Seq(LineEvent) /\ Len(rx) \in Nat
    BY LenProperties DEF IInv, Held, RxInv, Channel
  <2>2. \A i \in 1..Len(rx) : rx[i] \in LineEvent
    BY <2>1, ElementOfSeq
  <2>3. rx' = [i \in 1..Len(rx) |-> [rx[i] EXCEPT !.age = @ + 1]]
    BY DEF Tick
  <2>4. rx' \in [1..Len(rx) -> {[rx[i] EXCEPT !.age = @ + 1] : i \in 1..Len(rx)}]
    BY <2>3
  <2>5. Len(rx') = Len(rx)
    BY <2>1, <2>3, LenProperties
  <2> QED BY <2>2, <2>3, <2>5 DEF LineEvent
<1>3. SameReplies(rx, rx')
  BY <1>2, OlderReplies
<1>4. \A i \in 1..Len(rx') : rx'[i].text \notin {"banner", "alarm50"}
  BY <1>2 DEF Flow, Calm
<1>5. SameMachine
  <2>1. dev.alive /\ dev.homing # 0 /\ dev \in MachineType
    BY DEF Flow, Calm, Tick, Timely, IInv, Held, DevInv
  <2>2. CASE dev.homing = NotSet
    BY <2>1, <2>2 DEF Tick, SameMachine
  <2>3. CASE dev.homing # NotSet
    <3>1. dev.homing - 1 # NotSet /\ dev' = [dev EXCEPT !.homing = dev.homing - 1]
      BY <2>1, <2>3, AgeType DEF Tick, MachineType, Age, NotSet
    <3> QED BY <2>1, <2>3, <3>1 DEF SameMachine, MachineType
  <2> QED BY <2>2, <2>3
<1> QED BY <1>1, <1>3, <1>4, <1>5, Aside DEF Tick, Flow, Calm

-----------------------------------------------------------------------------
(* Steps of a command. *)

Inside == {"prepare", "write", "wait", "end"}

LEMMA OwnsFlow ==
  ASSUME Flow, NEW s \in Commands, cmd[s].pc \in Inside \/ ctl.owner.cmd = s
  PROVE  /\ ctl.owner = OwnerOf(s) /\ (Between(s) \/ Writing(s) \/ Awaiting(s))
         /\ \A t \in Commands : t # s => cmd[t].pc \notin Inside
<1>1. ctl.owner.cmd = s /\ s # 0 /\ NoOwner.cmd = 0
  BY Bounds DEF Flow, Waiters, Inside, NoOwner
<1>2. PICK t \in Commands : ctl.owner = OwnerOf(t) /\ (Between(t) \/ Writing(t) \/ Awaiting(t))
  BY <1>1 DEF Flow, Busy
<1>3. t = s
  BY <1>1, <1>2 DEF OwnerOf
<1>4. \A u \in Commands : u # s => cmd[u].pc \notin Inside
  BY <1>1 DEF Flow, Waiters, Inside
<1> QED BY <1>2, <1>3, <1>4

LEMMA NotOwner ==
  ASSUME Flow, NEW s \in Commands, cmd[s].pc \in {"new", "admission"}
  PROVE  ctl.owner.cmd # s /\ cmd[s].rxCh = <<>>
<1>1. ctl.owner.cmd # s
  <2> SUFFICES ASSUME ctl.owner.cmd = s PROVE FALSE
    OBVIOUS
  <2>1. Between(s) \/ Writing(s) \/ Awaiting(s)
    BY OwnsFlow
  <2> QED BY <2>1 DEF Between, Writing, Awaiting
<1> QED BY <1>1 DEF Flow, Waiters

\* A section of the owner keeps ownership and leaves its line in one of the places
\* it may be in, or gives ownership away with no line under way.
LEMMA OwnerMoves ==
  ASSUME IInv, Flow, NEW s \in Commands, ctl.owner = OwnerOf(s),
         \A t \in Commands : t # s => cmd'[t] = cmd[t],
         ~cmd'[s].canceled, cmd'[s].pc \in Working \ {"new", "admission"},
         cmd'[s].kind = cmd[s].kind, cmd'[s].line.kind # "reset",
         ctl'.estop = "clear", ctl'.write # "reset", ctl'.snapshot # 0, dev'.alive,
         \A i \in 1..Len(rx') : rx'[i].text \notin {"banner", "alarm50"},
         \/ /\ ctl'.owner = ctl.owner
            /\ Between(s)' \/ Writing(s)' \/ Awaiting(s)'
         \/ ctl'.owner = NoOwner /\ cmd'[s].pc \notin Inside /\ Idle' /\ Stored'
  PROVE  Flow'
<1>1. Calm'
  BY DEF Flow, Calm
<1>2. s # 0 /\ ctl.owner.cmd = s /\ ctl.owner # NoOwner /\ OwnerOf(s)' = OwnerOf(s)
  BY Bounds DEF OwnerOf, NoOwner
<1>3. Free' /\ Busy'
  BY <1>2 DEF Free, Busy
<1>4. Waiters'
  <2>1. \A t \in Commands : t # s => cmd'[t].pc \notin Inside
    BY <1>2, OwnsFlow
  <2>2. cmd'[s].pc \in Inside => ctl'.owner.cmd = s
    BY <1>2
  <2>3. cmd'[s].pc \notin {"new", "admission"}
    OBVIOUS
  <2> QED BY <2>1, <2>2, <2>3 DEF Flow, Waiters, Inside
<1> QED BY <1>1, <1>3, <1>4 DEF Flow

\* A command that is not the owner, waits for admission or ends.
LEMMA OutsiderMoves ==
  ASSUME IInv, Flow, NEW s \in Commands, ctl.owner.cmd # s,
         \A t \in Commands : t # s => cmd'[t] = cmd[t],
         ~cmd'[s].canceled, cmd'[s].pc \in {"admission", "done"},
         cmd'[s].kind # "reset", cmd'[s].line.kind # "reset", cmd'[s].rxCh = <<>>,
         SameFlow(ctl, ctl'), ctl'.write = ctl.write, UNCHANGED <<rx, dev>>
  PROVE  Flow'
<1>1. Free' /\ Busy'
  BY SameIsSame, FlowKept DEF Flow
<1>2. Calm'
  BY DEF Flow, Calm, SameFlow, Working
<1>3. Waiters'
  BY DEF Flow, Waiters, SameFlow
<1> QED BY <1>1, <1>2, <1>3 DEF Flow

LEMMA GoesFields ==
  ASSUME CmdInv, NEW s \in Commands, NEW pc, Goes(s, pc)
  PROVE  /\ \A t \in Commands : t # s => cmd'[t] = cmd[t]
         /\ cmd'[s].pc = pc /\ cmd'[s].kind = cmd[s].kind /\ cmd'[s].line = cmd[s].line
         /\ cmd'[s].at = cmd[s].at /\ cmd'[s].rxCh = cmd[s].rxCh
         /\ cmd'[s].canceled = cmd[s].canceled /\ Op(s)' = Op(s)
BY DEF CmdInv, CommandType, Goes, Op

LEMMA IssueFlow ==
  ASSUME Undisturbed, IInv, Flow, NEW s \in Commands, Issue(s)
  PROVE  Flow'
<1> PICK kind \in Kinds : \E line \in LinesOf(kind) :
        cmd' = [cmd EXCEPT ![s] = [NoCommand EXCEPT !.kind = kind, !.pc = "admission", !.at = 1,
                                                    !.line = line]]
  BY DEF Issue
<1>1. PICK line \in LinesOf(kind) :
        cmd' = [cmd EXCEPT ![s] = [NoCommand EXCEPT !.kind = kind, !.pc = "admission", !.at = 1,
                                                    !.line = line]]
  OBVIOUS
<1>2. kind # "reset" /\ line.kind # "reset"
  BY DEF Undisturbed, LinesOf
<1>3. cmd \in [Commands -> CommandType] /\ cmd[s] = NoCommand /\ cmd[s].pc = "new"
  BY DEF IInv, Held, CmdInv, Issue, NoCommand
<1>4. ctl.owner.cmd # s
  BY <1>3, NotOwner
<1>5. /\ \A t \in Commands : t # s => cmd'[t] = cmd[t]
      /\ cmd'[s] = [NoCommand EXCEPT !.kind = kind, !.pc = "admission", !.at = 1, !.line = line]
  BY <1>1, <1>3
<1>6. /\ ~cmd'[s].canceled /\ cmd'[s].pc = "admission" /\ cmd'[s].kind = kind
      /\ cmd'[s].line = line /\ cmd'[s].rxCh = <<>>
  BY <1>5 DEF NoCommand
<1>7. SameFlow(ctl, ctl') /\ ctl'.write = ctl.write /\ UNCHANGED <<rx, dev>>
  BY SmallSteps DEF Issue, IInv
<1> QED BY <1>2, <1>4, <1>5, <1>6, <1>7, OutsiderMoves

\* A command that becomes the owner.
LEMMA AdmittedFlow ==
  ASSUME Flow, NEW s \in Commands, \A t \in Commands : cmd[t].pc \notin Inside,
         \A t \in Commands : t # s => cmd'[t] = cmd[t],
         ~cmd'[s].canceled, cmd'[s].pc \in Inside, cmd'[s].kind = cmd[s].kind,
         cmd'[s].line = cmd[s].line, UNCHANGED <<rx, dev>>,
         ctl'.estop = ctl.estop, ctl'.write = ctl.write, ctl'.snapshot = ctl.snapshot,
         ctl'.owner = OwnerOf(s)', Between(s)' \/ Writing(s)'
  PROVE  Flow'
<1>1. Calm'
  BY DEF Flow, Calm, Working, Inside
<1>2. ctl'.owner.cmd = s /\ ctl'.owner # NoOwner
  BY Bounds DEF OwnerOf, NoOwner
<1>3. Free' /\ Busy'
  BY <1>2 DEF Free, Busy
<1>4. Waiters'
  BY <1>2 DEF Flow, Waiters, Inside
<1> QED BY <1>1, <1>3, <1>4 DEF Flow

LEMMA AdmitFlow ==
  ASSUME IInv, Flow, NEW s \in Commands, Admit(s)
  PROVE  Flow'
<1> DEFINE x == cmd[s]
           registered == Registered(s)
           owned == [registered EXCEPT !.owner = OwnerOf(s)]
<1>1. /\ x.pc = "admission" /\ ~x.canceled /\ x.kind # "reset" /\ x.line.kind # "reset"
      /\ x.line \in Line /\ CmdInv /\ UNCHANGED <<rx, dev>>
  BY DEF Admit, Waiting, Flow, Calm, IInv, Held, CmdInv, CommandType
<1>2. ctl.owner.cmd # s /\ x.rxCh = <<>>
  BY <1>1, NotOwner
<1>3. Owned(registered) /\ SameFlow(ctl, registered) /\ registered.write = ctl.write
  BY RegisterOwned, SmallSteps DEF Registered, IInv
<1>4. CASE ~AdmitsOwner(ctl, x.kind)
  <2>1. ctl' = registered /\ Goes(s, "done")
    BY <1>4 DEF Admit
  <2>2. SameFlow(ctl, ctl') /\ ctl'.write = ctl.write
    BY <1>3, <2>1
  <2> QED BY <1>1, <1>2, <2>1, <2>2, GoesFields, OutsiderMoves
<1>5. CASE AdmitsOwner(ctl, x.kind)
  <2>1. ctl.owner = NoOwner /\ Idle /\ Stored /\ ctl.mutation = NoMutation
    <3>1. ctl.owner = NoOwner
      BY <1>5 DEF AdmitsOwner
    <3>2. ctl.mutation = NoMutation
      BY <3>1, Nobody, Bounds DEF IInv, NoOwner
    <3> QED BY <3>1, <3>2 DEF Flow, Free
  <2>2. OwnerOf(s) \in Owner /\ Owned(owned)
    <3>1. OwnerOf(s) \in Owner
      BY DEF OwnerOf, Owner
    <3> QED BY <1>3, <2>1, <3>1, AcquireOwned DEF SameFlow
  <2>3. /\ owned.owner = OwnerOf(s) /\ owned.mutation = NoMutation
        /\ owned.snapshot = ctl.snapshot /\ owned.estop = ctl.estop /\ owned.write = ctl.write
    BY <1>3, <2>1 DEF SameFlow, Owned, CommandsType
  <2>4. \/ x.kind = "macro" /\ ctl' = owned /\ Goes(s, "prepare")
        \/ ctl' = ReleaseOwner(owned, s) /\ Goes(s, "done")
        \/ x.kind # "macro" /\ ctl' = Prepare(owned, Op(s), x.line) /\ Goes(s, "write")
    BY <1>5 DEF Admit, OwnerOf
  <2> HIDE DEF owned, registered, x
  <2>5. Idle' <=> Idle
    BY <1>1 DEF Idle
  <2>6. ~cmd'[s].canceled /\ cmd'[s].kind = x.kind /\ cmd'[s].line = x.line /\ cmd'[s].rxCh = <<>>
        /\ \A t \in Commands : t # s => cmd'[t] = cmd[t]
    <3>1. PICK pc : Goes(s, pc)
      BY <2>4
    <3> QED BY <1>1, <1>2, <3>1, GoesFields DEF x
  <2>7. \A t \in Commands : cmd[t].pc \notin Inside
    BY <2>1, Bounds DEF Flow, Waiters, Inside, NoOwner
  <2>8. CASE x.kind = "macro" /\ ctl' = owned /\ Goes(s, "prepare")
    <3>1. cmd'[s].pc = "prepare"
      BY <2>8, <1>1, GoesFields
    <3>2. Between(s)' /\ ctl'.owner = OwnerOf(s)'
      BY <1>1, <2>1, <2>3, <2>5, <2>6, <2>8, <3>1 DEF Between, Stored, OwnerOf, x
    <3> QED BY <1>1, <2>3, <2>6, <2>7, <2>8, <3>1, <3>2, AdmittedFlow DEF x, Inside
  <2>9. CASE ctl' = ReleaseOwner(owned, s) /\ Goes(s, "done")
    <3>1. cmd'[s].pc = "done"
      BY <2>9, <1>1, GoesFields
    <3>2. /\ ctl'.owner = NoOwner /\ ctl'.snapshot = ctl.snapshot /\ ctl'.estop = ctl.estop
          /\ ctl'.write = ctl.write /\ ctl'.mutation = NoMutation
      BY <2>2, <2>3, <2>9, ReleaseFields DEF OwnerOf
    <3>3. SameFlow(ctl, ctl')
      BY <2>1, <3>2 DEF SameFlow
    <3> QED BY <1>1, <1>2, <2>6, <3>1, <3>2, <3>3, OutsiderMoves DEF x
  <2>10. CASE x.kind # "macro" /\ ctl' = Prepare(owned, Op(s), x.line) /\ Goes(s, "write")
    <3>1. cmd'[s].pc = "write" /\ Op(s)' = Op(s)
      BY <2>10, <1>1, GoesFields
    <3>2. /\ ctl'.owner = OwnerOf(s) /\ ctl'.snapshot = ctl.snapshot /\ ctl'.estop = ctl.estop
          /\ ctl'.write = ctl.write
          /\ ctl'.mutation = IF x.line.kind = "set" THEN [op |-> Op(s), value |-> x.line.value]
                             ELSE NoMutation
      BY <1>1, <2>2, <2>3, <2>10, PrepareFields
    <3>3. Writing(s)' /\ ctl'.owner = OwnerOf(s)'
      BY <1>1, <2>1, <2>5, <2>6, <3>1, <3>2 DEF Writing, Stored, PreparedFor, OwnerOf, x
    <3> QED BY <1>1, <2>6, <2>7, <3>1, <3>2, <3>3, AdmittedFlow DEF x, Inside
  <2> QED BY <2>4, <2>8, <2>9, <2>10
<1> QED BY <1>4, <1>5

LEMMA OwnerFacts ==
  ASSUME IInv, Flow, NEW s \in Commands
  PROVE  /\ cmd[s].pc \in Working /\ ~cmd[s].canceled /\ cmd[s].kind # "reset"
         /\ cmd[s].line.kind # "reset" /\ cmd[s].line \in Line /\ CmdInv /\ Owned(ctl)
         /\ Op(s) \in Operation /\ Op(s).cmd = s
         /\ ctl.estop = "clear" /\ ctl.write # "reset" /\ ctl.snapshot # 0 /\ dev.alive
         /\ \A i \in 1..Len(rx) : rx[i].text \notin {"banner", "alarm50"}
<1>1. CmdInv /\ cmd[s] \in CommandType /\ Owned(ctl)
  BY DEF IInv, Held, CmdInv
<1>2. Op(s) \in Operation /\ Op(s).cmd = s
  BY <1>1, OpType
<1> QED BY <1>1, <1>2 DEF Flow, Calm, CommandType

LEMMA PrepareLineFlow ==
  ASSUME IInv, Flow, NEW s \in Commands, PrepareLine(s)
  PROVE  Flow'
<1> DEFINE x == cmd[s]
<1>1. x.pc = "prepare" /\ UNCHANGED <<rx, dev>>
  BY DEF PrepareLine
<1>2. ctl.owner = OwnerOf(s) /\ Between(s) /\ x.kind = "macro" /\ x.rxCh = <<>>
  BY <1>1, OwnsFlow DEF Inside, Writing, Awaiting, Between
<1>3. Idle' /\ Stored /\ ctl.mutation = NoMutation
  BY <1>1, <1>2 DEF Between, Idle
<1>4. \/ UNCHANGED ctl /\ x.line.kind = "move" /\ Goes(s, "write")
      \/ UNCHANGED ctl /\ Goes(s, "end")
      \/ ctl' = Prepare(ctl, Op(s), x.line) /\ Goes(s, "write")
  BY DEF PrepareLine
<1>5. /\ cmd'[s].pc \in {"write", "end"} /\ Op(s)' = Op(s) /\ ~cmd'[s].canceled
      /\ cmd'[s].kind = x.kind /\ cmd'[s].line = x.line /\ cmd'[s].rxCh = <<>>
      /\ \A t \in Commands : t # s => cmd'[t] = cmd[t]
  <2>1. PICK pc \in {"write", "end"} : Goes(s, pc)
    BY <1>4
  <2> QED BY <1>2, <2>1, GoesFields, OwnerFacts
<1>6. /\ ctl'.owner = ctl.owner /\ ctl'.snapshot = ctl.snapshot
      /\ ctl'.estop = "clear" /\ ctl'.write # "reset"
  <2>1. CASE UNCHANGED ctl
    BY <2>1, OwnerFacts
  <2>2. CASE ctl' = Prepare(ctl, Op(s), x.line)
    <3>1. /\ x.line \in Line /\ x.line.kind # "reset" /\ Owned(ctl)
          /\ ctl.estop = "clear" /\ ctl.write # "reset"
      BY OwnerFacts
    <3>2. LET d == Prepare(ctl, Op(s), x.line) IN
          d.owner = ctl.owner /\ d.snapshot = ctl.snapshot /\ d.estop = ctl.estop /\ d.write = ctl.write
      BY <3>1, PrepareFields
    <3> QED BY <2>2, <3>1, <3>2
  <2> QED BY <1>4, <2>1, <2>2
<1>7. Between(s)' \/ Writing(s)'
  <2>1. Stored'
    BY <1>1, <1>3, <1>6 DEF Stored
  <2>2. CASE UNCHANGED ctl /\ Goes(s, "end")
    <3>1. cmd'[s].pc = "end"
      BY <2>2, OwnerFacts, GoesFields
    <3> QED BY <1>2, <1>3, <1>5, <2>1, <2>2, <3>1 DEF Between
  <2>3. CASE UNCHANGED ctl /\ x.line.kind = "move" /\ Goes(s, "write")
    <3>1. cmd'[s].pc = "write"
      BY <2>3, OwnerFacts, GoesFields
    <3> QED BY <1>3, <1>5, <2>1, <2>3, <3>1 DEF Writing, PreparedFor
  <2>4. CASE ctl' = Prepare(ctl, Op(s), x.line) /\ Goes(s, "write")
    <3>1. cmd'[s].pc = "write"
      BY <2>4, OwnerFacts, GoesFields
    <3>2. ctl'.mutation = IF x.line.kind = "set" THEN [op |-> Op(s), value |-> x.line.value]
                          ELSE NoMutation
      BY <1>3, <2>4, OwnerFacts, PrepareFields
    <3> QED BY <1>3, <1>5, <2>1, <3>1, <3>2 DEF Writing, PreparedFor
  <2> QED BY <1>4, <2>2, <2>3, <2>4
<1> QED BY <1>1, <1>2, <1>5, <1>6, <1>7, OwnerFacts, OwnerMoves DEF Working

LEMMA WriteLineFlow ==
  ASSUME IInv, Flow, NEW s \in Commands, WriteLine(s)
  PROVE  Flow'
<1> DEFINE x == cmd[s]
           input == [cmd |-> s, at |-> x.at, line |-> x.line]
           pc == IF x.kind = "macro" THEN "wait" ELSE "done"
<1>1. x.pc = "write" /\ UNCHANGED <<ctl, rx>> /\ Goes(s, pc)
  BY DEF WriteLine
<1>2. ctl.owner = OwnerOf(s) /\ Writing(s)
  BY <1>1, OwnsFlow DEF Inside, Writing, Awaiting, Between
<1>3. /\ cmd'[s].pc = pc /\ Op(s)' = Op(s) /\ ~cmd'[s].canceled /\ cmd'[s].at = x.at
      /\ cmd'[s].kind = x.kind /\ cmd'[s].line = x.line /\ cmd'[s].rxCh = x.rxCh
      /\ \A t \in Commands : t # s => cmd'[t] = cmd[t]
  BY <1>1, GoesFields, OwnerFacts
<1>4. dev' = [dev EXCEPT !.input = <<input>>]
  <2>1. dev.input = <<>> /\ dev.alive
    BY <1>2, OwnerFacts DEF Writing, Idle
  <2>2. Append(<<>>, input) = <<input>>
    OBVIOUS
  <2> QED BY <2>1, <2>2 DEF WriteLine
<1>5. Sent(s)'
  <2>1. /\ dev'.input = <<input>> /\ dev'.homing = dev.homing /\ dev'.setting = dev.setting
    BY <1>4 DEF IInv, Held, DevInv, MachineType
  <2> QED BY <1>1, <1>2, <1>3, <2>1 DEF Sent, Writing, Idle, Stored
<1>6. Awaiting(s)'
  BY <1>1, <1>2, <1>3, <1>5 DEF Awaiting, Writing, PreparedFor
<1>7. dev'.alive
  BY <1>4, OwnerFacts DEF IInv, Held, DevInv, MachineType
<1> QED BY <1>1, <1>2, <1>3, <1>6, <1>7, OwnerFacts, OwnerMoves DEF Working

LEMMA WriteLineFailsFlow ==
  ASSUME IInv, Flow, NEW s \in Commands, WriteLineFails(s)
  PROVE  Flow'
<1> DEFINE x == cmd[s]
           cleared == ClearPreparation(ctl, Op(s))
<1>1. x.pc = "write" /\ UNCHANGED <<rx, dev>>
  BY DEF WriteLineFails
<1>2. ctl.owner = OwnerOf(s) /\ Writing(s)
  BY <1>1, OwnsFlow DEF Inside, Writing, Awaiting, Between
<1>3. /\ Owned(cleared) /\ cleared.owner = OwnerOf(s) /\ cleared.snapshot = ctl.snapshot
      /\ cleared.estop = "clear" /\ cleared.write = ctl.write /\ cleared.mutation = NoMutation
  <2>1. ctl.mutation \in {NoMutation, [op |-> Op(s), value |-> x.line.value]}
    BY <1>2 DEF Writing, PreparedFor
  <2> QED BY <1>2, <2>1, OwnerFacts, ClearOwned, ClearFields
<1>4. \/ x.kind = "macro" /\ ctl' = cleared /\ Goes(s, "end")
      \/ ctl' = ReleaseOwner(cleared, s) /\ Goes(s, "done")
  BY DEF WriteLineFails
<1>5. Idle' /\ Stored
  BY <1>1, <1>2 DEF Writing, Idle
<1> HIDE DEF cleared
<1>6. /\ ctl'.snapshot = ctl.snapshot /\ ctl'.estop = "clear" /\ ctl'.write = ctl.write
      /\ ctl'.mutation = NoMutation
      /\ ctl' = cleared \/ ctl'.owner = NoOwner
  BY <1>3, <1>4, ReleaseFields DEF OwnerOf
<1>7. Stored'
  BY <1>1, <1>5, <1>6 DEF Stored
<1>8. CASE x.kind = "macro" /\ ctl' = cleared /\ Goes(s, "end")
  <2>1. /\ cmd'[s].pc = "end" /\ ~cmd'[s].canceled /\ cmd'[s].kind = x.kind /\ cmd'[s].line = x.line
        /\ \A t \in Commands : t # s => cmd'[t] = cmd[t]
    BY <1>8, GoesFields, OwnerFacts
  <2>2. Between(s)'
    BY <1>5, <1>6, <1>7, <1>8, <2>1 DEF Between
  <2> QED BY <1>1, <1>2, <1>3, <1>6, <1>8, <2>1, <2>2, OwnerFacts, OwnerMoves DEF Working
<1>9. CASE ctl' = ReleaseOwner(cleared, s) /\ Goes(s, "done")
  <2>1. /\ cmd'[s].pc = "done" /\ ~cmd'[s].canceled /\ cmd'[s].kind = x.kind /\ cmd'[s].line = x.line
        /\ \A t \in Commands : t # s => cmd'[t] = cmd[t]
    BY <1>9, GoesFields, OwnerFacts
  <2>2. ctl'.owner = NoOwner
    BY <1>3, <1>9, ReleaseFields DEF OwnerOf
  <2> QED BY <1>1, <1>2, <1>5, <1>6, <1>7, <2>1, <2>2, OwnerFacts, OwnerMoves DEF Working, Inside
<1> QED BY <1>4, <1>8, <1>9

\* What a session takes from its backlog is the only thing there, and its own.
LEMMA TakesOwn ==
  ASSUME IInv, Flow, NEW s \in Commands, cmd[s].pc = "wait", cmd[s].rxCh # <<>>
  PROVE  /\ ctl.owner = OwnerOf(s) /\ cmd[s].kind = "macro" /\ Received(s) /\ PreparedFor(s)
         /\ Len(cmd[s].rxCh) = 1 /\ Head(cmd[s].rxCh) = cmd[s].rxCh[1]
         /\ Head(cmd[s].rxCh).op = Op(s) /\ Tail(cmd[s].rxCh) = <<>>
<1>1. ctl.owner = OwnerOf(s) /\ Awaiting(s)
  BY OwnsFlow DEF Inside, Between, Writing
<1>2. Received(s) /\ PreparedFor(s)
  BY <1>1 DEF Awaiting, Sent, Homing, Replied
<1>3. cmd[s].rxCh \in Seq(Response) /\ Len(cmd[s].rxCh) = 1
  BY <1>2 DEF Received, IInv, Held, CmdInv, CommandType, Backlog
<1>4. Head(cmd[s].rxCh) = cmd[s].rxCh[1] /\ Len(Tail(cmd[s].rxCh)) = 0
      /\ Tail(cmd[s].rxCh) \in Seq(Response)
  BY <1>3, HeadTailProperties
<1>5. Tail(cmd[s].rxCh) = <<>>
  BY <1>4, EmptySeq
<1> QED BY <1>1, <1>2, <1>3, <1>4, <1>5 DEF Received

\* The pending setting is the answered line's, and the machine has stored it.
LEMMA CommitKeeps ==
  ASSUME NEW c, Owned(c), c.snapshot # 0, NEW op \in Operation, NEW value,
         c.mutation \in {NoMutation, [op |-> op, value |-> value]}
  PROVE  LET d == CommitMutation(c, op) IN
         /\ d.owner = c.owner /\ d.estop = c.estop /\ d.write = c.write /\ Owned(d)
         /\ d.snapshot = IF c.mutation = NoMutation THEN c.snapshot ELSE c.mutation.value
         /\ d.mutation = NoMutation /\ d.snapshot # 0
<1>1. CASE c.mutation = NoMutation
  BY <1>1, CommitFields, CommitOwned, AgeType
<1>2. CASE c.mutation # NoMutation
  <2>1. c.mutation.op = op
    BY <1>2
  <2> QED BY <1>2, <2>1, CommitFields, CommitOwned, AgeType
<1> QED BY <1>1, <1>2

LEMMA TakeOKFlow ==
  ASSUME Undisturbed, IInv, Flow, NEW s \in Commands, TakeOK(s)
  PROVE  Flow'
<1> DEFINE x == cmd[s]
           committed == CommitMutation(ctl, Op(s))
           answered == [x EXCEPT !.rxCh = Tail(@), !.pc = "end"]
<1>1. x.pc = "wait" /\ x.rxCh # <<>> /\ Head(x.rxCh).text = "ok" /\ UNCHANGED <<rx, dev>>
  BY DEF TakeOK
<1>2. /\ ctl.owner = OwnerOf(s) /\ x.kind = "macro" /\ Received(s) /\ PreparedFor(s)
      /\ Head(x.rxCh) = x.rxCh[1] /\ Tail(x.rxCh) = <<>>
  BY <1>1, TakesOwn
<1>3. Idle /\ Promised
  BY <1>1, <1>2 DEF Received
<1>4. /\ committed.owner = ctl.owner /\ committed.estop = ctl.estop /\ committed.write = ctl.write
      /\ committed.snapshot = dev.setting /\ committed.mutation = NoMutation
      /\ Owned(committed) /\ committed.snapshot # 0
  <2>1. ctl.mutation \in {NoMutation, [op |-> Op(s), value |-> x.line.value]}
    BY <1>2 DEF PreparedFor
  <2>2. Op(s) \in Operation /\ Owned(ctl) /\ ctl.snapshot # 0
    BY OwnerFacts
  <2>3. /\ committed.owner = ctl.owner /\ committed.estop = ctl.estop
        /\ committed.write = ctl.write /\ Owned(committed)
        /\ committed.snapshot = IF ctl.mutation = NoMutation THEN ctl.snapshot ELSE ctl.mutation.value
        /\ committed.mutation = NoMutation /\ committed.snapshot # 0
    BY <2>1, <2>2, CommitKeeps
  <2> QED BY <1>3, <2>3 DEF Promised
<1>5. ctl' = ClearPreparation(committed, Op(s))
  BY DEF TakeOK
<1>6. /\ ctl'.owner = ctl.owner /\ ctl'.estop = ctl.estop /\ ctl'.write = ctl.write
      /\ ctl'.snapshot = dev.setting /\ ctl'.mutation = NoMutation /\ ctl'.snapshot # 0
  <2> HIDE DEF committed
  <2> QED BY <1>4, <1>5, ClearFields
<1>7. Idle' /\ Stored'
  BY <1>1, <1>3, <1>6 DEF Idle, Stored
<1>8. \/ cmd' = [cmd EXCEPT ![s] = answered]
      \/ \E line \in Offered :
           cmd' = [cmd EXCEPT ![s] = [answered EXCEPT !.pc = "prepare", !.at = @ + 1, !.line = line]]
  BY DEF TakeOK
<1>9. /\ ~cmd'[s].canceled /\ cmd'[s].kind = x.kind /\ cmd'[s].line.kind # "reset"
      /\ cmd'[s].pc \in {"end", "prepare"} /\ cmd'[s].rxCh = <<>>
      /\ \A t \in Commands : t # s => cmd'[t] = cmd[t]
  <2>1. x \in CommandType /\ cmd \in [Commands -> CommandType]
    BY DEF IInv, Held, CmdInv
  <2>2. CASE cmd' = [cmd EXCEPT ![s] = answered]
    BY <1>2, <2>1, <2>2, OwnerFacts DEF CommandType
  <2>3. ASSUME NEW line \in Offered,
               cmd' = [cmd EXCEPT ![s] = [answered EXCEPT !.pc = "prepare", !.at = @ + 1, !.line = line]]
        PROVE  /\ ~cmd'[s].canceled /\ cmd'[s].kind = x.kind /\ cmd'[s].line.kind # "reset"
               /\ cmd'[s].pc = "prepare" /\ cmd'[s].rxCh = <<>>
               /\ \A t \in Commands : t # s => cmd'[t] = cmd[t]
    BY <1>2, <2>1, <2>3, OwnerFacts DEF CommandType, Undisturbed
  <2> QED BY <1>8, <2>2, <2>3
<1>10. Between(s)'
  BY <1>2, <1>6, <1>7, <1>9 DEF Between
<1> QED BY <1>1, <1>2, <1>6, <1>9, <1>10, OwnerFacts, OwnerMoves DEF Working

LEMMA TakeFailureFlow ==
  ASSUME IInv, Flow, NEW s \in Commands, TakeFailure(s)
  PROVE  Flow'
<1> DEFINE x == cmd[s]
<1>1. x.pc = "wait" /\ x.rxCh # <<>> /\ Head(x.rxCh).text # "ok" /\ UNCHANGED <<rx, dev>>
      /\ Goes(s, "end") /\ ctl' = ClearPreparation(ctl, Op(s))
  BY OwnerFacts DEF TakeFailure
<1>2. /\ ctl.owner = OwnerOf(s) /\ x.kind = "macro" /\ Received(s) /\ PreparedFor(s)
      /\ Head(x.rxCh) = x.rxCh[1]
  BY <1>1, TakesOwn
<1>3. Idle' /\ Stored
  BY <1>1, <1>2 DEF Received, Idle
<1>4. /\ ctl'.owner = ctl.owner /\ ctl'.estop = ctl.estop /\ ctl'.write = ctl.write
      /\ ctl'.snapshot = ctl.snapshot /\ ctl'.mutation = NoMutation
  <2>1. ctl.mutation \in {NoMutation, [op |-> Op(s), value |-> x.line.value]}
    BY <1>2 DEF PreparedFor
  <2> QED BY <1>1, <2>1, OwnerFacts, ClearFields
<1>5. /\ cmd'[s].pc = "end" /\ ~cmd'[s].canceled /\ cmd'[s].kind = x.kind /\ cmd'[s].line = x.line
      /\ \A t \in Commands : t # s => cmd'[t] = cmd[t]
  BY <1>1, GoesFields, OwnerFacts
<1>6. Between(s)'
  BY <1>1, <1>2, <1>3, <1>4, <1>5 DEF Between, Stored
<1> QED BY <1>1, <1>2, <1>4, <1>5, <1>6, OwnerFacts, OwnerMoves DEF Working

LEMMA EndSessionFlow ==
  ASSUME IInv, Flow, NEW s \in Commands, EndSession(s)
  PROVE  Flow'
<1>1. cmd[s].pc = "end" /\ UNCHANGED <<rx, dev>> /\ Goes(s, "done")
  BY DEF EndSession
<1>2. ctl.owner = OwnerOf(s) /\ Between(s)
  BY <1>1, OwnsFlow DEF Inside, Writing, Awaiting, Between
<1>3. ctl' = ReleaseOwner(ctl, s)
  BY <1>2 DEF EndSession, OwnerOf, Between
<1>4. /\ ctl'.owner = NoOwner /\ ctl'.snapshot = ctl.snapshot /\ ctl'.estop = ctl.estop
      /\ ctl'.write = ctl.write
  BY <1>2, <1>3, OwnerFacts, ReleaseFields DEF OwnerOf
<1>5. Idle' /\ Stored'
  BY <1>1, <1>2, <1>4 DEF Between, Idle, Stored
<1>6. /\ cmd'[s].pc = "done" /\ ~cmd'[s].canceled /\ cmd'[s].kind = cmd[s].kind
      /\ cmd'[s].line = cmd[s].line /\ \A t \in Commands : t # s => cmd'[t] = cmd[t]
  BY <1>1, GoesFields, OwnerFacts
<1> QED BY <1>1, <1>2, <1>4, <1>5, <1>6, OwnerFacts, OwnerMoves DEF Working, Inside

-----------------------------------------------------------------------------
(* The machine and the event bridge. *)

\* What is at the machine or on its way back is the owner's line.
LEMMA OnTheWay ==
  ASSUME Flow, ~Idle
  PROVE  \E s \in Commands : /\ ctl.owner = OwnerOf(s) /\ Awaiting(s)
                             /\ Sent(s) \/ Homing(s) \/ Replied(s)
<1>1. PICK s \in Commands : ctl.owner = OwnerOf(s) /\ (Between(s) \/ Writing(s) \/ Awaiting(s))
  BY DEF Flow, Free, Busy
<1>2. Awaiting(s) /\ (Sent(s) \/ Homing(s) \/ Replied(s))
  BY <1>1 DEF Between, Writing, Awaiting, Received
<1> QED BY <1>1, <1>2

\* The machine's part of a line: the owner keeps waiting.
LEMMA LineMoves ==
  ASSUME IInv, Flow, NEW s \in Commands, ctl.owner = OwnerOf(s), Awaiting(s), UNCHANGED <<ctl, cmd>>,
         dev'.alive, \A i \in 1..Len(rx') : rx'[i].text \notin {"banner", "alarm50"},
         Homing(s)' \/ Replied(s)'
  PROVE  Flow'
<1>1. Awaiting(s)'
  BY DEF Awaiting, PreparedFor, Op
<1>2. cmd[s].pc \in {"wait", "done"}
  BY DEF Awaiting
<1> QED BY <1>1, <1>2, OwnerFacts, OwnerMoves DEF Working

LEMMA SaysReply ==
  ASSUME IInv, Flow, Clean(rx), NEW text \in Reply, NEW op \in Answered, Says(text, op)
  PROVE  /\ ~Clean(rx') /\ Lone(rx', op) /\ (Granted(rx') <=> text = "ok")
         /\ \A i \in 1..Len(rx') : rx'[i].text \notin {"banner", "alarm50"}
<1> DEFINE e == [text |-> text, age |-> 0, op |-> op]
<1>1. text \in Text
  BY DEF Reply, Text
<1>2. e \in LineEvent /\ e.text = text /\ e.op = op /\ rx \in Seq(LineEvent) /\ rx' = Append(rx, e)
  BY <1>1, Bounds DEF LineEvent, Says, IInv, Held, RxInv, Channel
<1> HIDE DEF e
<1>3. ~Clean(rx') /\ Lone(rx', op) /\ (Granted(rx') <=> text = "ok")
  BY <1>2, AppendReply
<1>4. \A i \in 1..Len(rx') : rx'[i] = e \/ (i \in 1..Len(rx) /\ rx'[i] = rx[i])
  <2>1. Len(rx) \in Nat /\ Len(rx') = Len(rx) + 1 /\ rx'[Len(rx) + 1] = e
        /\ \A i \in 1..Len(rx) : rx'[i] = rx[i]
    BY <1>2, AppendProperties, LenProperties
  <2>2. \A i \in 1..Len(rx') : i = Len(rx) + 1 \/ i \in 1..Len(rx)
    BY <2>1
  <2> QED BY <2>1, <2>2
<1> QED BY <1>2, <1>3, <1>4 DEF Flow, Calm, Reply

LEMMA TakesFlow ==
  ASSUME IInv, Flow, Takes, Undisturbed
  PROVE  Flow'
<1>1. dev.input # <<>> /\ UNCHANGED <<ctl, cmd>>
  BY DEF Takes
<1>2. PICK s \in Commands : /\ ctl.owner = OwnerOf(s) /\ Awaiting(s)
                            /\ Sent(s) \/ Homing(s) \/ Replied(s)
  BY <1>1, OnTheWay DEF Idle
<1>3. Sent(s) /\ PreparedFor(s)
  BY <1>1, <1>2 DEF Homing, Replied, Awaiting
<1> DEFINE line == cmd[s].line
           taken == [dev EXCEPT !.input = Tail(@)]
<1>4. /\ Head(dev.input) = [cmd |-> s, at |-> cmd[s].at, line |-> line]
      /\ Tail(dev.input) = <<>> /\ line \in Line /\ line.kind # "reset"
  BY <1>3, OwnerFacts DEF Sent
<1>5. /\ taken.input = <<>> /\ taken.homing = NotSet /\ taken.alive /\ taken.setting = dev.setting
      /\ taken \in MachineType /\ dev \in MachineType
  <2>1. dev \in MachineType /\ dev.alive /\ dev.homing = NotSet
    BY <1>3, OwnerFacts DEF IInv, Held, DevInv, Sent
  <2> QED BY <1>4, <2>1, EmptySeq DEF MachineType
<1>6. [cmd |-> Head(dev.input).cmd, at |-> Head(dev.input).at] = Op(s)
  BY <1>4 DEF Op
<1>7. \/ /\ line.kind \in Silent /\ UNCHANGED rx
         /\ dev' = [taken EXCEPT !.homing = SilentTime(line.kind, dev.setting, 0, 0), !.op = Op(s),
                                 !.kind = line.kind, !.leg = 0, !.alarm = FALSE]
      \/ /\ line.kind \notin Silent /\ Says("ok", Op(s))
         /\ dev' = CASE line.kind = "set" -> [taken EXCEPT !.setting = line.value]
                     [] line.kind = "reset" -> [taken EXCEPT !.setting = 1]
                     [] line.kind = "unlock" -> [taken EXCEPT !.alarm = FALSE]
                     [] line.kind = "move" -> taken
      \/ Says("error", Op(s)) /\ dev' = taken
  <2>1. Head(dev.input).line = line
    BY <1>4
  <2> HIDE DEF line
  <2> QED BY <1>4, <1>6, <2>1 DEF Takes
<1>8. Op(s)' = Op(s) /\ Op(s) \in Answered /\ cmd[s].rxCh = <<>> /\ Clean(rx) /\ Stored
  BY <1>1, <1>3, OwnerFacts DEF Op, Answered, Sent
<1>9. CASE /\ line.kind \in Silent /\ UNCHANGED rx
           /\ dev' = [taken EXCEPT !.homing = SilentTime(line.kind, dev.setting, 0, 0), !.op = Op(s),
                                   !.kind = line.kind, !.leg = 0, !.alarm = FALSE]
  <2> DEFINE time == SilentTime(line.kind, dev.setting, 0, 0)
  <2>1. time # NotSet
    <3>1. time \in Age
      BY <1>5, <1>9, SilenceType DEF MachineType, Adjustments
    <3> QED BY <3>1, AgeType
  <2> HIDE DEF time
  <2>2. /\ dev'.homing = time /\ dev'.op = Op(s) /\ dev'.input = <<>> /\ dev'.setting = dev.setting
        /\ dev'.alive
    <3>1. dev' = [taken EXCEPT !.homing = time, !.op = Op(s), !.kind = line.kind, !.leg = 0,
                               !.alarm = FALSE]
      BY <1>9 DEF time
    <3> HIDE DEF taken, line
    <3> QED BY <1>5, <3>1 DEF MachineType
  <2>3. Homing(s)'
    BY <1>1, <1>8, <1>9, <2>1, <2>2 DEF Homing, Stored
  <2> QED BY <1>1, <1>2, <1>9, <2>2, <2>3, OwnerFacts, LineMoves
<1>10. CASE /\ line.kind \notin Silent /\ Says("ok", Op(s))
            /\ dev' = CASE line.kind = "set" -> [taken EXCEPT !.setting = line.value]
                        [] line.kind = "reset" -> [taken EXCEPT !.setting = 1]
                        [] line.kind = "unlock" -> [taken EXCEPT !.alarm = FALSE]
                        [] line.kind = "move" -> taken
  <2>1. /\ ~Clean(rx') /\ Lone(rx', Op(s)) /\ Granted(rx')
        /\ \A i \in 1..Len(rx') : rx'[i].text \notin {"banner", "alarm50"}
    BY <1>8, <1>10, SaysReply DEF Reply
  <2>2. \/ line.kind = "set" /\ dev' = [taken EXCEPT !.setting = line.value]
        \/ line.kind # "set" /\ dev' \in {taken, [taken EXCEPT !.alarm = FALSE]}
    <3>1. line.kind \in {"set", "unlock", "move"}
      BY <1>4, <1>10 DEF Line
    <3> HIDE DEF line, taken
    <3> QED BY <1>10, <3>1
  <2>3. /\ dev'.input = <<>> /\ dev'.homing = NotSet /\ dev'.alive
        /\ dev'.setting = IF line.kind = "set" THEN line.value ELSE dev.setting
    <3> HIDE DEF line, taken
    <3> QED BY <1>5, <2>2 DEF MachineType
  <2>4. Promised'
    <3>1. CASE line.kind = "set"
      <4>1. ctl.mutation = [op |-> Op(s), value |-> line.value]
        BY <1>3, <3>1 DEF PreparedFor
      <4>2. ctl.mutation # NoMutation /\ ctl.mutation.value = line.value
        <5>1. Op(s) # NoOp
          BY OwnerFacts, Bounds DEF NoOp
        <5> QED BY <4>1, <5>1 DEF NoMutation
      <4> QED BY <1>1, <2>3, <3>1, <4>2 DEF Promised
    <3>2. CASE line.kind # "set"
      BY <1>1, <1>3, <1>8, <2>3, <3>2 DEF PreparedFor, Promised, Stored
    <3> QED BY <3>1, <3>2
  <2>5. Replied(s)'
    BY <1>1, <1>8, <2>1, <2>3, <2>4 DEF Replied
  <2> QED BY <1>1, <1>2, <2>1, <2>3, <2>5, LineMoves
<1>11. CASE Says("error", Op(s)) /\ dev' = taken
  <2>1. /\ ~Clean(rx') /\ Lone(rx', Op(s)) /\ ~Granted(rx')
        /\ \A i \in 1..Len(rx') : rx'[i].text \notin {"banner", "alarm50"}
    BY <1>8, <1>11, SaysReply DEF Reply
  <2>2. Replied(s)'
    BY <1>1, <1>5, <1>8, <1>11, <2>1 DEF Replied, Stored
  <2> QED BY <1>1, <1>2, <1>5, <1>11, <2>1, <2>2, LineMoves
<1> QED BY <1>7, <1>9, <1>10, <1>11

LEMMA HomedFlow ==
  ASSUME IInv, Flow, Homed
  PROVE  Flow'
<1>1. dev.homing = 0 /\ dev.homing # NotSet /\ UNCHANGED <<ctl, cmd>> /\ Says("ok", dev.op)
  BY DEF Homed, NotSet
<1>2. PICK s \in Commands : /\ ctl.owner = OwnerOf(s) /\ Awaiting(s)
                            /\ Sent(s) \/ Homing(s) \/ Replied(s)
  BY <1>1, OnTheWay DEF Idle
<1>3. Homing(s) /\ PreparedFor(s)
  BY <1>1, <1>2 DEF Sent, Replied, Awaiting
<1>4. /\ dev'.homing = NotSet /\ dev'.input = <<>> /\ dev'.setting = dev.setting /\ dev'.alive
  <2>1. dev' = [dev EXCEPT !.homing = NotSet, !.op = NoOp, !.kind = "home", !.leg = 0]
    BY DEF Homed
  <2> HIDE DEF NotSet, NoOp
  <2> QED BY <1>3, <2>1, OwnerFacts DEF Homing, IInv, Held, DevInv, MachineType
<1>5. /\ ~Clean(rx') /\ Lone(rx', Op(s)) /\ Granted(rx')
      /\ \A i \in 1..Len(rx') : rx'[i].text \notin {"banner", "alarm50"}
  <2>1. dev.op = Op(s) /\ Op(s) \in Answered /\ Clean(rx)
    BY <1>3, OwnerFacts DEF Homing, Answered
  <2> QED BY <1>1, <2>1, SaysReply DEF Reply
<1>6. ctl.mutation = NoMutation
  BY <1>3 DEF Homing, PreparedFor, Silent
<1>7. Replied(s)'
  BY <1>1, <1>3, <1>4, <1>5, <1>6 DEF Replied, Homing, Promised, Stored, Op
<1> QED BY <1>1, <1>2, <1>4, <1>5, <1>7, LineMoves

LEMMA ReplyDelivered ==
  ASSUME IInv, Flow, rx # <<>>, rx' = Tail(rx), UNCHANGED dev, Head(rx).text \in Reply,
         NEW c, Owned(c), SameFlow(ctl, c), c.write = ctl.write, Deliver(c, Head(rx)),
         \A i \in 1..Len(rx') : rx'[i].text \notin {"banner", "alarm50"}
  PROVE  Flow'
<1> DEFINE e == Head(rx)
<1>1. rx \in Seq(LineEvent)
  BY DEF IInv, Held, RxInv, Channel
<1>2. ~Clean(rx)
  <2>1. Len(rx) \in Nat /\ Len(rx) > 0 /\ Head(rx) = rx[1]
    BY <1>1, HeadTailProperties, LenProperties, EmptySeq
  <2> QED BY <2>1 DEF Clean
<1>3. PICK s \in Commands : /\ ctl.owner = OwnerOf(s) /\ Awaiting(s)
                            /\ Sent(s) \/ Homing(s) \/ Replied(s)
  BY <1>2, OnTheWay DEF Idle
<1>4. Replied(s) /\ PreparedFor(s)
  BY <1>2, <1>3 DEF Sent, Homing, Awaiting
<1>5. Clean(rx') /\ e.op = Op(s) /\ (Granted(rx) <=> e.text = "ok")
  BY <1>1, <1>4, TailReply DEF Replied
<1>6. c.owner = OwnerOf(s) /\ c.owner.cmd = s
  BY <1>3 DEF SameFlow, OwnerOf
<1>7. Idle'
  BY <1>4, <1>5 DEF Idle, Replied
<1> HIDE DEF e
<1>8. CASE cmd[s].kind # "macro"
  <2> DEFINE d == IF e.text = "ok" THEN CommitMutation(c, c.mutation.op) ELSE c
  <2>1. ctl' = ReleaseOwner(d, s) /\ UNCHANGED cmd
    BY <1>6, <1>8 DEF Deliver, OwnerOf, e
  <2>2. /\ d.owner = c.owner /\ d.estop = c.estop /\ d.write = c.write /\ Owned(d)
        /\ d.snapshot = dev.setting
    <3>1. CASE e.text = "ok"
      <4>1. Promised /\ c.mutation = ctl.mutation /\ c.snapshot = ctl.snapshot /\ c.snapshot # 0
        BY <1>4, <1>5, <3>1, OwnerFacts DEF Replied, SameFlow
      <4>2. c.mutation \in {NoMutation, [op |-> Op(s), value |-> cmd[s].line.value]}
        BY <1>4, <4>1 DEF PreparedFor
      <4>3. CASE c.mutation = NoMutation
        BY <3>1, <4>1, <4>3, CommitFields, CommitOwned DEF Promised
      <4>4. CASE c.mutation # NoMutation
        <5>1. c.mutation.op = Op(s) /\ Op(s) \in Operation
          BY <4>2, <4>4, OwnerFacts
        <5> QED BY <3>1, <4>1, <4>4, <5>1, CommitFields, CommitOwned DEF Promised
      <4> QED BY <4>3, <4>4
    <3>2. CASE e.text # "ok"
      BY <1>4, <1>5, <3>2 DEF Replied, Stored, SameFlow
    <3> QED BY <3>1, <3>2
  <2> HIDE DEF d
  <2>3. /\ ctl'.owner = NoOwner /\ ctl'.estop = c.estop /\ ctl'.write = c.write
        /\ ctl'.snapshot = dev.setting
    BY <1>6, <2>1, <2>2, ReleaseFields
  <2>4. Stored' /\ ctl'.snapshot # 0
    BY <2>3, Bounds DEF Stored, IInv, Held, DevInv, MachineType
  <2>5. cmd[s].pc = "done"
    BY <1>3, <1>8 DEF Awaiting
  <2> QED BY <1>3, <1>7, <2>1, <2>3, <2>4, <2>5, OwnerFacts, OwnerMoves DEF SameFlow, Working, Inside
<1>9. CASE cmd[s].kind = "macro"
  <2> DEFINE r == [text |-> e.text, op |-> e.op]
  <2>1. cmd[s].rxCh = <<>> /\ ~(Len(cmd[s].rxCh) >= MaxBacklog)
    BY <1>4, Bounds DEF Replied
  <2>2. ctl' = c /\ cmd' = [cmd EXCEPT ![s].rxCh = Append(<<>>, r)]
    <3>1. c.owner.kind = "macro"
      BY <1>6, <1>9 DEF OwnerOf
    <3>2. ctl' = c /\ cmd' = [cmd EXCEPT ![s].rxCh = Append(@, [text |-> e.text, op |-> e.op])]
      BY ZenonT(30), <1>6, <2>1, <3>1 DEF Deliver, e
    <3> QED BY <2>1, <3>2
  <2>3. /\ \A t \in Commands : t # s => cmd'[t] = cmd[t]
        /\ cmd'[s].pc = cmd[s].pc /\ cmd'[s].kind = cmd[s].kind /\ cmd'[s].line = cmd[s].line
        /\ cmd'[s].at = cmd[s].at /\ cmd'[s].canceled = cmd[s].canceled
        /\ cmd'[s].rxCh = Append(<<>>, r)
    <3> HIDE DEF r
    <3> QED BY <2>2 DEF IInv, Held, CmdInv, CommandType
  <2>4. Len(cmd'[s].rxCh) = 1 /\ cmd'[s].rxCh[1].op = e.op /\ cmd'[s].rxCh[1].text = e.text
    BY <2>3
  <2>5. Op(s)' = Op(s) /\ (Stored' <=> Stored) /\ (Promised' <=> Promised)
        /\ (PreparedFor(s)' <=> PreparedFor(s))
    BY <2>2, <2>3 DEF Op, Stored, Promised, PreparedFor, SameFlow
  <2>6. Received(s)'
    BY <1>4, <1>5, <1>7, <1>9, <2>3, <2>4, <2>5 DEF Received, Replied
  <2>7. Awaiting(s)'
    BY <1>3, <1>4, <2>3, <2>5, <2>6 DEF Awaiting
  <2>8. cmd[s].pc = "wait"
    BY <1>3, <1>9 DEF Awaiting
  <2> HIDE DEF r
  <2> QED BY <1>3, <1>6, <2>2, <2>3, <2>7, <2>8, OwnerFacts, OwnerMoves DEF SameFlow, Working
<1> QED BY <1>8, <1>9

LEMMA BridgeFlow ==
  ASSUME IInv, Flow, Bridge
  PROVE  Flow'
<1> DEFINE e == Head(rx)
           noted == NoteActivity(ctl, e.age)
           heard == IF e.text \in Progress THEN NoteProgress(noted, e.age, Adjusted(e.text)) ELSE noted
<1>1. rx # <<>> /\ rx' = Tail(rx) /\ UNCHANGED dev /\ RxInv /\ rx \in Seq(LineEvent)
  BY DEF Bridge, IInv, Held, RxInv, Channel
<1>2. e \in LineEvent /\ e.age \in Nat /\ e.text \in Text
  <2>1. e \in LineEvent
    BY <1>1, RestType
  <2> QED BY <2>1, Bounds DEF LineEvent
<1>3. Owned(heard) /\ SameFlow(ctl, heard) /\ heard.write = ctl.write
  <2>1. Owned(noted) /\ SameFlow(ctl, noted) /\ noted.write = ctl.write
    BY <1>2, NoteActivityOwned, SmallSteps DEF IInv
  <2> HIDE DEF noted
  <2>2. Adjusted(e.text) \in Adjustments \cup {NotSet}
    BY DEF Adjusted, Adjustments
  <2>3. LET p == NoteProgress(noted, e.age, Adjusted(e.text)) IN
        Owned(p) /\ SameFlow(noted, p) /\ p.write = noted.write
    BY <1>2, <2>1, <2>2, NoteProgressOwned, SmallSteps
  <2> QED BY <2>1, <2>3 DEF SameFlow
<1>4. /\ \A i \in 1..Len(rx') : rx'[i].text \notin {"banner", "alarm50"}
      /\ e.text \notin {"banner", "alarm50"}
  <2>1. /\ Len(rx) \in Nat /\ Len(rx) > 0 /\ Len(Tail(rx)) = Len(rx) - 1 /\ Head(rx) = rx[1]
        /\ \A i \in 1..Len(Tail(rx)) : Tail(rx)[i] = rx[i + 1]
    BY <1>1, HeadTailProperties, LenProperties, EmptySeq
  <2>2. \A i \in 1..Len(Tail(rx)) : i + 1 \in 1..Len(rx)
    BY <2>1
  <2> QED BY <1>1, <2>1, <2>2 DEF Flow, Calm
<1>5. \/ /\ e.text \notin Reply /\ UNCHANGED cmd
         /\ ctl' \in {heard, NoteStatus(heard, e.text = "idle")}
      \/ e.text \in Reply /\ Deliver(heard, e)
  <2>1. \/ e.text \notin Reply /\ ctl' = NoteStatus(heard, e.text = "idle") /\ UNCHANGED cmd
        \/ e.text \notin Reply /\ ctl' = heard /\ UNCHANGED cmd
        \/ e.text = "alarm50"
        \/ e.text \notin {"idle", "alarm status", "banner"} \cup Progress /\ Deliver(heard, e)
    <3> HIDE DEF heard
    <3>1. \/ e.text \in {"idle", "alarm status"} /\ ctl' = NoteStatus(heard, e.text = "idle") /\ UNCHANGED cmd
          \/ e.text \in {"banner"} \cup Progress /\ ctl' = heard /\ UNCHANGED cmd
          \/ e.text = "alarm50"
          \/ e.text \notin {"idle", "alarm status", "banner"} \cup Progress /\ Deliver(heard, e)
      BY ZenonT(60) DEF Bridge, heard
    <3> QED BY <3>1 DEF Reply, Progress
  <2>2. e.text \notin {"idle", "alarm status", "banner", "alarm50"} \cup Progress => e.text \in Reply
    BY <1>2 DEF Text, Reply
  <2> QED BY <1>4, <2>1, <2>2
<1>6. CASE e.text \notin Reply /\ UNCHANGED cmd /\ ctl' \in {heard, NoteStatus(heard, e.text = "idle")}
  <2>1. SameReplies(rx, rx')
    BY <1>1, <1>6, TailRemark
  <2>2. SameFlow(ctl, ctl') /\ ctl'.write = ctl.write
    <3> HIDE DEF heard
    <3>1. heard.estop = "clear"
      BY <1>3 DEF SameFlow, Flow, Calm
    <3>2. SameFlow(heard, ctl') /\ ctl'.write = heard.write
      BY <1>3, <1>6, <3>1, SmallSteps, SameIsSame
    <3> QED BY <1>3, <3>2 DEF SameFlow
  <2> QED BY <1>1, <1>4, <1>6, <2>1, <2>2, SameIsSame, Aside DEF Flow, Calm
<1>7. CASE e.text \in Reply /\ Deliver(heard, e)
  <2> HIDE DEF heard
  <2> QED BY <1>1, <1>3, <1>4, <1>7, ReplyDelivered
<1> QED BY <1>5, <1>6, <1>7

-----------------------------------------------------------------------------
(* The clock. The bridge has still to read what the machine has said, so how   *)
(* long it has been silent is known only from the lease as it will be then.    *)

\* ... and what the clock has to allow.
InTime ==
  Lag < Margin /\ MaxUpsets + Lag < Timeout /\ MaxUpsets + 2 * Lag <= Timeout

Lease == [op : Operation, kind : Silent, leg : 0..3, age : Age, idle : Age, limit : Age]

\* NoteActivity and NoteProgress of a lease, with the settings v.
Active(l, age) ==
  IF age <= l.age THEN [l EXCEPT !.idle = IF age < l.idle THEN age ELSE l.idle] ELSE l
Progressed(v, l, age, adjustment) ==
  IF l.kind # "level" \/ age > l.age \/ age > l.idle \/ l.leg = 3 THEN l
  ELSE [l EXCEPT !.leg = l.leg + 1,
                 !.limit = SilentTime("level", v, IF adjustment = NotSet THEN 1 ELSE adjustment, l.leg + 1)
                           + Margin]
Heard(v, l, e) ==
  IF e.text \in Progress THEN Progressed(v, Active(l, e.age), e.age, Adjusted(e.text))
  ELSE Active(l, e.age)

\* The lease after each of the lines that the bridge has still to read.
Readings(v, l, q, L) ==
  /\ L \in [0..Len(q) -> Lease] /\ L[0] = l
  /\ \A i \in 1..Len(q) : L[i] = Heard(v, L[i - 1], q[i]) /\ L[i].kind = l.kind
\* Until the first n of them were received, the machine was not silent for too long.
Prompt(q, L, n) == \A i \in 1..n : L[i - 1].idle - q[i].age <= L[i - 1].limit - Margin

Leased(s) ==
  IF cmd[s].pc \notin {"prepare", "end"} /\ cmd[s].line.kind \in Silent
  THEN ctl.lease # NoLease /\ ctl.lease.op = Op(s) /\ ctl.lease.kind = cmd[s].line.kind
  ELSE ctl.lease = NoLease
Begun ==
  /\ dev.input # <<>> \/ cmd[ctl.owner.cmd].pc = "write"
  /\ ctl.lease.idle = 0 /\ ctl.lease.age = 0 /\ ctl.lease.leg = 0
  /\ ctl.lease.limit = SilentTime(ctl.lease.kind, ctl.snapshot, 0, 0) + Margin
Counted ==
  /\ dev.homing # NotSet /\ dev.kind = ctl.lease.kind
  /\ \E L \in [0..Len(rx) -> Lease] :
       /\ Readings(ctl.snapshot, ctl.lease, rx, L) /\ Prompt(rx, L, Len(rx))
       /\ L[Len(rx)].idle + dev.homing <= L[Len(rx)].limit - Margin
       /\ L[Len(rx)].leg = dev.leg
ReplyInTime ==
  \E r \in 1..Len(rx) :
    /\ rx[r].text \in Reply /\ rx[r].age <= ctl.lease.age
    /\ \E L \in [0..Len(rx) -> Lease] : Readings(ctl.snapshot, ctl.lease, rx, L) /\ Prompt(rx, L, r)
Heeded == cmd[ctl.owner.cmd].rxCh # <<>> /\ cmd[ctl.owner.cmd].pc = "wait" /\ ctl.lease.idle <= Lag

\* Whoever waits for a silent line has its lease; the reply to it, or the machine's
\* next remark, comes before the lease's limit; a printed adjustment is one of a
\* machine that is still silent, or whose reply follows.
Covered == ctl.lease # NoLease =>
  ctl.beat = NotSet /\ ctl.lease.limit >= Margin /\ (Begun \/ Counted \/ ReplyInTime \/ Heeded)
Announced == \A i \in 1..Len(rx) : rx[i].text \in Progress =>
  dev.homing # NotSet \/ \E r \in 1..Len(rx) : i < r /\ rx[r].text \in Reply
Leases == /\ \A s \in Commands : ctl.owner = OwnerOf(s) => Leased(s)
          /\ Covered /\ Announced

\* Without a lease the outstanding heartbeat grows only while its poll is written or
\* refused. Every refusal is somebody's turn: a line that was rejected or not written
\* (upsets), or an event that the bridge is about to read (Lag).
Debt == clock.upsets + (IF Lag = 0 THEN 0 ELSE Lag - 1)
Dry == \A i \in 1..Len(rx) : rx[i].age > ctl.beat
Pending ==
  \/ ~clock.polled \/ ctl.write = "poll" \/ dev.ask \/ dev.input # <<>>
  \/ \E s \in Commands : cmd[s].pc \in {"admission", "prepare", "write"}
Heeding(s) == cmd[s].pc = "end" \/ (cmd[s].pc = "wait" /\ cmd[s].rxCh # <<>>)
Clock == [polled : BOOLEAN, checked : BOOLEAN, upsets : 0..MaxUpsets]
Turns ==
  /\ ctl.waiters \subseteq {s \in Commands : cmd[s].pc = "admission"}
  /\ clock \in Clock
  /\ ~clock.polled => ctl.write = "none"
Owed == ctl.beat # NotSet =>
  /\ ~Dry => \E i \in 1..Len(rx) : rx[i].age <= ctl.beat /\ ctl.beat - rx[i].age <= Debt
  /\ Dry => /\ ctl.beat <= Debt
            /\ ctl.write # "poll" /\ ~dev.ask => clock.upsets >= 1
            /\ ~Pending => ctl.beat < Debt
            /\ \A s \in Commands : Heeding(s) => ctl.beat < Debt \/ ctl.beat + clock.upsets <= Debt
Heartbeat == Turns /\ Owed

-----------------------------------------------------------------------------
(* Readings of the channel. *)

LEMMA TimeFacts ==
  ASSUME InTime
  PROVE  /\ Margin \in Nat /\ Lag \in Nat /\ Lag < Margin /\ Margin <= MaxAge /\ MaxAge \in Nat
         /\ Age = 0..MaxAge /\ Lag < MaxAge /\ NotSet = -1
BY AgeType, Bounds, CommandAssumption DEF InTime, Age, NotSet, MaxAge

LEMMA ActiveType ==
  ASSUME NEW l \in Lease, NEW age \in Nat
  PROVE  LET a == Active(l, age) IN
         /\ a \in Lease /\ a.op = l.op /\ a.kind = l.kind /\ a.age = l.age /\ a.leg = l.leg
         /\ a.limit = l.limit /\ a.idle <= l.idle
         /\ a.idle = IF age <= l.age /\ age < l.idle THEN age ELSE l.idle
         /\ age <= l.age => a.idle <= age
BY AgeType DEF Active, Lease, Age

LEMMA ProgressedType ==
  ASSUME NEW v \in 0..MaxValue, NEW l \in Lease, NEW age \in Nat, NEW adjustment \in Adjustments \cup {NotSet}
  PROVE  LET p == Progressed(v, l, age, adjustment) IN
         /\ p \in Lease /\ p.op = l.op /\ p.kind = l.kind /\ p.age = l.age /\ p.idle = l.idle
         /\ l.limit >= Margin => p.limit >= Margin
<1> DEFINE made == IF adjustment = NotSet THEN 1 ELSE adjustment
           limit == SilentTime("level", v, made, l.leg + 1) + Margin
<1>1. CASE l.kind # "level" \/ age > l.age \/ age > l.idle \/ l.leg = 3
  BY <1>1 DEF Progressed
<1>2. CASE ~(l.kind # "level" \/ age > l.age \/ age > l.idle \/ l.leg = 3)
  <2>1. Progressed(v, l, age, adjustment) = [l EXCEPT !.leg = l.leg + 1, !.limit = limit]
    BY <1>2 DEF Progressed
  <2>2. made \in Adjustments /\ l.leg + 1 \in 0..3 /\ l.leg + 1 \in Nat
    BY <1>2 DEF Adjustments, Lease
  <2>3. limit \in Age /\ limit >= Margin
    <3>1. SilentTime("level", v, made, l.leg + 1) \in Nat /\ limit \in Age
      BY <2>2, SilentTimeType DEF Silent
    <3> HIDE DEF made
    <3> QED BY <3>1, AgeType
  <2> HIDE DEF limit
  <2> QED BY <2>1, <2>2, <2>3 DEF Lease
<1> QED BY <1>1, <1>2

LEMMA AdjustedType ==
  ASSUME NEW text
  PROVE  Adjusted(text) \in Adjustments \cup {NotSet}
BY DEF Adjusted, Adjustments

LEMMA HeardType ==
  ASSUME NEW v \in 0..MaxValue, NEW l \in Lease, NEW e, e.age \in Nat
  PROVE  LET h == Heard(v, l, e) IN
         /\ h \in Lease /\ h.op = l.op /\ h.kind = l.kind /\ h.age = l.age
         /\ h.idle <= l.idle /\ (e.age <= l.age => h.idle <= e.age)
         /\ l.limit >= Margin => h.limit >= Margin
<1> DEFINE a == Active(l, e.age)
           p == Progressed(v, a, e.age, Adjusted(e.text))
<1>1. /\ a \in Lease /\ a.op = l.op /\ a.kind = l.kind /\ a.age = l.age /\ a.limit = l.limit
      /\ a.idle <= l.idle /\ (e.age <= l.age => a.idle <= e.age)
  BY ActiveType
<1> HIDE DEF a
<1>2. /\ p \in Lease /\ p.op = a.op /\ p.kind = a.kind /\ p.age = a.age /\ p.idle = a.idle
      /\ a.limit >= Margin => p.limit >= Margin
  BY <1>1, ProgressedType, AdjustedType
<1>3. Heard(v, l, e) \in {a, p}
  BY DEF Heard, a
<1> QED BY <1>1, <1>2, <1>3

\* What is not progress leaves a lease alone that has just begun.
LEMMA HeardFresh ==
  ASSUME NEW v, NEW l \in Lease, l.idle = 0, NEW e, e.age \in Nat, e.text \notin Progress
  PROVE  Heard(v, l, e) = l
BY DEF Heard, Active, Lease

LEMMA FreshReadings ==
  ASSUME NEW v, NEW l \in Lease, l.idle = 0, NEW q \in Seq(LineEvent), Lag \in Nat,
         \A i \in 1..Len(q) : q[i].text \notin Progress
  PROVE  /\ Readings(v, l, q, [i \in 0..Len(q) |-> l])
         /\ l.limit >= Margin => Prompt(q, [i \in 0..Len(q) |-> l], Len(q))
<1> DEFINE L == [i \in 0..Len(q) |-> l]
<1>1. \A i \in 1..Len(q) : q[i].age \in Nat /\ i - 1 \in 0..Len(q) /\ i \in 0..Len(q) /\ 0 \in 0..Len(q)
  <2>1. Len(q) \in Nat
    BY LenProperties
  <2>2. \A i \in 1..Len(q) : q[i] \in LineEvent
    BY ElementOfSeq
  <2> QED BY <2>1, <2>2 DEF LineEvent
<1>2. \A i \in 1..Len(q) : Heard(v, l, q[i]) = l
  BY <1>1, HeardFresh
<1>3. Len(q) \in Nat /\ L[0] = l /\ L \in [0..Len(q) -> Lease]
  BY LenProperties
<1>4. \A i \in 1..Len(q) : L[i] = l /\ L[i - 1] = l
  BY <1>1
<1>5. l.limit >= Margin => \A i \in 1..Len(q) : l.idle - q[i].age <= l.limit - Margin
  <2>1. l.limit \in Nat /\ Margin \in Nat
    BY AgeType DEF Lease
  <2> QED BY <1>1, <2>1
<1> HIDE DEF L
<1> QED BY <1>2, <1>3, <1>4, <1>5 DEF Readings, Prompt, L

\* The machine says one line more.
LEMMA AppendReadings ==
  ASSUME NEW v \in 0..MaxValue, NEW l \in Lease, NEW q \in Seq(LineEvent), NEW e \in LineEvent, Lag \in Nat,
         NEW L, Readings(v, l, q, L)
  PROVE  LET h == Heard(v, L[Len(q)], e)
             r == Append(q, e)
             M == [i \in 0..Len(r) |-> IF i <= Len(q) THEN L[i] ELSE h]
         IN  /\ Readings(v, l, r, M) /\ M[Len(r)] = h /\ Len(r) = Len(q) + 1
             /\ \A n \in 0..Len(q) : Prompt(q, L, n) => Prompt(r, M, n)
             /\ Prompt(q, L, Len(q)) /\ L[Len(q)].idle - e.age <= L[Len(q)].limit - Margin
                  => Prompt(r, M, Len(r))
<1> DEFINE h == Heard(v, L[Len(q)], e)
           r == Append(q, e)
           M == [i \in 0..Len(r) |-> IF i <= Len(q) THEN L[i] ELSE h]
<1>1. /\ Len(q) \in Nat /\ Len(r) = Len(q) + 1 /\ r[Len(q) + 1] = e
      /\ \A i \in 1..Len(q) : r[i] = q[i]
  BY AppendProperties, LenProperties
<1>2. L[Len(q)] \in Lease /\ e.age \in Nat
  BY <1>1 DEF Readings, LineEvent
<1>3. L[Len(q)].kind = l.kind
  <2>1. CASE Len(q) = 0
    BY <2>1 DEF Readings
  <2>2. CASE Len(q) # 0
    <3>1. Len(q) \in 1..Len(q)
      BY <1>1, <2>2
    <3> QED BY <3>1 DEF Readings
  <2> QED BY <2>1, <2>2
<1>4. h \in Lease /\ h.kind = l.kind
  BY <1>2, <1>3, HeardType
<1>5. M \in [0..Len(r) -> Lease]
  <2>1. \A i \in 0..Len(r) : i <= Len(q) => i \in 0..Len(q)
    BY <1>1
  <2> HIDE DEF h, r
  <2> QED BY <1>4, <2>1 DEF Readings
<1>6. /\ \A i \in 0..Len(q) : M[i] = L[i]
      /\ M[Len(q) + 1] = h
  BY <1>1
<1> HIDE DEF M
<1>7. ASSUME NEW i \in 1..Len(r)
      PROVE  M[i] = Heard(v, M[i - 1], r[i]) /\ M[i].kind = l.kind
  <2>1. CASE i \in 1..Len(q)
    <3>1. i \in 0..Len(q) /\ i - 1 \in 0..Len(q)
      BY <1>1, <2>1
    <3> HIDE DEF r
    <3> QED BY <1>1, <1>6, <2>1, <3>1 DEF Readings
  <2>2. CASE i = Len(q) + 1
    <3>1. i - 1 = Len(q) /\ Len(q) \in 0..Len(q)
      BY <1>1, <2>2
    <3>2. M[i] = h /\ M[i - 1] = L[Len(q)] /\ r[i] = e
      BY <1>1, <1>6, <2>2, <3>1
    <3> QED BY <1>4, <3>2
  <2> QED BY <1>1, <2>1, <2>2
<1>8. M[0] = l
  BY <1>1, <1>6 DEF Readings
<1>9. Readings(v, l, r, M)
  BY <1>5, <1>7, <1>8 DEF Readings
<1>10. ASSUME NEW n \in 0..Len(q), Prompt(q, L, n)
       PROVE  Prompt(r, M, n)
  <2>1. \A i \in 1..n : i \in 1..Len(q) /\ i - 1 \in 0..Len(q)
    BY <1>1
  <2> QED BY <1>1, <1>6, <1>10, <2>1 DEF Prompt
<1>11. ASSUME Prompt(q, L, Len(q)), L[Len(q)].idle - e.age <= L[Len(q)].limit - Margin
       PROVE  Prompt(r, M, Len(r))
  <2>1. ASSUME NEW i \in 1..Len(r)
        PROVE  M[i - 1].idle - r[i].age <= M[i - 1].limit - Margin
    <3>1. CASE i \in 1..Len(q)
      <4>1. i - 1 \in 0..Len(q)
        BY <1>1, <3>1
      <4> HIDE DEF r
      <4> QED BY <1>1, <1>6, <1>11, <3>1, <4>1 DEF Prompt
    <3>2. CASE i = Len(q) + 1
      <4>1. i - 1 = Len(q) /\ Len(q) \in 0..Len(q)
        BY <1>1, <3>2
      <4>2. M[i - 1] = L[Len(q)] /\ r[i] = e
        BY <1>1, <1>6, <3>2, <4>1
      <4> QED BY <1>11, <4>2
    <3> QED BY <1>1, <3>1, <3>2
  <2> QED BY <2>1 DEF Prompt
<1>12. M[Len(r)] = h /\ Len(r) = Len(q) + 1
  BY <1>1, <1>6
<1> QED BY <1>9, <1>10, <1>11, <1>12 DEF M

\* The bridge reads the first line.
LEMMA TailReadings ==
  ASSUME NEW v, NEW l, NEW q \in Seq(LineEvent), q # <<>>, NEW L, Readings(v, l, q, L)
  PROVE  LET r == Tail(q)
             M == [i \in 0..Len(r) |-> L[i + 1]]
         IN  /\ Readings(v, Heard(v, l, Head(q)), r, M) /\ Len(r) = Len(q) - 1 /\ Len(r) \in Nat
             /\ M[Len(r)] = L[Len(q)]
             /\ \A n \in 1..Len(q) : Prompt(q, L, n) => Prompt(r, M, n - 1)
<1> DEFINE r == Tail(q)
           M == [i \in 0..Len(r) |-> L[i + 1]]
<1>1. /\ Len(q) \in Nat /\ Len(q) > 0 /\ Len(r) = Len(q) - 1 /\ Len(r) \in Nat /\ Head(q) = q[1]
      /\ \A i \in 1..Len(r) : r[i] = q[i + 1]
  BY HeadTailProperties, LenProperties, EmptySeq
<1> HIDE DEF r
<1>2. \A i \in 0..Len(r) : i + 1 \in 0..Len(q) /\ i + 1 \in 1..Len(q)
  BY <1>1
<1>3. M \in [0..Len(r) -> Lease] /\ \A i \in 0..Len(r) : M[i] = L[i + 1]
  BY <1>2 DEF Readings
<1> HIDE DEF M
<1>4. M[0] = Heard(v, l, Head(q)) /\ M[0].kind = l.kind
  <2>1. 0 \in 0..Len(r) /\ 1 \in 1..Len(q)
    BY <1>1
  <2> QED BY <1>1, <1>3, <2>1 DEF Readings
<1>5. ASSUME NEW i \in 1..Len(r)
      PROVE  M[i] = Heard(v, M[i - 1], r[i]) /\ M[i].kind = l.kind
  <2>1. i \in 0..Len(r) /\ i - 1 \in 0..Len(r) /\ (i - 1) + 1 = i /\ (i + 1) - 1 = i /\ i + 1 \in 1..Len(q)
    BY <1>1
  <2>2. M[i] = L[i + 1] /\ M[i - 1] = L[i] /\ r[i] = q[i + 1]
    BY <1>1, <1>3, <2>1
  <2>3. L[i + 1] = Heard(v, L[(i + 1) - 1], q[i + 1]) /\ L[i + 1].kind = l.kind
    BY <2>1 DEF Readings
  <2> QED BY <2>1, <2>2, <2>3
<1>6. Readings(v, Heard(v, l, Head(q)), r, M)
  BY <1>3, <1>4, <1>5 DEF Readings
<1>7. M[Len(r)] = L[Len(q)]
  BY <1>1, <1>3
<1>8. ASSUME NEW n \in 1..Len(q), Prompt(q, L, n)
      PROVE  Prompt(r, M, n - 1)
  <2>1. ASSUME NEW i \in 1..(n - 1)
        PROVE  M[i - 1].idle - r[i].age <= M[i - 1].limit - Margin
    <3>1. i \in 1..Len(r) /\ i - 1 \in 0..Len(r) /\ (i - 1) + 1 = i /\ (i + 1) - 1 = i /\ i + 1 \in 1..n
      BY <1>1
    <3>2. M[i - 1] = L[i] /\ r[i] = q[i + 1]
      BY <1>1, <1>3, <3>1
    <3>3. L[(i + 1) - 1].idle - q[i + 1].age <= L[(i + 1) - 1].limit - Margin
      BY <1>8, <3>1 DEF Prompt
    <3> QED BY <3>1, <3>2, <3>3
  <2> QED BY <2>1 DEF Prompt
<1> QED BY <1>1, <1>6, <1>7, <1>8 DEF M, r

\* A tick: every line and the lease are older by one.
Aged(l) == [l EXCEPT !.age = Older(l.age), !.idle = Older(l.idle)]

LEMMA AgedType ==
  ASSUME NEW l \in Lease
  PROVE  /\ Aged(l) \in Lease /\ Aged(l).op = l.op /\ Aged(l).kind = l.kind /\ Aged(l).leg = l.leg
         /\ Aged(l).limit = l.limit /\ Aged(l).age = Older(l.age) /\ Aged(l).idle = Older(l.idle)
         /\ Aged(l).idle <= l.idle + 1 /\ l.idle \in Nat
<1>1. l.age \in Age /\ l.idle \in Age
  BY DEF Lease
<1>2. Older(l.age) \in Age /\ Older(l.idle) \in Age /\ Older(l.idle) <= l.idle + 1 /\ l.idle \in Nat
  BY <1>1, OlderType, AgeType DEF Older, Age
<1> QED BY <1>1, <1>2 DEF Aged, Lease

LEMMA AgedHeard ==
  ASSUME InTime, NEW v, NEW l \in Lease, NEW e, e.age \in 0..(Lag - 1), NEW f, f.text = e.text, f.age = e.age + 1
  PROVE  Heard(v, Aged(l), f) = Aged(Heard(v, l, e))
<1>1. /\ l.age \in 0..MaxAge /\ l.idle \in 0..MaxAge /\ e.age \in Nat /\ e.age + 1 < MaxAge
      /\ MaxAge \in Nat
  BY TimeFacts DEF Lease
<1>2. /\ f.age <= Older(l.age) <=> e.age <= l.age
      /\ f.age < Older(l.idle) <=> e.age < l.idle
  BY <1>1 DEF Older
<1>3. Older(e.age) = f.age
  BY <1>1 DEF Older
<1>4. Active(Aged(l), f.age) = Aged(Active(l, e.age))
  <2>1. CASE e.age <= l.age /\ e.age < l.idle
    <3>1. Active(l, e.age) = [l EXCEPT !.idle = e.age]
      BY <2>1 DEF Active
    <3>2. Active(Aged(l), f.age) = [Aged(l) EXCEPT !.idle = f.age]
      BY <1>2, <2>1, AgedType DEF Active
    <3> QED BY <1>3, <3>1, <3>2 DEF Aged, Lease
  <2>2. CASE ~(e.age <= l.age /\ e.age < l.idle)
    <3>1. Active(l, e.age) = l
      BY <2>2 DEF Active, Lease
    <3>2. Active(Aged(l), f.age) = Aged(l)
      BY <1>2, <2>2, AgedType DEF Active, Lease
    <3> QED BY <3>1, <3>2
  <2> QED BY <2>1, <2>2
<1>5. ASSUME NEW a \in Lease, NEW adjustment
      PROVE  Progressed(v, Aged(a), f.age, adjustment) = Aged(Progressed(v, a, e.age, adjustment))
  <2>1. /\ a.age \in 0..MaxAge /\ a.idle \in 0..MaxAge
    BY TimeFacts DEF Lease
  <2>2. /\ f.age > Older(a.age) <=> e.age > a.age
        /\ f.age > Older(a.idle) <=> e.age > a.idle
    BY <1>1, <2>1 DEF Older
  <2> DEFINE limit == SilentTime("level", v, IF adjustment = NotSet THEN 1 ELSE adjustment, a.leg + 1) + Margin
             still == a.kind # "level" \/ e.age > a.age \/ e.age > a.idle \/ a.leg = 3
  <2>3. Progressed(v, a, e.age, adjustment) = IF still THEN a ELSE [a EXCEPT !.leg = a.leg + 1, !.limit = limit]
    BY DEF Progressed
  <2>4. Progressed(v, Aged(a), f.age, adjustment)
          = IF still THEN Aged(a) ELSE [Aged(a) EXCEPT !.leg = a.leg + 1, !.limit = limit]
    BY <2>2, AgedType DEF Progressed
  <2> HIDE DEF limit, still
  <2> QED BY <2>3, <2>4 DEF Aged, Lease
<1>6. Active(l, e.age) \in Lease
  BY <1>1, ActiveType
<1> QED BY <1>4, <1>5, <1>6 DEF Heard

LEMMA AgedReadings ==
  ASSUME InTime, NEW v, NEW l \in Lease, NEW q \in Seq(LineEvent),
         NEW r, Len(r) = Len(q),
         \A i \in 1..Len(q) : r[i].text = q[i].text /\ r[i].age = q[i].age + 1 /\ q[i].age \in 0..(Lag - 1),
         NEW L, Readings(v, l, q, L)
  PROVE  LET M == [i \in 0..Len(r) |-> Aged(L[i])] IN
         /\ Readings(v, Aged(l), r, M) /\ M[Len(r)] = Aged(L[Len(q)])
         /\ \A n \in 0..Len(q) : Prompt(q, L, n) => Prompt(r, M, n)
<1> DEFINE M == [i \in 0..Len(r) |-> Aged(L[i])]
<1>1. Len(q) \in Nat /\ \A i \in 1..Len(q) : i \in 0..Len(q) /\ i - 1 \in 0..Len(q)
  <2>1. Len(q) \in Nat
    BY LenProperties
  <2> QED BY <2>1
<1>2. \A i \in 0..Len(q) : M[i] = Aged(L[i]) /\ L[i] \in Lease
  BY DEF Readings
<1>3. M \in [0..Len(r) -> Lease] /\ M[0] = Aged(l) /\ M[Len(r)] = Aged(L[Len(q)])
  <2>1. \A i \in 0..Len(q) : Aged(L[i]) \in Lease
    BY <1>2, AgedType
  <2>2. 0 \in 0..Len(q) /\ Len(q) \in 0..Len(q)
    BY <1>1
  <2> QED BY <1>2, <2>1, <2>2 DEF Readings
<1> HIDE DEF M
<1>4. ASSUME NEW i \in 1..Len(r)
      PROVE  M[i] = Heard(v, M[i - 1], r[i]) /\ M[i].kind = Aged(l).kind
  <2>1. i \in 1..Len(q) /\ i \in 0..Len(q) /\ i - 1 \in 0..Len(q)
    BY <1>1
  <2>2. L[i] = Heard(v, L[i - 1], q[i]) /\ L[i].kind = l.kind
    BY <2>1 DEF Readings
  <2>3. Heard(v, Aged(L[i - 1]), r[i]) = Aged(Heard(v, L[i - 1], q[i]))
    BY <1>2, <2>1, AgedHeard
  <2> QED BY <1>2, <2>1, <2>2, <2>3, AgedType
<1>5. Readings(v, Aged(l), r, M)
  BY <1>3, <1>4 DEF Readings
<1>6. ASSUME NEW n \in 0..Len(q), Prompt(q, L, n)
      PROVE  Prompt(r, M, n)
  <2>1. ASSUME NEW i \in 1..n
        PROVE  M[i - 1].idle - r[i].age <= M[i - 1].limit - Margin
    <3>1. i \in 1..Len(q) /\ i - 1 \in 0..Len(q)
      BY <1>1
    <3>2. /\ M[i - 1].idle <= L[i - 1].idle + 1 /\ M[i - 1].limit = L[i - 1].limit
          /\ M[i - 1].idle \in Nat /\ L[i - 1].idle \in Nat /\ L[i - 1].limit \in Nat
          /\ r[i].age = q[i].age + 1 /\ q[i].age \in Nat /\ Margin \in Nat
      <4>1. M[i - 1] = Aged(L[i - 1]) /\ L[i - 1] \in Lease /\ M[i - 1] \in Lease
        BY <1>2, <1>3, <3>1
      <4>2. \A a \in Lease : a.idle \in Nat /\ a.limit \in Nat
        BY AgeType DEF Lease
      <4>3. q[i].age \in Nat /\ Margin \in Nat
        BY <3>1, TimeFacts
      <4> QED BY <3>1, <4>1, <4>2, <4>3, AgedType
    <3>3. L[i - 1].idle - q[i].age <= L[i - 1].limit - Margin
      BY <1>6, <2>1 DEF Prompt
    <3> DEFINE a == M[i - 1].idle
               b == L[i - 1].idle
               c == q[i].age
               d == r[i].age
               limit == M[i - 1].limit
               given == L[i - 1].limit
    <3>4. /\ a \in Nat /\ b \in Nat /\ c \in Nat /\ given \in Nat /\ Margin \in Nat
          /\ a <= b + 1 /\ d = c + 1 /\ limit = given /\ b - c <= given - Margin
      BY <3>2, <3>3
    <3> HIDE DEF a, b, c, d, limit, given
    <3>5. a - d <= limit - Margin
      BY <3>4
    <3> QED BY <3>5 DEF a, d, limit
  <2> QED BY <2>1 DEF Prompt
<1> QED BY <1>3, <1>5, <1>6 DEF M

-----------------------------------------------------------------------------
(* What the clock sees of the record. *)

SameTimes(c, d) == d.lease = c.lease /\ d.beat = c.beat /\ d.waiters = c.waiters

LEMMA StillSteps ==
  ASSUME NEW c, Owned(c)
  PROVE  /\ SameTimes(c, c)
         /\ \A w : SameTimes(c, [c EXCEPT !.write = w])
         /\ \A s : LET d == [c EXCEPT !.waiters = @ \cup {s}] IN
                   d.lease = c.lease /\ d.beat = c.beat /\ d.waiters = c.waiters \cup {s}
         /\ \A s : LET d == [c EXCEPT !.waiters = @ \ {s}] IN
                   d.lease = c.lease /\ d.beat = c.beat /\ d.waiters = c.waiters \ {s}
         /\ BeginPoll(c).lease = c.lease /\ BeginPoll(c).waiters = c.waiters
         /\ BeginPoll(c).beat = IF c.beat = NotSet THEN 0 ELSE c.beat
         /\ \A idle : SameTimes(c, NoteStatus(c, idle))
         /\ \A op : LET d == ClearPreparation(c, op) IN
                    /\ d.lease = IF c.lease.op = op THEN NoLease ELSE c.lease
                    /\ d.beat = c.beat /\ d.waiters = c.waiters
<1>1. c \in CommandsType
  BY DEF Owned
<1>2. SameTimes(c, c) /\ \A w : SameTimes(c, [c EXCEPT !.write = w])
  BY <1>1 DEF SameTimes, CommandsType
<1>3. \A s : LET d == [c EXCEPT !.waiters = @ \cup {s}] IN
             d.lease = c.lease /\ d.beat = c.beat /\ d.waiters = c.waiters \cup {s}
  BY <1>1 DEF CommandsType
<1>4. \A s : LET d == [c EXCEPT !.waiters = @ \ {s}] IN
             d.lease = c.lease /\ d.beat = c.beat /\ d.waiters = c.waiters \ {s}
  BY <1>1 DEF CommandsType
<1>5. /\ BeginPoll(c).lease = c.lease /\ BeginPoll(c).waiters = c.waiters
      /\ BeginPoll(c).beat = IF c.beat = NotSet THEN 0 ELSE c.beat
  BY <1>1 DEF BeginPoll, CommandsType
<1>6. \A idle : SameTimes(c, NoteStatus(c, idle))
  BY <1>1 DEF NoteStatus, SameTimes, CommandsType
<1>7. \A op : LET d == ClearPreparation(c, op) IN
              /\ d.lease = IF c.lease.op = op THEN NoLease ELSE c.lease
              /\ d.beat = c.beat /\ d.waiters = c.waiters
  BY <1>1 DEF ClearPreparation, CommandsType
<1> QED BY <1>2, <1>3, <1>4, <1>5, <1>6, <1>7

LEMMA ReleaseTimes ==
  ASSUME NEW c, Owned(c), NEW s \in Commands, c.owner.cmd = s
  PROVE  LET d == ReleaseOwner(c, s) IN
         d.lease = NoLease /\ d.beat = c.beat /\ d.waiters = c.waiters
<1>1. c \in CommandsType /\ s # 0
  BY Bounds DEF Owned
<1>2. ReleaseOwner(c, s) = [Forget(c, s) EXCEPT !.owner = NoOwner]
  BY <1>1 DEF ReleaseOwner
<1>3. /\ Forget(c, s).lease = NoLease /\ Forget(c, s).beat = c.beat
      /\ Forget(c, s).waiters = c.waiters /\ Forget(c, s) \in CommandsType
  BY Forgotten
<1> QED BY <1>2, <1>3 DEF CommandsType

LEMMA CommitTimes ==
  ASSUME NEW c, Owned(c), NEW op
  PROVE  SameTimes(c, CommitMutation(c, op))
BY DEF Owned, CommandsType, CommitMutation, SameTimes

LEMMA PrepareTimes ==
  ASSUME NEW c, Owned(c), NEW line \in Line, line.kind # "reset", NEW op, c.snapshot # 0
  PROVE  LET d == Prepare(c, op, line) IN
         /\ d.waiters = c.waiters
         /\ IF line.kind \in Silent
            THEN /\ d.beat = NotSet
                 /\ d.lease = [op |-> op, kind |-> line.kind, leg |-> 0, age |-> 0, idle |-> 0,
                               limit |-> SilentTime(line.kind, c.snapshot, 0, 0) + Margin]
            ELSE d.beat = c.beat /\ d.lease = c.lease
<1>1. c \in CommandsType
  BY DEF Owned
<1>2. CASE line.kind = "set"
  <2>1. Prepare(c, op, line) = [c EXCEPT !.mutation = [op |-> op, value |-> line.value]]
    BY <1>2 DEF Prepare, Silent
  <2> QED BY <1>1, <1>2, <2>1 DEF CommandsType, Silent
<1>3. CASE line.kind \in Silent
  <2>1. Prepare(c, op, line) = BeginSilence(c, op, line.kind)
    BY <1>3 DEF Prepare, Silent
  <2> QED BY <1>1, <1>3, <2>1 DEF BeginSilence, CommandsType
<1>4. CASE line.kind \in {"move", "unlock"}
  BY <1>1, <1>4 DEF Prepare, Silent
<1> QED BY <1>2, <1>3, <1>4 DEF Line

LEMMA LeaseType ==
  ASSUME NEW c, Owned(c), c.lease # NoLease
  PROVE  c.lease \in Lease
BY DEF Owned, CommandsType, Lease

LEMMA NoLeaseApart ==
  ASSUME NEW l \in Lease
  PROVE  l # NoLease
BY Bounds DEF Lease, NoLease, NoOp, Operation

LEMMA AgesTimes ==
  ASSUME NEW c, Owned(c)
  PROVE  /\ Ages(c).lease = IF c.lease = NoLease THEN NoLease ELSE Aged(c.lease)
         /\ Ages(c).beat = IF c.beat = NotSet THEN NotSet ELSE Older(c.beat)
         /\ Ages(c).waiters = c.waiters
BY DEF Owned, CommandsType, Ages, Aged

LEMMA NotedTimes ==
  ASSUME NEW c, Owned(c), NEW age \in Nat
  PROVE  LET d == NoteActivity(c, age) IN
         /\ d.lease = IF c.lease = NoLease THEN NoLease ELSE Active(c.lease, age)
         /\ d.beat = IF c.beat # NotSet /\ age <= c.beat THEN NotSet ELSE c.beat
         /\ d.waiters = c.waiters /\ d.snapshot = c.snapshot
BY DEF Owned, CommandsType, NoteActivity, Active

LEMMA ProgressTimes ==
  ASSUME NEW c, Owned(c), NEW age, NEW adjustment
  PROVE  LET d == NoteProgress(c, age, adjustment) IN
         /\ d.lease = IF c.lease = NoLease THEN NoLease
                      ELSE Progressed(c.snapshot, c.lease, age, adjustment)
         /\ d.beat = c.beat /\ d.waiters = c.waiters
<1>1. CASE c.lease = NoLease
  BY <1>1 DEF NoteProgress
<1>2. CASE c.lease # NoLease
  BY <1>2 DEF Owned, CommandsType, NoteProgress, Progressed
<1> QED BY <1>1, <1>2

\* The record after a line was noted as activity and as progress.
HeardIn(c, e) ==
  IF e.text \in Progress THEN NoteProgress(NoteActivity(c, e.age), e.age, Adjusted(e.text))
  ELSE NoteActivity(c, e.age)

LEMMA HeardTimes ==
  ASSUME NEW c, Owned(c), NEW e, e.age \in Nat
  PROVE  LET d == HeardIn(c, e) IN
         /\ d.lease = IF c.lease = NoLease THEN NoLease ELSE Heard(c.snapshot, c.lease, e)
         /\ d.beat = IF c.beat # NotSet /\ e.age <= c.beat THEN NotSet ELSE c.beat
         /\ d.waiters = c.waiters /\ SameFlow(c, d) /\ Owned(d)
<1> DEFINE noted == NoteActivity(c, e.age)
           marked == NoteProgress(noted, e.age, Adjusted(e.text))
<1>1. /\ noted.lease = IF c.lease = NoLease THEN NoLease ELSE Active(c.lease, e.age)
      /\ noted.beat = IF c.beat # NotSet /\ e.age <= c.beat THEN NotSet ELSE c.beat
      /\ noted.waiters = c.waiters /\ noted.snapshot = c.snapshot /\ SameFlow(c, noted) /\ Owned(noted)
  BY NotedTimes, SmallSteps, NoteActivityOwned
<1>2. c.lease # NoLease => Active(c.lease, e.age) # NoLease
  <2>1. c.lease # NoLease => Active(c.lease, e.age) \in Lease
    BY LeaseType, ActiveType
  <2> QED BY <2>1, NoLeaseApart
<1> HIDE DEF noted
<1>3. /\ marked.lease = IF noted.lease = NoLease THEN NoLease
                        ELSE Progressed(noted.snapshot, noted.lease, e.age, Adjusted(e.text))
      /\ marked.beat = noted.beat /\ marked.waiters = noted.waiters
      /\ SameFlow(noted, marked) /\ Owned(marked)
  BY <1>1, ProgressTimes, SmallSteps, AdjustedType, NoteProgressOwned
<1>4. HeardIn(c, e) = IF e.text \in Progress THEN marked ELSE noted
  BY DEF HeardIn, noted
<1> HIDE DEF marked
<1>5. CASE e.text \in Progress
  BY <1>1, <1>2, <1>3, <1>4, <1>5 DEF SameFlow, Heard
<1>6. CASE e.text \notin Progress
  BY <1>1, <1>4, <1>6 DEF Heard
<1> QED BY <1>5, <1>6

-----------------------------------------------------------------------------
(* The lease. *)

LEMMA LeaseOwner ==
  ASSUME IInv, Flow, ctl.lease # NoLease
  PROVE  /\ ctl.lease \in Lease
         /\ \E s \in Commands : ctl.owner = OwnerOf(s) /\ ctl.owner.cmd = s
<1>1. Owned(ctl) /\ ctl.lease \in Lease
  BY LeaseType DEF IInv
<1>2. ctl.owner.cmd \in Commands
  BY <1>1 DEF Owned, Owns, Lease, Operation
<1>3. ctl.owner # NoOwner
  BY <1>2, Bounds DEF NoOwner
<1>4. PICK s \in Commands : ctl.owner = OwnerOf(s)
  BY <1>3 DEF Flow, Busy
<1> QED BY <1>1, <1>4 DEF OwnerOf

\* Where the owner's line is says which of the cases its lease is in.
LEMMA LeaseStage ==
  ASSUME IInv, Flow, Leases, NEW s \in Commands, ctl.owner = OwnerOf(s), ctl.lease # NoLease
  PROVE  /\ ctl.lease \in Lease /\ ctl.lease.op = Op(s) /\ ctl.lease.kind = cmd[s].line.kind
         /\ ctl.owner.cmd = s /\ cmd[s].line.kind \in Silent
         /\ ctl.beat = NotSet /\ ctl.lease.limit >= Margin
         /\ \/ Writing(s) /\ Begun
            \/ Awaiting(s) /\ Sent(s) /\ Begun
            \/ Awaiting(s) /\ Homing(s) /\ Counted
            \/ Awaiting(s) /\ Replied(s) /\ ReplyInTime
            \/ Awaiting(s) /\ Received(s) /\ Heeded
<1>1. ctl.lease \in Lease /\ ctl.owner.cmd = s
  BY LeaseOwner DEF OwnerOf
<1>2. /\ ctl.lease.op = Op(s) /\ ctl.lease.kind = cmd[s].line.kind /\ cmd[s].line.kind \in Silent
      /\ cmd[s].pc \notin {"prepare", "end"}
  BY DEF Leases, Leased
<1>3. /\ ctl.beat = NotSet /\ ctl.lease.limit >= Margin
      /\ Begun \/ Counted \/ ReplyInTime \/ Heeded
  BY DEF Leases, Covered
<1>4. Writing(s) \/ Awaiting(s)
  BY <1>1, <1>2, OwnsFlow DEF Between
<1>5. Counted => dev.homing # NotSet
  BY DEF Counted
<1>6. ReplyInTime => ~Clean(rx)
  BY DEF ReplyInTime, Clean
<1>7. Heeded => cmd[s].rxCh # <<>> /\ cmd[s].pc = "wait"
  BY <1>1 DEF Heeded
<1>8. Begun => dev.input # <<>> \/ cmd[s].pc = "write"
  BY <1>1 DEF Begun
<1>9. CASE Writing(s)
  BY <1>1, <1>2, <1>3, <1>5, <1>6, <1>7, <1>9 DEF Writing, Idle
<1>10. CASE Awaiting(s)
  <2>1. cmd[s].pc \in {"wait", "done"} /\ (Sent(s) \/ Homing(s) \/ Replied(s) \/ Received(s))
    BY <1>10 DEF Awaiting
  <2>2. CASE Sent(s)
    BY <1>1, <1>2, <1>3, <1>5, <1>6, <1>7, <1>10, <2>2 DEF Sent
  <2>3. CASE Homing(s)
    BY <1>1, <1>2, <1>3, <1>6, <1>7, <1>8, <1>10, <2>1, <2>3 DEF Homing
  <2>4. CASE Replied(s)
    BY <1>1, <1>2, <1>3, <1>5, <1>7, <1>8, <1>10, <2>1, <2>4 DEF Replied
  <2>5. CASE Received(s)
    BY <1>1, <1>2, <1>3, <1>5, <1>6, <1>8, <1>10, <2>1, <2>5 DEF Received, Idle
  <2> QED BY <2>1, <2>2, <2>3, <2>4, <2>5
<1> QED BY <1>4, <1>9, <1>10

\* A reply, or the remark before it, that the bridge has still to read is late by Lag
\* at most, and the limit leaves a margin.
LEMMA LeaseInTime ==
  ASSUME InTime, IInv, Flow, Leases, ctl.lease # NoLease
  PROVE  ctl.lease.idle < ctl.lease.limit
<1> DEFINE l == ctl.lease
<1>1. PICK s \in Commands : ctl.owner = OwnerOf(s)
  BY LeaseOwner
<1>2. l \in Lease /\ l.limit >= Margin /\ (Begun \/ Counted \/ ReplyInTime \/ Heeded)
  BY <1>1, LeaseStage
<1>3. /\ l.idle \in Nat /\ l.limit \in Nat /\ Margin \in Nat /\ Lag \in Nat /\ Lag < Margin
  BY <1>2, TimeFacts, AgeType DEF Lease
<1>4. rx \in Seq(LineEvent) /\ Len(rx) \in Nat /\ \A i \in 1..Len(rx) : rx[i].age \in 0..Lag
  <2>1. rx \in Seq(LineEvent)
    BY DEF IInv, Held, RxInv, Channel
  <2>2. \A i \in 1..Len(rx) : rx[i] \in LineEvent
    BY <2>1, ElementOfSeq
  <2> QED BY <2>1, <2>2, LenProperties DEF LineEvent
<1>5. ASSUME NEW n \in 1..Len(rx), NEW L, Readings(ctl.snapshot, l, rx, L), Prompt(rx, L, n)
      PROVE  l.idle < l.limit
  <2>1. 1 \in 1..n /\ 1 \in 1..Len(rx) /\ 1 - 1 = 0
    BY <1>4
  <2>2. L[0].idle - rx[1].age <= L[0].limit - Margin /\ L[0] = l
    BY <1>5, <2>1 DEF Prompt, Readings
  <2>3. rx[1].age \in 0..Lag
    BY <1>4, <2>1
  <2> DEFINE idle == l.idle
             limit == l.limit
             age == rx[1].age
  <2>4. idle \in Nat /\ limit \in Nat /\ age \in 0..Lag /\ idle - age <= limit - Margin
    BY <1>3, <2>2, <2>3
  <2> HIDE DEF idle, limit, age
  <2>5. idle < limit
    BY <1>3, <2>4
  <2> QED BY <2>5 DEF idle, limit
<1>6. CASE Begun
  BY <1>2, <1>3, <1>6, CommandAssumption DEF Begun
<1>7. CASE Counted
  <2>1. PICK L : /\ Readings(ctl.snapshot, l, rx, L) /\ Prompt(rx, L, Len(rx))
                 /\ L[Len(rx)].idle + dev.homing <= L[Len(rx)].limit - Margin
    BY <1>7 DEF Counted
  <2>2. CASE Len(rx) = 0
    <3>1. l.idle + dev.homing <= l.limit - Margin
      BY <2>1, <2>2 DEF Readings
    <3>2. dev.homing \in Nat
      BY <1>7, AgeType DEF Counted, IInv, Held, DevInv, MachineType
    <3> QED BY <1>3, <3>1, <3>2, CommandAssumption
  <2>3. CASE Len(rx) # 0
    <3>1. Len(rx) \in 1..Len(rx)
      BY <1>4, <2>3
    <3> QED BY <1>5, <2>1, <3>1
  <2> QED BY <2>2, <2>3
<1>8. CASE ReplyInTime
  BY <1>5, <1>8 DEF ReplyInTime
<1>9. CASE Heeded
  BY <1>2, <1>3, <1>9 DEF Heeded
<1> QED BY <1>2, <1>6, <1>7, <1>8, <1>9

\* The heartbeat's debt is never as long as the timeout.
LEMMA BeatInTime ==
  ASSUME InTime, IInv, Heartbeat, ctl.beat # NotSet
  PROVE  ctl.beat < Timeout /\ ctl.beat \in Nat
<1>1. ctl.beat \in Nat
  BY AgeType DEF IInv, Owned, CommandsType
<1>2. /\ clock.upsets \in 0..MaxUpsets /\ MaxUpsets \in Nat /\ Lag \in Nat /\ Timeout \in Nat
      /\ MaxUpsets + Lag < Timeout /\ MaxUpsets + 2 * Lag <= Timeout
  BY SessionAssumption, CommandAssumption DEF Heartbeat, Turns, Clock, InTime
<1>3. Debt \in Nat /\ Debt <= MaxUpsets + (IF Lag = 0 THEN 0 ELSE Lag - 1)
  BY <1>2 DEF Debt
<1>4. CASE Dry
  <2>1. ctl.beat <= Debt
    BY <1>4 DEF Heartbeat, Owed
  <2> QED BY <1>1, <1>2, <1>3, <2>1
<1>5. CASE ~Dry
  <2>1. PICK i \in 1..Len(rx) : ctl.beat - rx[i].age <= Debt
    BY <1>5 DEF Heartbeat, Owed
  <2>2. rx[i].age \in 0..Lag
    <3>1. rx[i] \in LineEvent
      BY ElementOfSeq DEF IInv, Held, RxInv, Channel
    <3> QED BY <3>1 DEF LineEvent
  <2> QED BY <1>1, <1>2, <1>3, <2>1, <2>2
<1> QED BY <1>4, <1>5

LEMMA Responsive ==
  ASSUME InTime, IInv, Flow, Leases, Heartbeat
  PROVE  ~Unresponsive(ctl)
<1>1. CASE ctl.lease # NoLease
  <2>1. ctl.lease.idle < ctl.lease.limit /\ ctl.lease \in Lease
    BY <1>1, LeaseInTime, LeaseOwner
  <2>2. ctl.lease.idle \in Nat /\ ctl.lease.limit \in Nat
    BY <2>1, AgeType DEF Lease
  <2> QED BY <1>1, <2>1, <2>2 DEF Unresponsive
<1>2. CASE ctl.lease = NoLease
  <2>1. ctl.beat # NotSet => ctl.beat < Timeout /\ ctl.beat \in Nat /\ Timeout \in Nat
    BY BeatInTime, AgeType
  <2> QED BY <1>2, <2>1 DEF Unresponsive
<1> QED BY <1>1, <1>2

-----------------------------------------------------------------------------
(* Steps of commands and of the watchdog, and the lease. *)

LEMMA AnnouncedKept ==
  ASSUME Announced, UNCHANGED rx, dev.homing # NotSet => dev'.homing # NotSet
  PROVE  Announced'
BY DEF Announced

LEMMA LeaseAside ==
  ASSUME IInv, Flow, Leases, ctl'.owner = ctl.owner, ctl'.lease = ctl.lease,
         ctl'.snapshot = ctl.snapshot, ctl.lease # NoLease => ctl'.beat = ctl.beat,
         \A t \in Commands : ctl.owner.cmd = t => cmd'[t] = cmd[t],
         UNCHANGED rx, dev'.input = dev.input, dev'.homing = dev.homing, dev'.kind = dev.kind,
         dev'.leg = dev.leg
  PROVE  Leases'
<1>1. Announced'
  BY AnnouncedKept DEF Leases
<1>2. ASSUME NEW t \in Commands, ctl'.owner = OwnerOf(t)'
      PROVE  Leased(t)'
  <2>1. ctl.owner.cmd = t
    BY <1>2 DEF OwnerOf
  <2>2. cmd'[t] = cmd[t] /\ Op(t)' = Op(t) /\ OwnerOf(t)' = OwnerOf(t)
    BY <2>1 DEF Op, OwnerOf
  <2>3. Leased(t)
    BY <1>2, <2>2 DEF Leases
  <2> QED BY <2>2, <2>3 DEF Leased
<1>3. Covered'
  <2> SUFFICES ASSUME ctl.lease # NoLease PROVE Covered'
    BY DEF Covered
  <2>1. ctl.owner.cmd \in Commands /\ cmd'[ctl.owner.cmd] = cmd[ctl.owner.cmd]
    BY LeaseOwner
  <2>2. /\ ctl'.beat = NotSet /\ ctl.lease.limit >= Margin
        /\ Begun \/ Counted \/ ReplyInTime \/ Heeded
    BY DEF Leases, Covered
  <2>3. (Begun => Begun') /\ (Heeded => Heeded')
    BY <2>1 DEF Begun, Heeded
  <2>4. Counted => Counted'
    BY DEF Counted
  <2>5. ReplyInTime => ReplyInTime'
    BY DEF ReplyInTime
  <2> QED BY <2>2, <2>3, <2>4, <2>5 DEF Covered
<1> QED BY <1>1, <1>2, <1>3 DEF Leases

LEMMA LeaseOver ==
  ASSUME Announced', ctl'.lease = NoLease,
         \A t \in Commands : ctl'.owner = OwnerOf(t)' =>
           cmd'[t].pc \in {"prepare", "end"} \/ cmd'[t].line.kind \notin Silent
  PROVE  Leases'
BY DEF Leases, Leased, Covered

LEMMA LeaseHolds ==
  ASSUME Announced', NEW s \in Commands, ctl'.owner = OwnerOf(s)', ctl'.lease # NoLease,
         ctl'.lease.op = Op(s)', ctl'.lease.kind = cmd'[s].line.kind, cmd'[s].line.kind \in Silent,
         cmd'[s].pc \notin {"prepare", "end"}, ctl'.beat = NotSet, ctl'.lease.limit >= Margin,
         Begun' \/ Counted' \/ ReplyInTime' \/ Heeded'
  PROVE  Leases'
<1>1. \A t \in Commands : ctl'.owner = OwnerOf(t)' => t = s
  BY DEF OwnerOf
<1>2. Leased(s)' /\ Covered'
  BY DEF Leased, Covered
<1> QED BY <1>1, <1>2 DEF Leases

LEMMA PreparedLease ==
  ASSUME IInv, Announced, NEW c, Owned(c), c.snapshot # 0, c.lease = NoLease, NEW s \in Commands,
         c.owner = OwnerOf(s), cmd[s].line.kind # "reset",
         ctl' = Prepare(c, Op(s), cmd[s].line), Goes(s, "write"), UNCHANGED <<rx, dev>>
  PROVE  Leases'
<1> DEFINE line == cmd[s].line
<1>1. /\ cmd'[s].pc = "write" /\ cmd'[s].line = line /\ Op(s)' = Op(s) /\ cmd'[s].kind = cmd[s].kind
      /\ line \in Line /\ Op(s) \in Operation
  BY GoesFields, OpType DEF IInv, Held, CmdInv, CommandType
<1> HIDE DEF line
<1>2. /\ ctl'.owner = OwnerOf(s)' /\ ctl'.owner.cmd = s /\ ctl'.snapshot = c.snapshot
  <2>1. ASSUME NEW m \in Line, m.kind # "reset"
        PROVE  Prepare(c, Op(s), m).owner = c.owner /\ Prepare(c, Op(s), m).snapshot = c.snapshot
    BY <2>1, PrepareFields
  <2>2. Prepare(c, Op(s), line).owner = c.owner /\ Prepare(c, Op(s), line).snapshot = c.snapshot
    BY <1>1, <2>1 DEF line
  <2> QED BY <1>1, <2>2 DEF OwnerOf, line
<1>3. Announced'
  BY AnnouncedKept
<1>4. CASE line.kind \in Silent
  <2> DEFINE time == SilentTime(line.kind, c.snapshot, 0, 0)
  <2>1. /\ ctl'.beat = NotSet
        /\ ctl'.lease = [op |-> Op(s), kind |-> line.kind, leg |-> 0, age |-> 0, idle |-> 0,
                         limit |-> time + Margin]
    BY <1>1, <1>4, PrepareTimes DEF line
  <2>2. time \in Nat /\ Margin \in Nat
    BY <1>4, SilentTimeType, AgeType DEF Adjustments, Owned, CommandsType
  <2>3. /\ ctl'.lease.op = Op(s) /\ ctl'.lease.kind = line.kind /\ ctl'.lease.limit = time + Margin
        /\ ctl'.lease.idle = 0 /\ ctl'.lease.age = 0 /\ ctl'.lease.leg = 0
    BY <2>1
  <2>4. Begun'
    BY <1>1, <1>2, <2>3 DEF Begun
  <2> HIDE DEF time
  <2>5. ctl'.lease.limit >= Margin
    BY <2>2, <2>3
  <2>6. ctl'.lease # NoLease
    BY <1>1, <2>3, Bounds DEF NoLease, NoOp, Operation
  <2> QED BY <1>1, <1>2, <1>3, <1>4, <2>1, <2>3, <2>4, <2>5, <2>6, LeaseHolds
<1>5. CASE line.kind \notin Silent
  <2>1. ctl'.lease = NoLease
    BY <1>1, <1>5, PrepareTimes DEF line
  <2>2. \A t \in Commands : ctl'.owner = OwnerOf(t)' => t = s
    BY <1>2 DEF OwnerOf
  <2> QED BY <1>1, <1>3, <1>5, <2>1, <2>2, LeaseOver
<1> QED BY <1>4, <1>5

LEMMA IssueLeases ==
  ASSUME IInv, Flow, Leases, NEW s \in Commands, Issue(s)
  PROVE  Leases'
<1>1. ctl.owner.cmd # s
  BY NotOwner DEF Issue, NoCommand
<1>2. \A t \in Commands : t # s => cmd'[t] = cmd[t]
  BY DEF Issue, IInv, Held, CmdInv
<1>3. Owned(ctl) /\ ctl' = [ctl EXCEPT !.waiters = @ \cup {s}] /\ UNCHANGED <<rx, dev>>
  BY DEF Issue, IInv
<1>4. /\ ctl'.owner = ctl.owner /\ ctl'.snapshot = ctl.snapshot
      /\ ctl'.lease = ctl.lease /\ ctl'.beat = ctl.beat
  BY <1>3, SmallSteps, StillSteps DEF SameFlow
<1> QED BY <1>1, <1>2, <1>3, <1>4, LeaseAside

\* Whom Admit makes the owner can prepare its line: nobody left anything behind.
LEMMA AdmitCases ==
  ASSUME IInv, Flow, NEW s \in Commands, Admit(s)
  PROVE  LET owned == [Registered(s) EXCEPT !.owner = OwnerOf(s)] IN
         /\ UNCHANGED <<rx, dev, clock>> /\ cmd[s].pc = "admission" /\ cmd[s].line.kind # "reset"
         /\ ctl.owner.cmd # s /\ ctl.write # "poll"
         /\ \/ ctl.owner # NoOwner /\ ctl' = Registered(s) /\ Goes(s, "done")
            \/ /\ ctl.owner = NoOwner /\ Owned(owned) /\ owned.owner = OwnerOf(s)
               /\ owned.snapshot = ctl.snapshot /\ owned.lease = NoLease /\ ctl.lease = NoLease
               /\ owned.beat = ctl.beat /\ owned.waiters = ctl.waiters \ {s}
               /\ \/ ctl' = owned /\ Goes(s, "prepare")
                  \/ ctl' = Prepare(owned, Op(s), cmd[s].line) /\ Goes(s, "write")
<1> DEFINE x == cmd[s]
           registered == Registered(s)
           owned == [registered EXCEPT !.owner = OwnerOf(s)]
<1>1. /\ cmd[s].pc = "admission" /\ ctl.write # "poll" /\ UNCHANGED <<rx, dev, clock>>
      /\ cmd[s].line.kind # "reset" /\ cmd[s].kind # "reset"
  BY OwnerFacts DEF Admit, Waiting
<1>2. ctl.owner.cmd # s
  BY <1>1, NotOwner
<1>3. /\ Owned(ctl) /\ Owned(registered) /\ SameFlow(ctl, registered) /\ registered.lease = ctl.lease
      /\ registered.beat = ctl.beat /\ registered.waiters = ctl.waiters \ {s}
  <2>1. Owned(ctl) /\ registered = [ctl EXCEPT !.waiters = @ \ {s}]
    BY DEF Registered, IInv
  <2>2. Owned(registered) /\ SameFlow(ctl, registered)
    BY RegisterOwned, SmallSteps DEF Registered, IInv
  <2> HIDE DEF registered
  <2> QED BY <2>1, <2>2, StillSteps
<1>4. CASE ~AdmitsOwner(ctl, x.kind)
  <2>1. ctl' = registered /\ Goes(s, "done")
    BY <1>4 DEF Admit
  <2>2. ctl.owner # NoOwner
    <3>1. ctl.estop = "clear" /\ ctl.write = "none"
      BY <1>1, OwnerFacts DEF Owned, CommandsType
    <3> QED BY <1>4, <3>1 DEF AdmitsOwner
  <2> QED BY <1>1, <1>2, <2>1, <2>2
<1>5. CASE AdmitsOwner(ctl, x.kind)
  <2>1. ctl.owner = NoOwner
    BY <1>5 DEF AdmitsOwner
  <2>2. ctl.lease = NoLease /\ ctl.mutation = NoMutation
    BY <1>3, <2>1, Nobody, Bounds DEF NoOwner
  <2>3. Owned(owned)
    <3>1. OwnerOf(s) \in Owner
      BY DEF OwnerOf, Owner
    <3> QED BY <1>3, <2>1, <3>1, AcquireOwned DEF SameFlow
  <2> HIDE DEF registered
  <2>4. /\ owned.owner = OwnerOf(s) /\ owned.snapshot = ctl.snapshot /\ owned.lease = NoLease
        /\ owned.mutation = NoMutation /\ owned.beat = ctl.beat /\ owned.waiters = ctl.waiters \ {s}
    BY <1>3, <2>2 DEF SameFlow, Owned, CommandsType
  <2>5. ~PrepareFails(owned, x.line)
    BY <2>4 DEF PrepareFails
  <2>6. \/ ctl' = owned /\ Goes(s, "prepare")
        \/ ctl' = Prepare(owned, Op(s), cmd[s].line) /\ Goes(s, "write")
    BY <1>5, <2>5 DEF Admit, OwnerOf, registered
  <2> QED BY <1>1, <1>2, <2>1, <2>2, <2>3, <2>4, <2>6 DEF registered
<1> QED BY <1>4, <1>5

LEMMA AdmitLeases ==
  ASSUME IInv, Flow, Leases, NEW s \in Commands, Admit(s)
  PROVE  Leases'
<1> DEFINE owned == [Registered(s) EXCEPT !.owner = OwnerOf(s)]
<1>1. /\ UNCHANGED <<rx, dev>> /\ ctl.owner.cmd # s /\ CmdInv /\ Owned(ctl) /\ ctl.snapshot # 0
      /\ cmd[s].line.kind # "reset"
  BY AdmitCases, OwnerFacts
<1>2. \/ ctl' = Registered(s) /\ Goes(s, "done")
      \/ /\ Owned(owned) /\ owned.owner = OwnerOf(s) /\ owned.snapshot = ctl.snapshot
         /\ owned.lease = NoLease
         /\ \/ ctl' = owned /\ Goes(s, "prepare")
            \/ ctl' = Prepare(owned, Op(s), cmd[s].line) /\ Goes(s, "write")
  BY AdmitCases
<1> HIDE DEF owned
<1>3. CASE ctl' = Registered(s) /\ Goes(s, "done")
  <2>1. \A t \in Commands : t # s => cmd'[t] = cmd[t]
    BY <1>1, <1>3, GoesFields
  <2>2. /\ ctl'.owner = ctl.owner /\ ctl'.snapshot = ctl.snapshot
        /\ ctl'.lease = ctl.lease /\ ctl'.beat = ctl.beat
    BY <1>1, <1>3, SmallSteps, StillSteps DEF Registered, SameFlow
  <2> QED BY <1>1, <2>1, <2>2, LeaseAside
<1>4. CASE ctl' = owned /\ owned.owner = OwnerOf(s) /\ owned.lease = NoLease /\ Goes(s, "prepare")
  <2>1. cmd'[s].pc = "prepare"
    BY <1>1, <1>4, GoesFields
  <2>2. \A t \in Commands : ctl'.owner = OwnerOf(t)' => t = s
    BY <1>4 DEF OwnerOf
  <2> QED BY <1>1, <1>4, <2>1, <2>2, AnnouncedKept, LeaseOver DEF Leases
<1>5. CASE /\ Owned(owned) /\ owned.owner = OwnerOf(s) /\ owned.snapshot = ctl.snapshot
           /\ owned.lease = NoLease
           /\ ctl' = Prepare(owned, Op(s), cmd[s].line) /\ Goes(s, "write")
  BY <1>1, <1>5, PreparedLease DEF Leases
<1> QED BY <1>2, <1>3, <1>4, <1>5

LEMMA PrepareLineCases ==
  ASSUME IInv, Flow, Leases, NEW s \in Commands, PrepareLine(s)
  PROVE  /\ UNCHANGED <<rx, dev, clock>> /\ cmd[s].pc = "prepare" /\ ctl.owner = OwnerOf(s)
         /\ ctl.lease = NoLease /\ cmd[s].line.kind # "reset" /\ Goes(s, "write")
         /\ \/ UNCHANGED ctl /\ cmd[s].line.kind = "move"
            \/ ctl' = Prepare(ctl, Op(s), cmd[s].line)
<1>1. cmd[s].pc = "prepare" /\ UNCHANGED <<rx, dev, clock>>
  BY DEF PrepareLine
<1>2. ctl.owner = OwnerOf(s) /\ Between(s)
  BY <1>1, OwnsFlow DEF Inside, Writing, Awaiting, Between
<1>3. ctl.lease = NoLease /\ ctl.mutation = NoMutation /\ ctl.owner = [kind |-> "macro", cmd |-> s]
  BY <1>1, <1>2 DEF Leases, Leased, Between, OwnerOf
<1>4. ~PrepareFails(ctl, cmd[s].line)
  BY <1>3 DEF PrepareFails
<1> QED BY <1>1, <1>2, <1>3, <1>4, OwnerFacts DEF PrepareLine

LEMMA PrepareLineLeases ==
  ASSUME IInv, Flow, Leases, NEW s \in Commands, PrepareLine(s)
  PROVE  Leases'
<1>1. /\ UNCHANGED <<rx, dev>> /\ ctl.owner = OwnerOf(s) /\ ctl.lease = NoLease
      /\ cmd[s].line.kind # "reset" /\ Goes(s, "write") /\ Owned(ctl) /\ ctl.snapshot # 0
      /\ \/ UNCHANGED ctl /\ cmd[s].line.kind = "move"
         \/ ctl' = Prepare(ctl, Op(s), cmd[s].line)
  BY PrepareLineCases, OwnerFacts
<1>2. CASE UNCHANGED ctl /\ cmd[s].line.kind = "move"
  <2>1. cmd'[s].line.kind \notin Silent /\ \A t \in Commands : ctl'.owner = OwnerOf(t)' => t = s
    BY <1>1, <1>2, GoesFields, OwnerFacts DEF OwnerOf, Silent
  <2> QED BY <1>1, <1>2, <2>1, AnnouncedKept, LeaseOver DEF Leases
<1>3. CASE ctl' = Prepare(ctl, Op(s), cmd[s].line)
  BY <1>1, <1>3, PreparedLease DEF Leases
<1> QED BY <1>1, <1>2, <1>3

LEMMA WriteLineCases ==
  ASSUME IInv, Flow, NEW s \in Commands, WriteLine(s)
  PROVE  /\ UNCHANGED <<ctl, rx, clock>> /\ cmd[s].pc = "write" /\ ctl.owner = OwnerOf(s) /\ Writing(s)
         /\ cmd'[s].pc \in {"wait", "done"} /\ cmd'[s].line = cmd[s].line /\ cmd'[s].kind = cmd[s].kind
         /\ cmd'[s].rxCh = <<>> /\ Op(s)' = Op(s) /\ \A t \in Commands : t # s => cmd'[t] = cmd[t]
         /\ dev'.input # <<>> /\ dev'.homing = dev.homing /\ dev'.ask = dev.ask
<1> DEFINE x == cmd[s]
           input == [cmd |-> s, at |-> x.at, line |-> x.line]
           pc == IF x.kind = "macro" THEN "wait" ELSE "done"
<1>1. x.pc = "write" /\ UNCHANGED <<ctl, rx, clock>> /\ Goes(s, pc)
  BY DEF WriteLine
<1>2. ctl.owner = OwnerOf(s) /\ Writing(s)
  BY <1>1, OwnsFlow DEF Inside, Writing, Awaiting, Between
<1>3. /\ cmd'[s].pc = pc /\ Op(s)' = Op(s) /\ cmd'[s].line = x.line /\ cmd'[s].kind = x.kind
      /\ cmd'[s].rxCh = <<>> /\ \A t \in Commands : t # s => cmd'[t] = cmd[t]
  BY <1>1, <1>2, GoesFields, OwnerFacts DEF Writing
<1>4. dev' = [dev EXCEPT !.input = <<input>>]
  <2>1. dev.input = <<>> /\ dev.alive
    BY <1>2, OwnerFacts DEF Writing, Idle
  <2>2. Append(<<>>, input) = <<input>>
    OBVIOUS
  <2> QED BY <2>1, <2>2 DEF WriteLine
<1>5. dev'.input = <<input>> /\ dev'.homing = dev.homing /\ dev'.ask = dev.ask
  <2> HIDE DEF input
  <2> QED BY <1>4 DEF IInv, Held, DevInv, MachineType
<1>6. <<input>> # <<>>
  OBVIOUS
<1> QED BY <1>1, <1>2, <1>3, <1>5, <1>6

LEMMA WriteLineLeases ==
  ASSUME IInv, Flow, Leases, NEW s \in Commands, WriteLine(s)
  PROVE  Leases'
<1>1. /\ UNCHANGED <<ctl, rx>> /\ cmd[s].pc = "write" /\ ctl.owner = OwnerOf(s)
      /\ cmd'[s].pc \in {"wait", "done"} /\ cmd'[s].line = cmd[s].line /\ cmd'[s].kind = cmd[s].kind
      /\ Op(s)' = Op(s) /\ dev'.input # <<>> /\ dev'.homing = dev.homing
  BY WriteLineCases
<1>2. Announced' /\ OwnerOf(s)' = OwnerOf(s)
  BY <1>1, AnnouncedKept DEF Leases, OwnerOf
<1>3. CASE ctl.lease = NoLease
  <2>1. cmd[s].line.kind \notin Silent
    BY <1>1, <1>3 DEF Leases, Leased
  <2>2. \A t \in Commands : ctl'.owner = OwnerOf(t)' => t = s
    BY <1>1 DEF OwnerOf
  <2> QED BY <1>1, <1>2, <1>3, <2>1, <2>2, LeaseOver
<1>4. CASE ctl.lease # NoLease
  <2>1. /\ ctl.lease.op = Op(s) /\ ctl.lease.kind = cmd[s].line.kind /\ cmd[s].line.kind \in Silent
        /\ ctl.beat = NotSet /\ ctl.lease.limit >= Margin
    BY <1>1, <1>4, LeaseStage
  <2>2. Begun
    BY <1>1, <1>4, LeaseStage DEF Awaiting
  <2>3. Begun'
    BY <1>1, <2>2 DEF Begun
  <2> QED BY <1>1, <1>2, <1>4, <2>1, <2>3, LeaseHolds
<1> QED BY <1>3, <1>4

\* A lease is of the line its owner waits for: clearing that clears the lease.
LEMMA OnlyLease ==
  ASSUME IInv, Flow, Leases, NEW s \in Commands, ctl.owner = OwnerOf(s)
  PROVE  ctl.lease = NoLease \/ ctl.lease.op = Op(s)
BY LeaseStage

LEMMA WriteLineFailsCases ==
  ASSUME IInv, Flow, Leases, NEW s \in Commands, WriteLineFails(s)
  PROVE  /\ UNCHANGED <<rx, dev>> /\ cmd[s].pc = "write" /\ CountUpset /\ clock.upsets < MaxUpsets
         /\ ctl'.lease = NoLease /\ ctl'.beat = ctl.beat /\ ctl'.waiters = ctl.waiters
         /\ ctl'.write = ctl.write
         /\ \/ Goes(s, "end") /\ ctl'.owner = OwnerOf(s)
            \/ Goes(s, "done") /\ ctl'.owner = NoOwner
<1> DEFINE cleared == ClearPreparation(ctl, Op(s))
<1>1. cmd[s].pc = "write" /\ UNCHANGED <<rx, dev>> /\ CountUpset /\ clock.upsets < MaxUpsets
  BY DEF WriteLineFails, Upset
<1>2. ctl.owner = OwnerOf(s)
  BY <1>1, OwnsFlow DEF Inside
<1>3. /\ Owned(cleared) /\ cleared.owner = OwnerOf(s) /\ cleared.lease = NoLease
      /\ cleared.beat = ctl.beat /\ cleared.waiters = ctl.waiters /\ cleared.write = ctl.write
  BY <1>2, OnlyLease, OwnerFacts, ClearOwned, ClearFields, StillSteps
<1>4. \/ ctl' = cleared /\ Goes(s, "end")
      \/ ctl' = ReleaseOwner(cleared, s) /\ Goes(s, "done")
  BY DEF WriteLineFails
<1> HIDE DEF cleared
<1>5. cleared.owner.cmd = s
  BY <1>3 DEF OwnerOf
<1>6. LET d == ReleaseOwner(cleared, s) IN
      /\ d.owner = NoOwner /\ d.lease = NoLease /\ d.beat = cleared.beat
      /\ d.waiters = cleared.waiters /\ d.write = cleared.write
  BY <1>3, <1>5, ReleaseFields, ReleaseTimes
<1> QED BY <1>1, <1>3, <1>4, <1>6

LEMMA WriteLineFailsLeases ==
  ASSUME IInv, Flow, Leases, NEW s \in Commands, WriteLineFails(s)
  PROVE  Leases'
<1>1. /\ UNCHANGED <<rx, dev>> /\ ctl'.lease = NoLease
      /\ \/ Goes(s, "end") /\ ctl'.owner = OwnerOf(s)
         \/ Goes(s, "done") /\ ctl'.owner = NoOwner
  BY WriteLineFailsCases
<1>2. Announced'
  BY <1>1, AnnouncedKept DEF Leases
<1>3. ASSUME NEW t \in Commands, ctl'.owner = OwnerOf(t)' PROVE cmd'[t].pc = "end"
  <2>1. ctl'.owner # NoOwner
    BY <1>3, Bounds DEF OwnerOf, NoOwner
  <2>2. t = s
    BY <1>1, <1>3, <2>1 DEF OwnerOf
  <2> QED BY <1>1, <2>1, <2>2, GoesFields, OwnerFacts
<1> QED BY <1>1, <1>2, <1>3, LeaseOver

\* What TakeOK and TakeFailure do to the clock.
LEMMA TakesCases ==
  ASSUME IInv, Flow, Leases, NEW s \in Commands, TakeOK(s) \/ TakeFailure(s)
  PROVE  /\ UNCHANGED <<rx, dev, clock>> /\ cmd[s].pc = "wait" /\ cmd[s].rxCh # <<>>
         /\ ctl.owner = OwnerOf(s) /\ ctl'.owner = OwnerOf(s) /\ ctl'.lease = NoLease
         /\ ctl'.beat = ctl.beat /\ ctl'.waiters = ctl.waiters /\ ctl'.write = ctl.write
         /\ cmd'[s].pc \in {"prepare", "end"} /\ cmd'[s].kind = cmd[s].kind
         /\ \A t \in Commands : t # s => cmd'[t] = cmd[t]
<1>1. /\ UNCHANGED <<rx, dev, clock>> /\ cmd[s].pc = "wait" /\ cmd[s].rxCh # <<>>
  BY OwnerFacts DEF TakeOK, TakeFailure
<1>2. ctl.owner = OwnerOf(s)
  BY <1>1, OwnsFlow DEF Inside
<1>3. PICK c \in {ctl, CommitMutation(ctl, Op(s))} : ctl' = ClearPreparation(c, Op(s))
  BY DEF TakeOK, TakeFailure
<1>4. /\ Owned(c) /\ c.owner = ctl.owner /\ c.lease = ctl.lease /\ c.beat = ctl.beat
      /\ c.waiters = ctl.waiters /\ c.write = ctl.write
  <2>1. Owned(ctl) /\ ctl.snapshot # 0
    BY OwnerFacts
  <2> QED BY <2>1, CommitOwned, CommitFields, CommitTimes DEF SameTimes
<1>5. /\ ctl'.owner = OwnerOf(s) /\ ctl'.lease = NoLease
      /\ ctl'.beat = ctl.beat /\ ctl'.waiters = ctl.waiters /\ ctl'.write = ctl.write
  BY <1>2, <1>3, <1>4, OnlyLease, ClearFields, StillSteps
<1>6. /\ cmd'[s].pc \in {"prepare", "end"} /\ cmd'[s].kind = cmd[s].kind
      /\ \A t \in Commands : t # s => cmd'[t] = cmd[t]
  <2>1. CASE TakeFailure(s)
    BY <2>1, GoesFields, OwnerFacts DEF TakeFailure
  <2>2. CASE TakeOK(s)
    <3> DEFINE answered == [cmd[s] EXCEPT !.rxCh = Tail(@), !.pc = "end"]
    <3>1. cmd[s] \in CommandType /\ cmd \in [Commands -> CommandType]
      BY DEF IInv, Held, CmdInv
    <3>2. \/ cmd' = [cmd EXCEPT ![s] = answered]
          \/ \E line \in Offered :
               cmd' = [cmd EXCEPT ![s] = [answered EXCEPT !.pc = "prepare", !.at = @ + 1, !.line = line]]
      BY <2>2 DEF TakeOK
    <3>3. CASE cmd' = [cmd EXCEPT ![s] = answered]
      BY <3>1, <3>3 DEF CommandType
    <3>4. ASSUME NEW line \in Offered,
                 cmd' = [cmd EXCEPT ![s] = [answered EXCEPT !.pc = "prepare", !.at = @ + 1, !.line = line]]
          PROVE  /\ cmd'[s].pc = "prepare" /\ cmd'[s].kind = cmd[s].kind
                 /\ \A t \in Commands : t # s => cmd'[t] = cmd[t]
      BY <3>1, <3>4 DEF CommandType
    <3> QED BY <3>2, <3>3, <3>4
  <2> QED BY <2>1, <2>2
<1> QED BY <1>1, <1>2, <1>5, <1>6

LEMMA TakesLineLeases ==
  ASSUME IInv, Flow, Leases, NEW s \in Commands, TakeOK(s) \/ TakeFailure(s)
  PROVE  Leases'
<1>1. /\ UNCHANGED <<rx, dev>> /\ ctl'.owner = OwnerOf(s) /\ ctl'.lease = NoLease
      /\ cmd'[s].pc \in {"prepare", "end"}
  BY TakesCases
<1>2. \A t \in Commands : ctl'.owner = OwnerOf(t)' => t = s
  BY <1>1 DEF OwnerOf
<1> QED BY <1>1, <1>2, AnnouncedKept, LeaseOver DEF Leases

LEMMA EndSessionCases ==
  ASSUME IInv, Flow, NEW s \in Commands, EndSession(s)
  PROVE  /\ UNCHANGED <<rx, dev, clock>> /\ cmd[s].pc = "end" /\ Goes(s, "done")
         /\ ctl'.owner = NoOwner /\ ctl'.lease = NoLease /\ ctl'.beat = ctl.beat
         /\ ctl'.waiters = ctl.waiters /\ ctl'.write = ctl.write
<1>1. cmd[s].pc = "end" /\ UNCHANGED <<rx, dev, clock>> /\ Goes(s, "done")
  BY DEF EndSession
<1>2. ctl.owner = OwnerOf(s) /\ Between(s) /\ ctl.owner.cmd = s
  BY <1>1, OwnsFlow DEF Inside, Writing, Awaiting, Between, OwnerOf
<1>3. ctl' = ReleaseOwner(ctl, s)
  BY <1>2 DEF EndSession, OwnerOf, Between
<1> QED BY <1>1, <1>2, <1>3, OwnerFacts, ReleaseFields, ReleaseTimes

LEMMA EndSessionLeases ==
  ASSUME IInv, Flow, Leases, NEW s \in Commands, EndSession(s)
  PROVE  Leases'
<1>1. UNCHANGED <<rx, dev>> /\ ctl'.owner = NoOwner /\ ctl'.lease = NoLease
  BY EndSessionCases
<1>2. \A t \in Commands : ctl'.owner # OwnerOf(t)'
  BY <1>1, Bounds DEF OwnerOf, NoOwner
<1> QED BY <1>1, <1>2, AnnouncedKept, LeaseOver DEF Leases

LEMMA MonitorLeases ==
  ASSUME InTime, IInv, Flow, Leases, Heartbeat, Monitor
  PROVE  Leases'
<1>1. Owned(ctl)
  BY DEF IInv
<1>2. CASE PollRefused
  BY <1>2, LeaseAside DEF PollRefused
<1>3. CASE PollAdmitted
  <2>1. ctl.lease = NoLease /\ ctl' = BeginPoll(ctl) /\ UNCHANGED <<cmd, rx, dev>>
    BY <1>3 DEF PollAdmitted, AdmitsPoll
  <2>2. ctl'.owner = ctl.owner /\ ctl'.snapshot = ctl.snapshot /\ ctl'.lease = ctl.lease
    BY <1>1, <2>1, SmallSteps, StillSteps DEF SameFlow
  <2> QED BY <2>1, <2>2, LeaseAside
<1>4. CASE WritePoll
  <2>1. ctl' = [ctl EXCEPT !.write = "none"] /\ UNCHANGED <<cmd, rx>>
    BY <1>4 DEF WritePoll
  <2>2. /\ ctl'.owner = ctl.owner /\ ctl'.snapshot = ctl.snapshot /\ ctl'.lease = ctl.lease
        /\ ctl'.beat = ctl.beat
    BY <1>1, <2>1, SmallSteps, StillSteps DEF SameFlow, SameTimes
  <2>3. /\ dev'.input = dev.input /\ dev'.homing = dev.homing /\ dev'.kind = dev.kind
        /\ dev'.leg = dev.leg
    BY <1>4 DEF WritePoll, IInv, Held, DevInv, MachineType
  <2> QED BY <2>1, <2>2, <2>3, LeaseAside
<1>5. CASE CheckWatchdog
  BY <1>5, Responsive, LeaseAside DEF CheckWatchdog
<1> QED BY <1>2, <1>3, <1>4, <1>5 DEF Monitor

-----------------------------------------------------------------------------
(* The machine, the bridge, time, and the lease. *)

LEMMA ChannelFacts ==
  ASSUME IInv
  PROVE  /\ rx \in Seq(LineEvent) /\ Len(rx) \in Nat
         /\ \A i \in 1..Len(rx) : rx[i] \in LineEvent /\ rx[i].age \in 0..Lag /\ rx[i].age \in Nat
<1>1. rx \in Seq(LineEvent)
  BY DEF IInv, Held, RxInv, Channel
<1>2. \A i \in 1..Len(rx) : rx[i] \in LineEvent
  BY <1>1, ElementOfSeq
<1> QED BY <1>1, <1>2, LenProperties, Bounds DEF LineEvent

LEMMA Said ==
  ASSUME IInv, NEW text \in Text, NEW op \in Answered, Says(text, op)
  PROVE  LET e == [text |-> text, age |-> 0, op |-> op] IN
         /\ e \in LineEvent /\ e.text = text /\ e.age = 0 /\ rx' = Append(rx, e)
         /\ Len(rx') = Len(rx) + 1 /\ Len(rx') \in 1..Len(rx') /\ rx'[Len(rx')] = e
         /\ \A i \in 1..Len(rx) : rx'[i] = rx[i]
         /\ \A i \in 1..Len(rx') : i = Len(rx') \/ i \in 1..Len(rx)
<1> DEFINE e == [text |-> text, age |-> 0, op |-> op]
<1>1. e \in LineEvent /\ e.text = text /\ e.age = 0 /\ rx' = Append(rx, e)
  BY Bounds DEF LineEvent, Says
<1> HIDE DEF e
<1>2. Len(rx) \in Nat /\ Len(rx') = Len(rx) + 1 /\ rx'[Len(rx) + 1] = e
      /\ \A i \in 1..Len(rx) : rx'[i] = rx[i]
  BY <1>1, ChannelFacts, AppendProperties
<1> QED BY <1>1, <1>2 DEF e

LEMMA ReplyIsNoProgress ==
  ASSUME NEW text \in Reply
  PROVE  text \in Text /\ text \notin Progress
BY DEF Reply, Text, Progress

LEMMA NoProgress ==
  ASSUME Announced, dev.homing = NotSet, Clean(rx)
  PROVE  \A i \in 1..Len(rx) : rx[i].text \notin Progress
BY DEF Announced, Clean

LEMMA AnnouncedReply ==
  ASSUME IInv, NEW text \in Reply, NEW op \in Answered, Says(text, op)
  PROVE  Announced'
<1>1. /\ Len(rx) \in Nat /\ Len(rx') = Len(rx) + 1 /\ Len(rx') \in 1..Len(rx')
      /\ rx'[Len(rx')].text = text
      /\ \A i \in 1..Len(rx') : i = Len(rx') \/ i \in 1..Len(rx)
  BY ReplyIsNoProgress, Said, ChannelFacts
<1>2. \A i \in 1..Len(rx') : rx'[i].text \in Progress => i < Len(rx')
  BY <1>1, ReplyIsNoProgress
<1> QED BY <1>1, <1>2 DEF Announced

LEMMA AnnouncedRemark ==
  ASSUME IInv, Announced, NEW text \in Text \ Progress, NEW op \in Answered, Says(text, op),
         dev'.homing = dev.homing
  PROVE  Announced'
<1>1. /\ Len(rx) \in Nat /\ Len(rx') = Len(rx) + 1 /\ Len(rx') \in 1..Len(rx')
      /\ rx'[Len(rx')].text = text /\ \A i \in 1..Len(rx) : rx'[i] = rx[i]
      /\ \A i \in 1..Len(rx') : i = Len(rx') \/ i \in 1..Len(rx)
  BY Said, ChannelFacts
<1>2. 1..Len(rx) \subseteq 1..Len(rx')
  BY <1>1
<1> QED BY <1>1, <1>2 DEF Announced

\* A lease that has just begun reads the channel unchanged.
LEMMA BegunReadings ==
  ASSUME IInv, ctl.lease \in Lease, ctl.lease.limit >= Margin, Begun, Announced,
         dev.homing = NotSet, Clean(rx)
  PROVE  \E L \in [0..Len(rx) -> Lease] :
           /\ Readings(ctl.snapshot, ctl.lease, rx, L) /\ Prompt(rx, L, Len(rx))
           /\ L[Len(rx)] = ctl.lease
<1> DEFINE L == [i \in 0..Len(rx) |-> ctl.lease]
<1>1. ctl.lease.idle = 0 /\ \A i \in 1..Len(rx) : rx[i].text \notin Progress
  BY NoProgress DEF Begun
<1>2. Readings(ctl.snapshot, ctl.lease, rx, L) /\ Prompt(rx, L, Len(rx))
  BY <1>1, ChannelFacts, FreshReadings, Bounds
<1>3. L \in [0..Len(rx) -> Lease] /\ L[Len(rx)] = ctl.lease
  BY ChannelFacts
<1> QED BY <1>2, <1>3

LEMMA ReplySaid ==
  ASSUME IInv, InTime, UNCHANGED ctl, ctl.lease \in Lease, NEW text \in Reply, NEW op \in Answered,
         Says(text, op), NEW L \in [0..Len(rx) -> Lease],
         Readings(ctl.snapshot, ctl.lease, rx, L), Prompt(rx, L, Len(rx)),
         L[Len(rx)].idle <= L[Len(rx)].limit - Margin
  PROVE  ReplyInTime'
<1> DEFINE e == [text |-> text, age |-> 0, op |-> op]
           h == Heard(ctl.snapshot, L[Len(rx)], e)
           M == [i \in 0..Len(Append(rx, e)) |-> IF i <= Len(rx) THEN L[i] ELSE h]
<1>1. /\ e \in LineEvent /\ e.text = text /\ e.age = 0 /\ rx' = Append(rx, e)
      /\ Len(rx') \in 1..Len(rx') /\ rx'[Len(rx')] = e
  BY ReplyIsNoProgress, Said
<1> HIDE DEF e
<1>2. L[Len(rx)].idle \in Nat /\ Len(rx) \in Nat
  <2>1. Len(rx) \in 0..Len(rx)
    BY ChannelFacts
  <2> QED BY <2>1, ChannelFacts, AgeType DEF Lease
<1>3. L[Len(rx)].idle - e.age <= L[Len(rx)].limit - Margin
  BY <1>1, <1>2
<1>4. ctl.snapshot \in 0..MaxValue /\ Lag \in Nat
  BY Bounds DEF IInv, Owned, CommandsType
<1>5. Readings(ctl.snapshot, ctl.lease, rx', M) /\ Prompt(rx', M, Len(rx'))
  <2>1. rx \in Seq(LineEvent)
    BY ChannelFacts
  <2>2. /\ Readings(ctl.snapshot, ctl.lease, Append(rx, e), M)
        /\ Prompt(Append(rx, e), M, Len(Append(rx, e)))
    <3>1. ASSUME NEW d \in LineEvent, L[Len(rx)].idle - d.age <= L[Len(rx)].limit - Margin
          PROVE  LET g == Heard(ctl.snapshot, L[Len(rx)], d)
                     q == Append(rx, d)
                     N == [i \in 0..Len(q) |-> IF i <= Len(rx) THEN L[i] ELSE g]
                 IN  Readings(ctl.snapshot, ctl.lease, q, N) /\ Prompt(q, N, Len(q))
      BY <1>4, <2>1, <3>1, AppendReadings
    <3> QED BY <1>1, <1>3, <3>1
  <2> HIDE DEF M
  <2> QED BY <1>1, <2>2
<1>6. rx'[Len(rx')].text \in Reply /\ rx'[Len(rx')].age <= ctl.lease.age
  <2>1. ctl.lease.age \in Nat
    BY AgeType DEF Lease
  <2> QED BY <1>1, <2>1
<1> HIDE DEF M
<1> QED BY <1>1, <1>5, <1>6 DEF ReplyInTime, Readings

LEMMA TakenCases ==
  ASSUME Undisturbed, IInv, Flow, Takes
  PROVE  \E s \in Commands :
           LET line == cmd[s].line IN
           /\ ctl.owner = OwnerOf(s) /\ Awaiting(s) /\ Sent(s) /\ UNCHANGED <<ctl, cmd>>
           /\ dev.homing = NotSet
           /\ \/ /\ line.kind \in Silent /\ UNCHANGED <<rx, clock>> /\ dev'.homing # NotSet
                 /\ dev'.homing = SilentTime(line.kind, dev.setting, 0, 0)
                 /\ dev'.kind = line.kind /\ dev'.leg = 0
              \/ line.kind \notin Silent /\ Says("ok", Op(s)) /\ UNCHANGED clock
              \/ /\ Says("error", Op(s))
                 /\ UNCHANGED clock \/ (CountUpset /\ clock.upsets < MaxUpsets)
<1>1. dev.input # <<>> /\ dev.homing = NotSet /\ UNCHANGED <<ctl, cmd>>
  BY DEF Takes, Serving
<1>2. PICK s \in Commands : /\ ctl.owner = OwnerOf(s) /\ Awaiting(s)
                            /\ Sent(s) \/ Homing(s) \/ Replied(s)
  BY <1>1, OnTheWay DEF Idle
<1>3. Sent(s)
  BY <1>1, <1>2 DEF Homing, Replied
<1> DEFINE line == cmd[s].line
           taken == [dev EXCEPT !.input = Tail(@)]
<1>4. Head(dev.input) = [cmd |-> s, at |-> cmd[s].at, line |-> line] /\ line.kind # "reset"
  BY <1>3, OwnerFacts DEF Sent
<1>5. [cmd |-> Head(dev.input).cmd, at |-> Head(dev.input).at] = Op(s) /\ Head(dev.input).line = line
  BY <1>4 DEF Op
<1> HIDE DEF line
<1>6. \/ /\ line.kind \in Silent /\ UNCHANGED <<rx, clock>>
         /\ dev' = [taken EXCEPT !.homing = SilentTime(line.kind, dev.setting, 0, 0), !.op = Op(s),
                                 !.kind = line.kind, !.leg = 0, !.alarm = FALSE]
      \/ line.kind \notin Silent /\ Says("ok", Op(s)) /\ UNCHANGED clock
      \/ Says("error", Op(s)) /\ (UNCHANGED clock \/ (CountUpset /\ clock.upsets < MaxUpsets))
  BY <1>4, <1>5 DEF Takes, Upset
<1>7. CASE /\ line.kind \in Silent /\ UNCHANGED <<rx, clock>>
           /\ dev' = [taken EXCEPT !.homing = SilentTime(line.kind, dev.setting, 0, 0), !.op = Op(s),
                                   !.kind = line.kind, !.leg = 0, !.alarm = FALSE]
  <2> DEFINE time == SilentTime(line.kind, dev.setting, 0, 0)
  <2>1. dev \in MachineType
    BY DEF IInv, Held, DevInv
  <2>2. time # NotSet
    <3>1. time \in Age
      BY <1>7, <2>1, SilenceType DEF MachineType, Adjustments
    <3> QED BY <3>1, AgeType
  <2> HIDE DEF time
  <2>3. dev' = [taken EXCEPT !.homing = time, !.op = Op(s), !.kind = line.kind, !.leg = 0,
                             !.alarm = FALSE]
    BY <1>7 DEF time
  <2>4. dev'.homing = time /\ dev'.kind = line.kind /\ dev'.leg = 0
    BY <2>1, <2>3 DEF MachineType
  <2> QED BY <1>1, <1>2, <1>3, <1>7, <2>2, <2>4 DEF line, time
<1> QED BY <1>1, <1>2, <1>3, <1>6, <1>7 DEF line

LEMMA TakesLeases ==
  ASSUME InTime, Undisturbed, IInv, Flow, Leases, Takes
  PROVE  Leases'
<1>1. PICK s \in Commands :
           LET line == cmd[s].line IN
           /\ ctl.owner = OwnerOf(s) /\ Awaiting(s) /\ Sent(s) /\ UNCHANGED <<ctl, cmd>>
           /\ dev.homing = NotSet
           /\ \/ /\ line.kind \in Silent /\ UNCHANGED <<rx, clock>> /\ dev'.homing # NotSet
                 /\ dev'.homing = SilentTime(line.kind, dev.setting, 0, 0)
                 /\ dev'.kind = line.kind /\ dev'.leg = 0
              \/ line.kind \notin Silent /\ Says("ok", Op(s)) /\ UNCHANGED clock
              \/ /\ Says("error", Op(s))
                 /\ UNCHANGED clock \/ (CountUpset /\ clock.upsets < MaxUpsets)
  BY TakenCases
<1> DEFINE line == cmd[s].line
<1>2. /\ cmd[s].pc \in {"wait", "done"} /\ Clean(rx) /\ Stored /\ Announced
      /\ Op(s)' = Op(s) /\ OwnerOf(s)' = OwnerOf(s) /\ Op(s) \in Answered
  BY <1>1, OwnerFacts DEF Awaiting, Sent, Leases, Op, OwnerOf, Answered
<1>3. line.kind \in Silent <=> ctl.lease # NoLease
  BY <1>1, <1>2 DEF Leases, Leased
<1>4. ctl.lease # NoLease =>
        /\ ctl.lease \in Lease /\ ctl.lease.op = Op(s) /\ ctl.lease.kind = line.kind
        /\ ctl.beat = NotSet /\ ctl.lease.limit >= Margin /\ Begun
  BY <1>1, LeaseStage DEF Sent, Writing, Homing, Replied, Received, Idle
<1>5. CASE /\ line.kind \in Silent /\ UNCHANGED rx /\ dev'.homing # NotSet
           /\ dev'.homing = SilentTime(line.kind, dev.setting, 0, 0)
           /\ dev'.kind = line.kind /\ dev'.leg = 0
  <2>1. PICK L \in [0..Len(rx) -> Lease] :
          /\ Readings(ctl.snapshot, ctl.lease, rx, L) /\ Prompt(rx, L, Len(rx))
          /\ L[Len(rx)] = ctl.lease
    BY <1>1, <1>2, <1>3, <1>4, <1>5, BegunReadings
  <2>2. /\ ctl.lease.idle = 0 /\ ctl.lease.leg = 0
        /\ ctl.lease.limit = dev'.homing + Margin /\ dev'.homing \in Nat /\ Margin \in Nat
    <3> DEFINE time == SilentTime(line.kind, dev.setting, 0, 0)
    <3>1. time \in Nat /\ Margin \in Nat
      <4>1. dev.setting \in 0..MaxValue
        BY AgeType DEF IInv, Held, DevInv, MachineType
      <4>2. line.kind \in Silent /\ 0 \in Adjustments /\ 0 \in Nat
        BY <1>5 DEF Adjustments
      <4> HIDE DEF line
      <4> QED BY <4>1, <4>2, SilentTimeType, AgeType
    <3>2. ctl.lease.kind = line.kind /\ Begun
      BY <1>3, <1>4, <1>5
    <3> QED BY <1>2, <1>5, <3>1, <3>2 DEF Begun, Stored
  <2>3. ctl.lease.idle + dev'.homing <= ctl.lease.limit - Margin
    BY <2>2
  <2>4. Counted'
    BY <1>1, <1>3, <1>4, <1>5, <2>1, <2>2, <2>3 DEF Counted
  <2>5. Announced'
    BY <1>2, <1>5, AnnouncedKept
  <2> QED BY <1>1, <1>2, <1>3, <1>4, <1>5, <2>4, <2>5, LeaseHolds
<1>6. CASE line.kind \notin Silent /\ Says("ok", Op(s))
  <2>1. Announced'
    BY <1>2, <1>6, AnnouncedReply DEF Reply
  <2>2. \A t \in Commands : ctl'.owner = OwnerOf(t)' => t = s
    BY <1>1 DEF OwnerOf
  <2> QED BY <1>1, <1>3, <1>6, <2>1, <2>2, LeaseOver
<1>7. CASE Says("error", Op(s))
  <2>1. Announced'
    BY <1>2, <1>7, AnnouncedReply DEF Reply
  <2>2. CASE ctl.lease = NoLease
    <3>1. \A t \in Commands : ctl'.owner = OwnerOf(t)' => t = s
      BY <1>1 DEF OwnerOf
    <3> QED BY <1>1, <1>3, <2>1, <2>2, <3>1, LeaseOver
  <2>3. CASE ctl.lease # NoLease
    <3>1. PICK L \in [0..Len(rx) -> Lease] :
            /\ Readings(ctl.snapshot, ctl.lease, rx, L) /\ Prompt(rx, L, Len(rx))
            /\ L[Len(rx)] = ctl.lease
      BY <1>1, <1>2, <1>4, <2>3, BegunReadings
    <3>2. L[Len(rx)].idle <= L[Len(rx)].limit - Margin
      <4>1. ctl.lease.idle = 0 /\ ctl.lease.limit \in Nat /\ Margin \in Nat /\ ctl.lease.limit >= Margin
        BY <1>4, <2>3, AgeType DEF Begun, Lease
      <4> QED BY <3>1, <4>1
    <3>3. ReplyInTime'
      BY <1>1, <1>2, <1>4, <1>7, <2>3, <3>1, <3>2, ReplySaid DEF Reply
    <3> QED BY <1>1, <1>2, <1>3, <1>4, <2>1, <2>3, <3>3, LeaseHolds
  <2> QED BY <2>2, <2>3
<1> QED BY <1>1, <1>5, <1>6, <1>7

LEMMA HomingCounted ==
  ASSUME IInv, Flow, Leases, dev.homing # NotSet
  PROVE  \E s \in Commands :
           /\ ctl.owner = OwnerOf(s) /\ Homing(s) /\ Counted /\ Op(s) \in Answered
           /\ ctl.lease \in Lease /\ ctl.lease.op = Op(s) /\ ctl.lease.kind = cmd[s].line.kind
           /\ cmd[s].line.kind \in Silent /\ ctl.lease # NoLease
           /\ ctl.beat = NotSet /\ ctl.lease.limit >= Margin /\ cmd[s].pc \in {"wait", "done"}
<1>1. PICK s \in Commands : /\ ctl.owner = OwnerOf(s) /\ Awaiting(s)
                            /\ Sent(s) \/ Homing(s) \/ Replied(s)
  BY OnTheWay DEF Idle
<1>2. Homing(s) /\ cmd[s].pc \in {"wait", "done"} /\ cmd[s].line.kind \in Silent
  BY <1>1 DEF Sent, Replied, Awaiting, Homing
<1>3. ctl.lease # NoLease
  BY <1>1, <1>2 DEF Leases, Leased
<1>4. Counted
  BY <1>1, <1>2, <1>3, LeaseStage DEF Sent, Writing, Replied, Received, Idle
<1> QED BY <1>1, <1>2, <1>3, <1>4, LeaseStage, OwnerFacts DEF Answered

LEMMA HomedLeases ==
  ASSUME InTime, IInv, Flow, Leases, Homed
  PROVE  Leases'
<1>1. dev.homing = 0 /\ dev.homing # NotSet /\ UNCHANGED <<ctl, cmd>> /\ Says("ok", dev.op)
  BY DEF Homed, NotSet
<1>2. PICK s \in Commands :
           /\ ctl.owner = OwnerOf(s) /\ Homing(s) /\ Counted /\ Op(s) \in Answered
           /\ ctl.lease \in Lease /\ ctl.lease.op = Op(s) /\ ctl.lease.kind = cmd[s].line.kind
           /\ cmd[s].line.kind \in Silent /\ ctl.lease # NoLease
           /\ ctl.beat = NotSet /\ ctl.lease.limit >= Margin /\ cmd[s].pc \in {"wait", "done"}
  BY <1>1, HomingCounted
<1>3. Says("ok", Op(s)) /\ "ok" \in Reply
  BY <1>1, <1>2 DEF Homing, Reply
<1>4. PICK L \in [0..Len(rx) -> Lease] :
       /\ Readings(ctl.snapshot, ctl.lease, rx, L) /\ Prompt(rx, L, Len(rx))
       /\ L[Len(rx)].idle + dev.homing <= L[Len(rx)].limit - Margin
  BY <1>2 DEF Counted
<1>5. L[Len(rx)].idle <= L[Len(rx)].limit - Margin
  <2>1. L[Len(rx)].idle \in Nat
    <3>1. Len(rx) \in 0..Len(rx)
      BY ChannelFacts
    <3> QED BY <3>1, AgeType DEF Lease
  <2> QED BY <1>1, <1>4, <2>1
<1>6. ReplyInTime' /\ Announced'
  BY <1>1, <1>2, <1>3, <1>4, <1>5, ReplySaid, AnnouncedReply
<1>7. Op(s)' = Op(s) /\ OwnerOf(s)' = OwnerOf(s)
  BY <1>1 DEF Op, OwnerOf
<1> QED BY <1>1, <1>2, <1>6, <1>7, LeaseHolds

LEMMA AdjustsLeases ==
  ASSUME InTime, IInv, Flow, Leases, Adjusts
  PROVE  Leases'
<1>1. /\ dev.homing = 0 /\ dev.homing # NotSet /\ UNCHANGED <<ctl, cmd>> /\ dev.kind = "level"
      /\ dev.leg < 3
  BY DEF Adjusts, NotSet
<1> PICK text \in Progress, adjustment \in Adjustments :
        /\ Adjusted(text) \in {adjustment, NotSet} /\ Says(text, NoOp)
        /\ dev' = [dev EXCEPT !.leg = @ + 1,
                              !.homing = SilentTime("level", dev.setting, adjustment, dev.leg + 1)]
  BY DEF Adjusts
<1>2. PICK s \in Commands :
           /\ ctl.owner = OwnerOf(s) /\ Homing(s) /\ Counted /\ Op(s) \in Answered
           /\ ctl.lease \in Lease /\ ctl.lease.op = Op(s) /\ ctl.lease.kind = cmd[s].line.kind
           /\ cmd[s].line.kind \in Silent /\ ctl.lease # NoLease
           /\ ctl.beat = NotSet /\ ctl.lease.limit >= Margin /\ cmd[s].pc \in {"wait", "done"}
  BY <1>1, HomingCounted
<1>3. PICK L \in [0..Len(rx) -> Lease] :
       /\ Readings(ctl.snapshot, ctl.lease, rx, L) /\ Prompt(rx, L, Len(rx))
       /\ L[Len(rx)].idle + dev.homing <= L[Len(rx)].limit - Margin
       /\ L[Len(rx)].leg = dev.leg
  BY <1>2 DEF Counted
<1> DEFINE e == [text |-> text, age |-> 0, op |-> NoOp]
           l == L[Len(rx)]
           h == Heard(ctl.snapshot, l, e)
           time == SilentTime("level", dev.setting, adjustment, dev.leg + 1)
           made == IF Adjusted(text) = NotSet THEN 1 ELSE Adjusted(text)
           allowed == SilentTime("level", ctl.snapshot, made, dev.leg + 1)
           M == [i \in 0..Len(Append(rx, e)) |-> IF i <= Len(rx) THEN L[i] ELSE h]
<1>4. text \in Text /\ NoOp \in Answered
  BY Bounds DEF Text
<1>5. /\ e \in LineEvent /\ e.text = text /\ e.age = 0 /\ rx' = Append(rx, e)
  BY <1>4, Said
<1>6. /\ l \in Lease /\ l.kind = "level" /\ l.age \in Nat /\ l.idle \in Nat /\ l.leg = dev.leg
  <2>1. Len(rx) \in Nat /\ Len(rx) \in 0..Len(rx) /\ (Len(rx) = 0 \/ Len(rx) \in 1..Len(rx))
    BY ChannelFacts
  <2>2. l \in Lease
    BY <2>1
  <2>3. l.kind = ctl.lease.kind
    BY <1>3, <2>1 DEF Readings
  <2>4. ctl.lease.kind = "level"
    BY <1>1, <1>2 DEF Counted
  <2> QED BY <1>3, <2>2, <2>3, <2>4, AgeType DEF Lease
<1>7. dev \in MachineType /\ Stored
  BY <1>2 DEF IInv, Held, DevInv, Homing
<1>8. time \in Nat /\ allowed \in Nat /\ time <= allowed /\ time # NotSet
  <2>1. /\ dev.setting \in Nat /\ dev.setting \in 0..MaxValue /\ dev.leg + 1 \in 1..3
        /\ ctl.snapshot = dev.setting
    BY <1>1, <1>7, AgeType DEF MachineType, Stored
  <2>2. adjustment \in 0..1 /\ made \in 0..1 /\ adjustment <= made
    BY DEF Adjustments, NotSet
  <2> HIDE DEF made
  <2>3. CASE dev.leg + 1 \in 1..2
    <3>1. /\ time = adjustment + 2 * dev.setting + 1
          /\ allowed = made + 2 * dev.setting + 1
      BY <2>1, <2>3 DEF SilentTime
    <3> QED BY <2>1, <2>2, <3>1 DEF NotSet
  <2>4. CASE dev.leg + 1 = 3
    <3>1. time = adjustment + dev.setting /\ allowed = made + dev.setting
      BY <2>1, <2>4 DEF SilentTime
    <3> QED BY <2>1, <2>2, <3>1 DEF NotSet
  <2> QED BY <2>1, <2>3, <2>4
<1> HIDE DEF e, l, time
<1>9. h.idle = 0 /\ h.leg = dev.leg + 1 /\ h.limit = allowed + Margin /\ h \in Lease
  <2> DEFINE a == Active(l, 0)
  <2>1. a \in Lease /\ a.kind = "level" /\ a.age = l.age /\ a.idle = 0 /\ a.leg = dev.leg
    <3>1. 0 \in Nat
      OBVIOUS
    <3>2. /\ a \in Lease /\ a.kind = l.kind /\ a.age = l.age /\ a.leg = l.leg
          /\ a.idle = IF 0 <= l.age /\ 0 < l.idle THEN 0 ELSE l.idle
      BY <1>6, <3>1, ActiveType
    <3> HIDE DEF a
    <3> QED BY <1>6, <3>2
  <2> HIDE DEF a
  <2>2. h = Progressed(ctl.snapshot, a, 0, Adjusted(text))
    BY <1>5 DEF Heard, a
  <2>3. ~(a.kind # "level" \/ 0 > a.age \/ 0 > a.idle \/ a.leg = 3)
    BY <1>1, <1>6, <2>1
  <2>4. h = [a EXCEPT !.leg = dev.leg + 1, !.limit = allowed + Margin]
    BY <2>1, <2>2, <2>3 DEF Progressed
  <2>5. h \in Lease
    <3>1. ctl.snapshot \in 0..MaxValue /\ e.age \in Nat
      BY <1>5 DEF IInv, Owned, CommandsType
    <3> QED BY <1>6, <3>1, HeardType
  <2> HIDE DEF allowed, h
  <2> QED BY <2>1, <2>4, <2>5 DEF Lease
<1> HIDE DEF allowed
<1>10. l.idle - e.age <= l.limit - Margin
  BY <1>1, <1>3, <1>5, <1>6 DEF l
<1>11. /\ Readings(ctl.snapshot, ctl.lease, rx', M) /\ Prompt(rx', M, Len(rx'))
       /\ M[Len(rx')] = h
  <2>1. ctl.snapshot \in 0..MaxValue /\ Lag \in Nat
    BY Bounds DEF IInv, Owned, CommandsType
  <2>2. /\ Readings(ctl.snapshot, ctl.lease, Append(rx, e), M)
        /\ Prompt(Append(rx, e), M, Len(Append(rx, e)))
        /\ M[Len(Append(rx, e))] = h
    <3>1. rx \in Seq(LineEvent) /\ ctl.lease \in Lease /\ e \in LineEvent
      BY <1>2, <1>5, ChannelFacts
    <3>2. L[Len(rx)].idle - e.age <= L[Len(rx)].limit - Margin
      BY <1>10 DEF l
    <3>3. ASSUME NEW d \in LineEvent, L[Len(rx)].idle - d.age <= L[Len(rx)].limit - Margin
          PROVE  LET g == Heard(ctl.snapshot, L[Len(rx)], d)
                     q == Append(rx, d)
                     N == [i \in 0..Len(q) |-> IF i <= Len(rx) THEN L[i] ELSE g]
                 IN  Readings(ctl.snapshot, ctl.lease, q, N) /\ Prompt(q, N, Len(q)) /\ N[Len(q)] = g
      BY <1>3, <2>1, <3>1, <3>3, AppendReadings
    <3> QED BY <3>1, <3>2, <3>3 DEF l
  <2> HIDE DEF M, h
  <2> QED BY <1>5, <2>2
<1> HIDE DEF M, h
<1>12. dev'.homing = time /\ dev'.kind = dev.kind /\ dev'.leg = dev.leg + 1
  <2>1. dev' = [dev EXCEPT !.leg = @ + 1, !.homing = time]
    BY DEF time
  <2> QED BY <1>7, <2>1 DEF MachineType
<1>13. h.idle + dev'.homing <= h.limit - Margin
  BY <1>8, <1>9, <1>12, AgeType
<1>14. Counted'
  <2>1. M \in [0..Len(rx') -> Lease]
    BY <1>11 DEF Readings
  <2>2. dev'.homing # NotSet /\ dev'.kind = ctl'.lease.kind
    BY <1>1, <1>2, <1>8, <1>12 DEF Counted
  <2> QED BY <1>1, <1>9, <1>11, <1>12, <1>13, <2>1, <2>2 DEF Counted
<1>15. Announced'
  BY <1>8, <1>12 DEF Announced
<1>16. Op(s)' = Op(s) /\ OwnerOf(s)' = OwnerOf(s)
  BY <1>1 DEF Op, OwnerOf
<1> QED BY <1>1, <1>2, <1>14, <1>15, <1>16, LeaseHolds

LEMMA ReportsLeases ==
  ASSUME InTime, IInv, Flow, Leases, Reports
  PROVE  Leases'
<1> DEFINE text == IF dev.alarm THEN "alarm status" ELSE "idle"
<1>1. /\ UNCHANGED <<ctl, cmd>> /\ Says(text, NoOp) /\ NoOp \in Answered /\ dev.homing = NotSet
      /\ dev'.homing = dev.homing /\ dev'.input = dev.input
  BY Bounds DEF Reports, Serving, IInv, Held, DevInv, MachineType
<1>2. text \in Text \ Progress
  BY DEF Text, Progress
<1> HIDE DEF text
<1>3. Announced'
  BY <1>1, <1>2, AnnouncedRemark DEF Leases
<1>4. CASE ctl.lease = NoLease
  <2>1. \A t \in Commands : OwnerOf(t)' = OwnerOf(t) /\ (Leased(t)' <=> Leased(t))
    BY <1>1 DEF OwnerOf, Leased, Op
  <2> QED BY <1>1, <1>3, <1>4, <2>1 DEF Leases, Covered
<1>5. CASE ctl.lease # NoLease
  <2>1. PICK s \in Commands : ctl.owner = OwnerOf(s) /\ ctl.owner.cmd = s
    BY <1>5, LeaseOwner
  <2>2. /\ ctl.lease \in Lease /\ ctl.lease.op = Op(s) /\ ctl.lease.kind = cmd[s].line.kind
        /\ cmd[s].line.kind \in Silent /\ ctl.beat = NotSet /\ ctl.lease.limit >= Margin
        /\ Begun \/ ReplyInTime \/ Heeded
    BY <1>1, <1>5, <2>1, LeaseStage DEF Counted
  <2>3. cmd[s].pc \notin {"prepare", "end"}
    BY <1>5, <2>1 DEF Leases, Leased
  <2>4. (Begun => Begun') /\ (Heeded => Heeded')
    BY <1>1 DEF Begun, Heeded
  <2>5. ReplyInTime => ReplyInTime'
    <3> SUFFICES ASSUME ReplyInTime PROVE ReplyInTime'
      OBVIOUS
    <3> PICK r \in 1..Len(rx) :
          /\ rx[r].text \in Reply /\ rx[r].age <= ctl.lease.age
          /\ \E L \in [0..Len(rx) -> Lease] : Readings(ctl.snapshot, ctl.lease, rx, L) /\ Prompt(rx, L, r)
      BY DEF ReplyInTime
    <3> PICK L \in [0..Len(rx) -> Lease] : Readings(ctl.snapshot, ctl.lease, rx, L) /\ Prompt(rx, L, r)
      OBVIOUS
    <3> DEFINE e == [text |-> text, age |-> 0, op |-> NoOp]
               h == Heard(ctl.snapshot, L[Len(rx)], e)
               M == [i \in 0..Len(Append(rx, e)) |-> IF i <= Len(rx) THEN L[i] ELSE h]
    <3>1. /\ e \in LineEvent /\ rx' = Append(rx, e) /\ rx'[r] = rx[r] /\ r \in 1..Len(rx') /\ r \in 0..Len(rx)
      <4>1. /\ e \in LineEvent /\ rx' = Append(rx, e) /\ rx'[r] = rx[r] /\ Len(rx') = Len(rx) + 1
        BY <1>1, <1>2, Said
      <4> QED BY <4>1, ChannelFacts
    <3> HIDE DEF e
    <3>2. ctl.snapshot \in 0..MaxValue /\ Lag \in Nat
      BY Bounds DEF IInv, Owned, CommandsType
    <3>3. Readings(ctl.snapshot, ctl.lease, Append(rx, e), M) /\ Prompt(Append(rx, e), M, r)
      BY <2>2, <3>1, <3>2, ChannelFacts, AppendReadings
    <3> HIDE DEF M
    <3>4. M \in [0..Len(rx') -> Lease] /\ Readings(ctl.snapshot, ctl.lease, rx', M) /\ Prompt(rx', M, r)
      BY <3>1, <3>3 DEF Readings
    <3> QED BY <1>1, <3>1, <3>4 DEF ReplyInTime
  <2>6. Op(s)' = Op(s) /\ OwnerOf(s)' = OwnerOf(s)
    BY <1>1 DEF Op, OwnerOf
  <2> QED BY <1>1, <1>3, <1>5, <2>1, <2>2, <2>3, <2>4, <2>5, <2>6, LeaseHolds
<1> QED BY <1>4, <1>5

LEMMA TailFacts ==
  ASSUME IInv, rx # <<>>, rx' = Tail(rx)
  PROVE  /\ Len(rx) \in Nat /\ Len(rx) > 0 /\ Len(rx') = Len(rx) - 1 /\ Len(rx') \in Nat
         /\ Head(rx) = rx[1] /\ 1 \in 1..Len(rx) /\ Len(rx) \in 1..Len(rx)
         /\ Head(rx) \in LineEvent /\ Head(rx).age \in 0..Lag /\ Head(rx).age \in Nat
         /\ \A i \in 1..Len(rx') : i + 1 \in 1..Len(rx) /\ rx'[i] = rx[i + 1]
         /\ \A i \in 1..Len(rx) : i # 1 => i - 1 \in 1..Len(rx') /\ rx'[i - 1] = rx[i]
<1>1. /\ Len(rx) \in Nat /\ Len(rx) > 0 /\ Len(rx') = Len(rx) - 1 /\ Head(rx) = rx[1]
      /\ \A i \in 1..Len(rx') : rx'[i] = rx[i + 1]
  BY ChannelFacts, HeadTailProperties, EmptySeq
<1>2. 1 \in 1..Len(rx) /\ Len(rx) \in 1..Len(rx) /\ Len(rx') \in Nat
  BY <1>1
<1>3. Head(rx) \in LineEvent /\ Head(rx).age \in 0..Lag /\ Head(rx).age \in Nat
  BY <1>1, <1>2, ChannelFacts
<1>4. \A i \in 1..Len(rx') : i + 1 \in 1..Len(rx)
  BY <1>1
<1>5. \A i \in 1..Len(rx) : i # 1 => i - 1 \in 1..Len(rx') /\ rx'[i - 1] = rx[i]
  BY <1>1
<1> QED BY <1>1, <1>2, <1>3, <1>4, <1>5

LEMMA AnnouncedTail ==
  ASSUME IInv, Announced, rx # <<>>, rx' = Tail(rx), UNCHANGED dev
  PROVE  Announced'
<1> SUFFICES ASSUME NEW i \in 1..Len(rx'), rx'[i].text \in Progress, dev.homing = NotSet
             PROVE  \E r \in 1..Len(rx') : i < r /\ rx'[r].text \in Reply
  BY DEF Announced
<1>1. i + 1 \in 1..Len(rx) /\ rx[i + 1].text \in Progress
  BY TailFacts
<1>2. PICK r \in 1..Len(rx) : i + 1 < r /\ rx[r].text \in Reply
  BY <1>1 DEF Announced
<1>3. r # 1 /\ i < r - 1 /\ i \in Nat
  BY <1>2, TailFacts
<1>4. r - 1 \in 1..Len(rx') /\ rx'[r - 1].text \in Reply
  BY <1>2, <1>3, TailFacts
<1> QED BY <1>3, <1>4

\* What the bridge does with a line, as far as the clock can tell.
LEMMA BridgeCases ==
  ASSUME IInv, Flow, Bridge
  PROVE  LET e == Head(rx)
             lease == IF ctl.lease = NoLease THEN NoLease ELSE Heard(ctl.snapshot, ctl.lease, e)
         IN  /\ rx # <<>> /\ rx' = Tail(rx) /\ UNCHANGED <<dev, clock>>
             /\ ctl'.beat = IF ctl.beat # NotSet /\ e.age <= ctl.beat THEN NotSet ELSE ctl.beat
             /\ ctl'.waiters = ctl.waiters /\ ctl'.write = ctl.write
             /\ \/ /\ e.text \notin Reply /\ UNCHANGED cmd /\ ctl'.owner = ctl.owner
                   /\ ctl'.snapshot = ctl.snapshot /\ ctl'.lease = lease
                \/ \E s \in Commands :
                     /\ e.text \in Reply /\ ctl.owner = OwnerOf(s) /\ Awaiting(s) /\ Replied(s)
                     /\ \/ ctl'.owner = NoOwner /\ ctl'.lease = NoLease /\ UNCHANGED cmd
                        \/ /\ cmd[s].pc = "wait" /\ ctl'.owner = ctl.owner /\ ctl'.lease = lease
                           /\ cmd'[s].pc = "wait" /\ cmd'[s].line = cmd[s].line /\ Op(s)' = Op(s)
                           /\ cmd'[s].kind = cmd[s].kind /\ cmd'[s].rxCh # <<>>
                           /\ \A t \in Commands : t # s => cmd'[t] = cmd[t]
<1> DEFINE e == Head(rx)
           heard == HeardIn(ctl, e)
           lease == IF ctl.lease = NoLease THEN NoLease ELSE Heard(ctl.snapshot, ctl.lease, e)
           beat == IF ctl.beat # NotSet /\ e.age <= ctl.beat THEN NotSet ELSE ctl.beat
<1>1. rx # <<>> /\ rx' = Tail(rx) /\ UNCHANGED <<dev, clock>>
  BY DEF Bridge
<1>2. e \in LineEvent /\ e.age \in Nat /\ e.text \in Text
  <2>1. e \in LineEvent /\ e.age \in Nat
    BY <1>1, TailFacts
  <2> QED BY <2>1 DEF LineEvent
<1>3. /\ Owned(heard) /\ SameFlow(ctl, heard) /\ heard.lease = lease /\ heard.beat = beat
      /\ heard.waiters = ctl.waiters
  <2> HIDE DEF e
  <2> QED BY <1>2, HeardTimes DEF IInv
<1>4. heard.write = ctl.write
  <2> DEFINE noted == NoteActivity(ctl, e.age)
  <2>1. Owned(noted) /\ noted.write = ctl.write
    BY <1>2, NoteActivityOwned, SmallSteps DEF IInv
  <2> HIDE DEF noted, e
  <2>2. NoteProgress(noted, e.age, Adjusted(e.text)).write = noted.write
    BY <2>1, SmallSteps
  <2> QED BY <2>1, <2>2 DEF HeardIn, noted
<1>5. e.text \notin {"banner", "alarm50"}
  BY <1>1, TailFacts DEF Flow, Calm
<1>6. \/ /\ e.text \notin Reply /\ UNCHANGED cmd
         /\ ctl' \in {heard, NoteStatus(heard, e.text = "idle")}
      \/ e.text \in Reply /\ Deliver(heard, e)
  <2>1. \/ e.text \notin Reply /\ ctl' = NoteStatus(heard, e.text = "idle") /\ UNCHANGED cmd
        \/ e.text \notin Reply /\ ctl' = heard /\ UNCHANGED cmd
        \/ e.text = "alarm50"
        \/ e.text \notin {"idle", "alarm status", "banner"} \cup Progress /\ Deliver(heard, e)
    <3> HIDE DEF heard
    <3>1. \/ e.text \in {"idle", "alarm status"} /\ ctl' = NoteStatus(heard, e.text = "idle") /\ UNCHANGED cmd
          \/ e.text \in {"banner"} \cup Progress /\ ctl' = heard /\ UNCHANGED cmd
          \/ e.text = "alarm50"
          \/ e.text \notin {"idle", "alarm status", "banner"} \cup Progress /\ Deliver(heard, e)
      BY ZenonT(60) DEF Bridge, heard, HeardIn
    <3> QED BY <3>1 DEF Reply, Progress
  <2>2. e.text \notin {"idle", "alarm status", "banner", "alarm50"} \cup Progress => e.text \in Reply
    BY <1>2 DEF Text, Reply
  <2> QED BY <1>5, <2>1, <2>2
<1> HIDE DEF e, heard, lease, beat
<1>7. CASE /\ e.text \notin Reply /\ UNCHANGED cmd
           /\ ctl' \in {heard, NoteStatus(heard, e.text = "idle")}
  <2>1. /\ SameFlow(heard, NoteStatus(heard, e.text = "idle"))
        /\ NoteStatus(heard, e.text = "idle").write = heard.write
        /\ SameTimes(heard, NoteStatus(heard, e.text = "idle"))
    <3>1. heard.estop = "clear"
      BY <1>3, OwnerFacts DEF SameFlow, Flow, Calm
    <3> QED BY <1>3, <3>1, SmallSteps, StillSteps
  <2>2. /\ ctl'.owner = ctl.owner /\ ctl'.snapshot = ctl.snapshot /\ ctl'.lease = lease
        /\ ctl'.beat = beat /\ ctl'.waiters = ctl.waiters /\ ctl'.write = ctl.write
    BY <1>3, <1>4, <1>7, <2>1 DEF SameFlow, SameTimes
  <2> QED BY <1>1, <1>7, <2>2 DEF e, lease, beat
<1>8. CASE e.text \in Reply /\ Deliver(heard, e)
  <2>1. ~Clean(rx)
    BY <1>1, <1>8, TailFacts DEF Clean, e
  <2>2. PICK s \in Commands : /\ ctl.owner = OwnerOf(s) /\ Awaiting(s)
                              /\ Sent(s) \/ Homing(s) \/ Replied(s)
    BY <2>1, OnTheWay DEF Idle
  <2>3. Replied(s)
    BY <2>1, <2>2 DEF Sent, Homing
  <2>4. heard.owner = OwnerOf(s) /\ heard.owner.cmd = s
    BY <1>3, <2>2 DEF SameFlow, OwnerOf
  <2>5. CASE cmd[s].kind # "macro"
    <3> DEFINE d == IF e.text = "ok" THEN CommitMutation(heard, heard.mutation.op) ELSE heard
    <3>1. ctl' = ReleaseOwner(d, s) /\ UNCHANGED cmd
      BY <1>8, <2>4, <2>5 DEF Deliver, OwnerOf
    <3>2. /\ Owned(d) /\ d.owner = heard.owner /\ d.beat = heard.beat /\ d.waiters = heard.waiters
          /\ d.write = heard.write
      <4>1. heard.snapshot # 0
        BY <1>3 DEF SameFlow, Flow, Calm
      <4> QED BY <1>3, <4>1, CommitOwned, CommitFields, CommitTimes DEF SameTimes
    <3> HIDE DEF d
    <3>3. /\ ctl'.owner = NoOwner /\ ctl'.lease = NoLease /\ ctl'.beat = beat
          /\ ctl'.waiters = ctl.waiters /\ ctl'.write = ctl.write
      BY <1>3, <1>4, <2>4, <3>1, <3>2, ReleaseFields, ReleaseTimes
    <3> QED BY <1>1, <1>8, <2>2, <2>3, <3>1, <3>3 DEF e, beat
  <2>6. CASE cmd[s].kind = "macro"
    <3> DEFINE r == [text |-> e.text, op |-> e.op]
    <3>1. cmd[s].rxCh = <<>> /\ ~(Len(cmd[s].rxCh) >= MaxBacklog)
      BY <2>3, Bounds DEF Replied
    <3>2. ctl' = heard /\ cmd' = [cmd EXCEPT ![s].rxCh = Append(<<>>, r)]
      <4>1. heard.owner.kind = "macro"
        BY <2>4, <2>6 DEF OwnerOf
      <4>2. ctl' = heard /\ cmd' = [cmd EXCEPT ![s].rxCh = Append(@, [text |-> e.text, op |-> e.op])]
        BY ZenonT(30), <1>8, <2>4, <3>1, <4>1 DEF Deliver
      <4> QED BY <3>1, <4>2
    <3>3. /\ \A t \in Commands : t # s => cmd'[t] = cmd[t]
          /\ cmd'[s].pc = cmd[s].pc /\ cmd'[s].kind = cmd[s].kind /\ cmd'[s].line = cmd[s].line
          /\ cmd'[s].at = cmd[s].at /\ cmd'[s].rxCh = Append(<<>>, r)
      <4> HIDE DEF r
      <4> QED BY <3>2 DEF IInv, Held, CmdInv, CommandType
    <3>4. cmd'[s].rxCh # <<>> /\ Op(s)' = Op(s)
      BY <3>3 DEF Op
    <3>5. cmd[s].pc = "wait"
      BY <2>2, <2>6 DEF Awaiting
    <3>6. /\ ctl'.owner = ctl.owner /\ ctl'.lease = lease /\ ctl'.beat = beat
          /\ ctl'.waiters = ctl.waiters /\ ctl'.write = ctl.write
      BY <1>3, <1>4, <3>2 DEF SameFlow
    <3> HIDE DEF r
    <3> QED BY <1>1, <1>8, <2>2, <2>3, <3>3, <3>4, <3>5, <3>6 DEF e, beat, lease
  <2> QED BY <2>5, <2>6
<1> QED BY <1>6, <1>7, <1>8

\* What the bridge has still to read covers the lease as it does.
LEMMA TailCovered ==
  ASSUME IInv, ctl.lease \in Lease, rx # <<>>, rx' = Tail(rx), UNCHANGED dev,
         ctl'.snapshot = ctl.snapshot, ctl'.lease = Heard(ctl.snapshot, ctl.lease, Head(rx))
  PROVE  /\ Counted => Counted'
         /\ ReplyInTime /\ Head(rx).text \notin Reply => ReplyInTime'
<1> DEFINE M(L) == [i \in 0..Len(rx') |-> L[i + 1]]
<1>1. ctl'.lease.kind = ctl.lease.kind /\ ctl'.lease.age = ctl.lease.age
  <2>1. ctl.snapshot \in 0..MaxValue /\ Head(rx).age \in Nat
    BY TailFacts DEF IInv, Owned, CommandsType
  <2> QED BY <2>1, HeardType
<1>2. ASSUME NEW L, Readings(ctl.snapshot, ctl.lease, rx, L)
      PROVE  /\ Readings(ctl'.snapshot, ctl'.lease, rx', M(L)) /\ M(L)[Len(rx')] = L[Len(rx)]
             /\ M(L) \in [0..Len(rx') -> Lease]
             /\ \A n \in 1..Len(rx) : Prompt(rx, L, n) => Prompt(rx', M(L), n - 1)
  <2>1. rx \in Seq(LineEvent)
    BY ChannelFacts
  <2> DEFINE r == Tail(rx)
             N == [i \in 0..Len(r) |-> L[i + 1]]
  <2>2. /\ Readings(ctl.snapshot, Heard(ctl.snapshot, ctl.lease, Head(rx)), r, N)
        /\ Len(r) = Len(rx) - 1 /\ Len(r) \in Nat
        /\ N[Len(r)] = L[Len(rx)]
        /\ \A n \in 1..Len(rx) : Prompt(rx, L, n) => Prompt(r, N, n - 1)
    <3>1. ASSUME NEW v, NEW l, NEW q \in Seq(LineEvent), q # <<>>, Readings(v, l, q, L)
          PROVE  LET t == Tail(q)
                     O == [i \in 0..Len(t) |-> L[i + 1]]
                 IN  /\ Readings(v, Heard(v, l, Head(q)), t, O) /\ Len(t) = Len(q) - 1 /\ Len(t) \in Nat
                     /\ O[Len(t)] = L[Len(q)]
                     /\ \A n \in 1..Len(q) : Prompt(q, L, n) => Prompt(t, O, n - 1)
      BY <3>1, TailReadings
    <3> QED BY <1>2, <2>1, <3>1
  <2>3. /\ Readings(ctl'.snapshot, ctl'.lease, rx', M(L)) /\ M(L)[Len(rx')] = L[Len(rx)]
        /\ \A n \in 1..Len(rx) : Prompt(rx, L, n) => Prompt(rx', M(L), n - 1)
    BY <2>2
  <2> HIDE DEF M
  <2> QED BY <2>3 DEF Readings
<1> HIDE DEF M
<1>3. ASSUME Counted PROVE Counted'
  <2>1. PICK L : /\ Readings(ctl.snapshot, ctl.lease, rx, L) /\ Prompt(rx, L, Len(rx))
                 /\ L[Len(rx)].idle + dev.homing <= L[Len(rx)].limit - Margin
                 /\ L[Len(rx)].leg = dev.leg
    BY <1>3 DEF Counted
  <2>2. Len(rx) - 1 = Len(rx') /\ Len(rx) \in 1..Len(rx)
    BY TailFacts
  <2>3. /\ Readings(ctl'.snapshot, ctl'.lease, rx', M(L)) /\ M(L)[Len(rx')] = L[Len(rx)]
        /\ M(L) \in [0..Len(rx') -> Lease]
        /\ Prompt(rx', M(L), Len(rx'))
    BY <1>2, <2>1, <2>2
  <2> QED BY <1>1, <1>3, <2>1, <2>3 DEF Counted
<1>4. ASSUME ReplyInTime, Head(rx).text \notin Reply PROVE ReplyInTime'
  <2>1. PICK r \in 1..Len(rx) :
          /\ rx[r].text \in Reply /\ rx[r].age <= ctl.lease.age
          /\ \E L \in [0..Len(rx) -> Lease] : Readings(ctl.snapshot, ctl.lease, rx, L) /\ Prompt(rx, L, r)
    BY <1>4 DEF ReplyInTime
  <2>2. PICK L : Readings(ctl.snapshot, ctl.lease, rx, L) /\ Prompt(rx, L, r)
    BY <2>1
  <2>3. r # 1
    BY <1>4, <2>1, TailFacts
  <2>4. r - 1 \in 1..Len(rx') /\ rx'[r - 1] = rx[r]
    BY <2>1, <2>3, TailFacts
  <2>5. /\ Readings(ctl'.snapshot, ctl'.lease, rx', M(L)) /\ M(L) \in [0..Len(rx') -> Lease]
        /\ Prompt(rx', M(L), r - 1)
    BY <1>2, <2>1, <2>2
  <2> QED BY <1>1, <2>1, <2>4, <2>5 DEF ReplyInTime
<1> QED BY <1>3, <1>4

\* The bridge reads a line that answers nothing.
LEMMA RemarkLeases ==
  ASSUME InTime, IInv, Flow, Leases, rx # <<>>, rx' = Tail(rx), UNCHANGED <<dev, cmd>>,
         Head(rx).text \notin Reply, ctl'.owner = ctl.owner, ctl'.snapshot = ctl.snapshot,
         ctl.beat = NotSet => ctl'.beat = NotSet,
         ctl'.lease = IF ctl.lease = NoLease THEN NoLease ELSE Heard(ctl.snapshot, ctl.lease, Head(rx))
  PROVE  Leases'
<1>1. Announced' /\ Announced
  BY AnnouncedTail DEF Leases
<1>2. \A t \in Commands : OwnerOf(t)' = OwnerOf(t) /\ Op(t)' = Op(t)
  BY DEF OwnerOf, Op
<1>3. CASE ctl.lease = NoLease
  <2>1. \A t \in Commands : ctl'.owner = OwnerOf(t)' =>
          cmd'[t].pc \in {"prepare", "end"} \/ cmd'[t].line.kind \notin Silent
    BY <1>2, <1>3 DEF Leases, Leased
  <2> QED BY <1>1, <1>3, <2>1, LeaseOver
<1>4. CASE ctl.lease # NoLease
  <2>1. PICK s \in Commands : ctl.owner = OwnerOf(s)
    BY <1>4, LeaseOwner
  <2>2. /\ ctl.lease \in Lease /\ ctl.lease.op = Op(s) /\ ctl.lease.kind = cmd[s].line.kind
        /\ ctl.owner.cmd = s /\ cmd[s].line.kind \in Silent
        /\ ctl.beat = NotSet /\ ctl.lease.limit >= Margin
        /\ \/ Writing(s) /\ Begun
           \/ Awaiting(s) /\ Sent(s) /\ Begun
           \/ Awaiting(s) /\ Homing(s) /\ Counted
           \/ Awaiting(s) /\ Replied(s) /\ ReplyInTime
           \/ Awaiting(s) /\ Received(s) /\ Heeded
    BY <1>4, <2>1, LeaseStage
  <2>3. ctl'.lease = Heard(ctl.snapshot, ctl.lease, Head(rx))
    BY <1>4
  <2>4. /\ ctl'.lease \in Lease /\ ctl'.lease.op = Op(s) /\ ctl'.lease.kind = cmd[s].line.kind
        /\ ctl'.lease.idle <= ctl.lease.idle /\ ctl'.lease.limit >= Margin
    <3>1. ctl.snapshot \in 0..MaxValue /\ Head(rx).age \in Nat
      BY TailFacts DEF IInv, Owned, CommandsType
    <3> QED BY <2>2, <2>3, <3>1, HeardType
  <2>5. ASSUME Begun, dev.homing = NotSet, Clean(rx) PROVE Begun'
    <3>1. Head(rx).text \notin Progress
      BY <1>1, <2>5, NoProgress, TailFacts
    <3>2. ctl'.lease = ctl.lease
      BY <2>2, <2>3, <2>5, <3>1, HeardFresh, TailFacts DEF Begun
    <3> QED BY <2>5, <3>2 DEF Begun
  <2>6. Heeded => Heeded'
    <3>1. ctl'.lease.idle \in Nat /\ ctl.lease.idle \in Nat /\ Lag \in Nat
      BY <2>2, <2>4, AgeType, Bounds DEF Lease
    <3> QED BY <2>4, <3>1 DEF Heeded
  <2>7. Begun' \/ Counted' \/ ReplyInTime' \/ Heeded'
    BY <2>2, <2>3, <2>5, <2>6, TailCovered DEF Writing, Idle, Sent
  <2>8. ctl'.lease # NoLease /\ cmd[s].pc \notin {"prepare", "end"}
    BY <2>2, <2>4, NoLeaseApart DEF Writing, Awaiting
  <2> QED BY <1>1, <1>2, <2>1, <2>2, <2>4, <2>7, <2>8, LeaseHolds
<1> QED BY <1>3, <1>4

LEMMA BridgeLeases ==
  ASSUME InTime, IInv, Flow, Leases, Bridge
  PROVE  Leases'
<1> DEFINE e == Head(rx)
           lease == IF ctl.lease = NoLease THEN NoLease ELSE Heard(ctl.snapshot, ctl.lease, e)
<1>1. /\ rx # <<>> /\ rx' = Tail(rx) /\ UNCHANGED dev
      /\ ctl.beat = NotSet => ctl'.beat = NotSet
      /\ \/ /\ e.text \notin Reply /\ UNCHANGED cmd /\ ctl'.owner = ctl.owner
            /\ ctl'.snapshot = ctl.snapshot /\ ctl'.lease = lease
         \/ \E s \in Commands :
              /\ e.text \in Reply /\ ctl.owner = OwnerOf(s) /\ Awaiting(s) /\ Replied(s)
              /\ \/ ctl'.owner = NoOwner /\ ctl'.lease = NoLease
                 \/ /\ cmd[s].pc = "wait" /\ ctl'.owner = ctl.owner /\ ctl'.lease = lease
                    /\ cmd'[s].pc = "wait" /\ cmd'[s].line = cmd[s].line /\ Op(s)' = Op(s)
                    /\ cmd'[s].kind = cmd[s].kind /\ cmd'[s].rxCh # <<>>
  BY BridgeCases
<1>2. Announced'
  BY <1>1, AnnouncedTail DEF Leases
<1>3. CASE /\ e.text \notin Reply /\ UNCHANGED cmd /\ ctl'.owner = ctl.owner
           /\ ctl'.snapshot = ctl.snapshot /\ ctl'.lease = lease
  BY <1>1, <1>3, RemarkLeases
<1>4. ASSUME ctl'.owner = NoOwner, ctl'.lease = NoLease PROVE Leases'
  <2>1. \A t \in Commands : ctl'.owner # OwnerOf(t)'
    BY <1>4, Bounds DEF OwnerOf, NoOwner
  <2> QED BY <1>2, <1>4, <2>1, LeaseOver
<1>5. ASSUME NEW s \in Commands, e.text \in Reply, ctl.owner = OwnerOf(s), Replied(s),
             cmd[s].pc = "wait", ctl'.owner = ctl.owner, ctl'.lease = lease,
             cmd'[s].pc = "wait", cmd'[s].line = cmd[s].line, Op(s)' = Op(s),
             cmd'[s].kind = cmd[s].kind, cmd'[s].rxCh # <<>>
      PROVE  Leases'
  <2>1. ctl'.owner = OwnerOf(s)' /\ ctl'.owner.cmd = s /\ \A t \in Commands : ctl'.owner = OwnerOf(t)' => t = s
    BY <1>5 DEF OwnerOf
  <2>2. CASE ctl.lease = NoLease
    <3>1. cmd[s].line.kind \notin Silent
      BY <1>5, <2>2 DEF Leases, Leased
    <3> QED BY <1>2, <1>5, <2>1, <2>2, <3>1, LeaseOver
  <2>3. CASE ctl.lease # NoLease
    <3>1. /\ ctl.lease \in Lease /\ ctl.lease.op = Op(s) /\ ctl.lease.kind = cmd[s].line.kind
          /\ cmd[s].line.kind \in Silent /\ ctl.beat = NotSet /\ ctl.lease.limit >= Margin
          /\ ReplyInTime
      BY <1>5, <2>3, LeaseStage DEF Writing, Idle, Sent, Homing, Received, Replied
    <3>2. ctl'.lease = Heard(ctl.snapshot, ctl.lease, e)
      BY <1>5, <2>3
    <3>3. PICK r \in 1..Len(rx) : rx[r].text \in Reply /\ rx[r].age <= ctl.lease.age
      BY <3>1 DEF ReplyInTime
    <3>4. r = 1 /\ e = rx[1] /\ e.age \in 0..Lag /\ e.age \in Nat
      BY <1>1, <1>5, <3>3, TailFacts DEF Replied, Lone
    <3> HIDE DEF e
    <3>5. /\ ctl'.lease \in Lease /\ ctl'.lease.op = Op(s) /\ ctl'.lease.kind = cmd[s].line.kind
          /\ ctl'.lease.idle <= e.age /\ ctl'.lease.limit >= Margin
      <4>1. ctl.snapshot \in 0..MaxValue
        BY DEF IInv, Owned, CommandsType
      <4>2. e.age <= ctl.lease.age
        BY <3>3, <3>4
      <4> QED BY <3>1, <3>2, <3>4, <4>1, <4>2, HeardType
    <3>6. ctl'.lease.idle <= Lag
      <4>1. ctl'.lease.idle \in Nat /\ Lag \in Nat
        BY <3>5, AgeType, Bounds DEF Lease
      <4> QED BY <3>4, <3>5, <4>1
    <3>7. Heeded' /\ ctl'.lease # NoLease
      BY <1>5, <2>1, <3>5, <3>6, NoLeaseApart DEF Heeded
    <3> QED BY <1>1, <1>2, <1>5, <2>1, <3>1, <3>5, <3>7, LeaseHolds
  <2> QED BY <2>2, <2>3
<1> QED BY <1>1, <1>3, <1>4, <1>5

LEMMA TickFacts ==
  ASSUME IInv, Flow, Tick
  PROVE  /\ UNCHANGED cmd /\ ctl' = Ages(ctl) /\ Owned(ctl) /\ SameFlow(ctl, ctl') /\ ctl'.write = "none"
         /\ ctl.write = "none"
         /\ ctl'.lease = IF ctl.lease = NoLease THEN NoLease ELSE Aged(ctl.lease)
         /\ ctl'.beat = IF ctl.beat = NotSet THEN NotSet ELSE Older(ctl.beat)
         /\ ctl'.waiters = ctl.waiters
         /\ Len(rx') = Len(rx)
         /\ \A i \in 1..Len(rx) : /\ rx'[i].text = rx[i].text /\ rx'[i].age = rx[i].age + 1
                                  /\ rx[i].age \in 0..(Lag - 1) /\ rx[i].age \in Nat
         /\ dev'.input = dev.input /\ dev'.ask = dev.ask /\ dev'.kind = dev.kind /\ dev'.leg = dev.leg
         /\ dev.homing = NotSet => dev.input = <<>> /\ ~dev.ask /\ dev'.homing = NotSet
         /\ dev.homing # NotSet => /\ dev.homing \in Nat /\ dev'.homing = dev.homing - 1
                                   /\ dev'.homing \in Nat /\ dev'.homing # NotSet
         /\ clock.polled /\ clock'.upsets = clock.upsets /\ ~clock'.polled
         /\ \A s \in Commands : /\ cmd[s].pc \in {"new", "done", "wait"}
                                /\ cmd[s].pc = "wait" => cmd[s].rxCh = <<>>
<1>1. /\ ctl' = Ages(ctl) /\ Owned(ctl) /\ SameFlow(ctl, ctl') /\ ctl'.write = ctl.write
      /\ ctl.write = "none"
  BY SmallSteps DEF IInv, Tick, Timely
<1>2. /\ ctl'.lease = IF ctl.lease = NoLease THEN NoLease ELSE Aged(ctl.lease)
      /\ ctl'.beat = IF ctl.beat = NotSet THEN NotSet ELSE Older(ctl.beat)
      /\ ctl'.waiters = ctl.waiters
  BY <1>1, AgesTimes
<1>3. /\ Len(rx') = Len(rx)
      /\ \A i \in 1..Len(rx) : /\ rx'[i].text = rx[i].text /\ rx'[i].age = rx[i].age + 1
                               /\ rx[i].age \in 0..(Lag - 1) /\ rx[i].age \in Nat
  <2>1. rx' = [i \in 1..Len(rx) |-> [rx[i] EXCEPT !.age = @ + 1]]
    BY DEF Tick
  <2>2. Len(rx') = Len(rx)
    <3>1. rx' \in [1..Len(rx) -> {[rx[i] EXCEPT !.age = @ + 1] : i \in 1..Len(rx)}]
      BY <2>1
    <3> QED BY <2>1, <3>1, ChannelFacts, LenProperties
  <2>3. \A i \in 1..Len(rx) : rx'[i].text = rx[i].text /\ rx'[i].age = rx[i].age + 1
    BY <2>1, ChannelFacts DEF LineEvent
  <2>4. \A i \in 1..Len(rx) : rx[i].age \in 0..(Lag - 1) /\ rx[i].age \in Nat
    <3>1. \A i \in 1..Len(rx) : rx[i].age < Lag
      BY DEF Tick, Timely
    <3> QED BY <3>1, ChannelFacts, Bounds
  <2> QED BY <2>2, <2>3, <2>4
<1>4. dev.alive /\ dev.homing # 0 /\ dev \in MachineType
  BY DEF Flow, Calm, Tick, Timely, IInv, Held, DevInv
<1>5. CASE dev.homing = NotSet
  BY <1>1, <1>2, <1>3, <1>4, <1>5 DEF Tick, Timely, Serving
<1>6. CASE dev.homing # NotSet
  <2>1. dev.homing \in Nat /\ dev.homing - 1 \in Nat /\ NotSet \notin Nat
    <3>1. dev.homing \in Age
      BY <1>4, <1>6 DEF MachineType
    <3> DEFINE h == dev.homing
    <3>2. h \in Nat /\ h # 0 /\ NotSet \notin Nat
      BY <1>4, <3>1, AgeType
    <3> HIDE DEF h
    <3>3. h - 1 \in Nat
      BY <3>2
    <3> QED BY <3>2, <3>3 DEF h
  <2>2. dev' = [dev EXCEPT !.homing = dev.homing - 1]
    BY <1>4, <1>6 DEF Tick
  <2>3. /\ dev'.homing = dev.homing - 1 /\ dev'.input = dev.input /\ dev'.ask = dev.ask
        /\ dev'.kind = dev.kind /\ dev'.leg = dev.leg
    BY <1>4, <2>2 DEF MachineType
  <2> QED BY <1>1, <1>2, <1>3, <1>6, <2>1, <2>3 DEF Tick, Timely
<1> QED BY <1>5, <1>6

\* What the machine has said and is counting down covers the lease a tick later.
LEMMA TickCovered ==
  ASSUME InTime, IInv, Flow, Tick, ctl.lease \in Lease, ctl'.lease = Aged(ctl.lease)
  PROVE  /\ Counted => Counted'
         /\ ReplyInTime => ReplyInTime'
<1> DEFINE M(L) == [i \in 0..Len(rx') |-> Aged(L[i])]
<1>1. /\ ctl'.snapshot = ctl.snapshot /\ Len(rx') = Len(rx) /\ Len(rx) \in Nat
      /\ \A i \in 1..Len(rx) : /\ rx'[i].text = rx[i].text /\ rx'[i].age = rx[i].age + 1
                               /\ rx[i].age \in 0..(Lag - 1)
  BY TickFacts, ChannelFacts DEF SameFlow
<1>2. /\ ctl'.lease.kind = ctl.lease.kind /\ ctl'.lease.age = Older(ctl.lease.age)
  BY AgedType
<1>3. ASSUME NEW L, Readings(ctl.snapshot, ctl.lease, rx, L)
      PROVE  /\ Readings(ctl'.snapshot, ctl'.lease, rx', M(L)) /\ M(L)[Len(rx')] = Aged(L[Len(rx)])
             /\ M(L) \in [0..Len(rx') -> Lease]
             /\ \A n \in 0..Len(rx) : Prompt(rx, L, n) => Prompt(rx', M(L), n)
  <2> DEFINE v == ctl.snapshot
             l == ctl.lease
             r == rx'
  <2>1. rx \in Seq(LineEvent) /\ Readings(v, l, rx, L) /\ l \in Lease
    BY <1>3, ChannelFacts
  <2>2. /\ Len(r) = Len(rx)
        /\ \A i \in 1..Len(rx) : /\ r[i].text = rx[i].text /\ r[i].age = rx[i].age + 1
                                 /\ rx[i].age \in 0..(Lag - 1)
    BY <1>1
  <2> HIDE DEF v, l, r
  <2> DEFINE N == [i \in 0..Len(r) |-> Aged(L[i])]
  <2>3. /\ Readings(v, Aged(l), r, N) /\ N[Len(r)] = Aged(L[Len(rx)])
        /\ \A n \in 0..Len(rx) : Prompt(rx, L, n) => Prompt(r, N, n)
    BY <2>1, <2>2, AgedReadings
  <2>4. M(L) = N /\ ctl'.snapshot = v /\ ctl'.lease = Aged(l) /\ rx' = r
    BY <1>1 DEF v, l, r
  <2> HIDE DEF M, N
  <2>5. /\ Readings(ctl'.snapshot, ctl'.lease, rx', M(L)) /\ M(L)[Len(rx')] = Aged(L[Len(rx)])
        /\ \A n \in 0..Len(rx) : Prompt(rx, L, n) => Prompt(rx', M(L), n)
    BY <2>3, <2>4
  <2> QED BY <2>5 DEF Readings
<1> HIDE DEF M
<1>4. ASSUME Counted PROVE Counted'
  <2>1. PICK L : /\ Readings(ctl.snapshot, ctl.lease, rx, L) /\ Prompt(rx, L, Len(rx))
                 /\ L[Len(rx)].idle + dev.homing <= L[Len(rx)].limit - Margin
                 /\ L[Len(rx)].leg = dev.leg
    BY <1>4 DEF Counted
  <2>2. /\ dev.homing # NotSet /\ dev.homing \in Nat /\ dev'.homing = dev.homing - 1
        /\ dev'.homing # NotSet /\ dev'.kind = dev.kind /\ dev'.leg = dev.leg /\ dev.kind = ctl.lease.kind
    BY <1>4, TickFacts DEF Counted
  <2>3. Len(rx) \in 0..Len(rx) /\ L[Len(rx)] \in Lease
    BY <1>1, <2>1 DEF Readings
  <2>4. /\ Readings(ctl'.snapshot, ctl'.lease, rx', M(L)) /\ M(L)[Len(rx')] = Aged(L[Len(rx)])
        /\ M(L) \in [0..Len(rx') -> Lease] /\ Prompt(rx', M(L), Len(rx'))
    BY <1>1, <1>3, <2>1, <2>3
  <2> DEFINE l == L[Len(rx)]
             m == M(L)[Len(rx')]
             a == l.idle
             b == m.idle
             c == l.limit
             d == m.limit
  <2>5. /\ a \in Nat /\ b \in Nat /\ b <= a + 1 /\ d = c /\ c \in Nat /\ Margin \in Nat
        /\ m.leg = l.leg
    BY <2>3, <2>4, AgedType, AgeType DEF Lease
  <2>6. a + dev.homing <= c - Margin
    BY <2>1
  <2> HIDE DEF a, b, c, d
  <2>7. b + dev'.homing <= d - Margin
    BY <2>2, <2>5, <2>6
  <2>8. m.idle + dev'.homing <= m.limit - Margin /\ m.leg = dev'.leg
    BY <2>1, <2>2, <2>5, <2>7 DEF b, d
  <2> QED BY <1>2, <2>2, <2>4, <2>8 DEF Counted
<1>5. ASSUME ReplyInTime PROVE ReplyInTime'
  <2>1. PICK r \in 1..Len(rx) :
          /\ rx[r].text \in Reply /\ rx[r].age <= ctl.lease.age
          /\ \E L \in [0..Len(rx) -> Lease] : Readings(ctl.snapshot, ctl.lease, rx, L) /\ Prompt(rx, L, r)
    BY <1>5 DEF ReplyInTime
  <2>2. PICK L : Readings(ctl.snapshot, ctl.lease, rx, L) /\ Prompt(rx, L, r)
    BY <2>1
  <2>3. r \in 1..Len(rx') /\ r \in 0..Len(rx) /\ rx'[r].text \in Reply
    BY <1>1, <2>1
  <2>4. rx'[r].age <= ctl'.lease.age
    <3> DEFINE age == rx[r].age
               old == ctl.lease.age
    <3>1. age \in 0..(Lag - 1) /\ age <= old /\ old \in 0..MaxAge
      BY <1>1, <2>1, TimeFacts DEF Lease
    <3>2. rx'[r].age = age + 1 /\ ctl'.lease.age = Older(old)
      BY <1>1, <1>2
    <3> HIDE DEF age, old
    <3>3. age + 1 <= Older(old)
      BY <3>1, TimeFacts DEF Older
    <3> QED BY <3>2, <3>3
  <2>5. /\ Readings(ctl'.snapshot, ctl'.lease, rx', M(L)) /\ M(L) \in [0..Len(rx') -> Lease]
        /\ Prompt(rx', M(L), r)
    BY <1>3, <2>2, <2>3
  <2> QED BY <2>3, <2>4, <2>5 DEF ReplyInTime
<1> QED BY <1>4, <1>5

LEMMA TickLeases ==
  ASSUME InTime, IInv, Flow, Leases, Tick
  PROVE  Leases'
<1>1. Announced'
  <2>1. /\ Len(rx') = Len(rx) /\ \A i \in 1..Len(rx) : rx'[i].text = rx[i].text
        /\ dev.homing # NotSet => dev'.homing # NotSet
    BY TickFacts
  <2> QED BY <2>1 DEF Leases, Announced
<1>2. UNCHANGED cmd /\ ctl'.owner = ctl.owner
  BY TickFacts DEF SameFlow
<1>3. \A t \in Commands : OwnerOf(t)' = OwnerOf(t) /\ Op(t)' = Op(t)
  BY <1>2 DEF OwnerOf, Op
<1>4. CASE ctl.lease = NoLease
  <2>1. \A t \in Commands : ctl'.owner = OwnerOf(t)' =>
          cmd'[t].pc \in {"prepare", "end"} \/ cmd'[t].line.kind \notin Silent
    BY <1>2, <1>3, <1>4 DEF Leases, Leased
  <2> QED BY <1>1, <1>4, <2>1, TickFacts, LeaseOver
<1>5. CASE ctl.lease # NoLease
  <2>1. PICK s \in Commands : ctl.owner = OwnerOf(s)
    BY <1>5, LeaseOwner
  <2>2. /\ ctl.lease \in Lease /\ ctl.lease.op = Op(s) /\ ctl.lease.kind = cmd[s].line.kind
        /\ ctl.owner.cmd = s /\ cmd[s].line.kind \in Silent
        /\ ctl.beat = NotSet /\ ctl.lease.limit >= Margin
    BY <1>5, <2>1, LeaseStage
  <2>3. Counted \/ ReplyInTime
    <3>1. /\ dev.homing = NotSet => dev.input = <<>>
          /\ cmd[s].pc \in {"new", "done", "wait"} /\ (cmd[s].pc = "wait" => cmd[s].rxCh = <<>>)
      BY TickFacts
    <3>2. ~Writing(s) /\ ~Heeded
      BY <2>2, <3>1 DEF Writing, Heeded
    <3>3. ~Sent(s)
      <4>1. \A x : <<x>> # <<>>
        OBVIOUS
      <4> QED BY <3>1, <4>1 DEF Sent
    <3> QED BY <1>5, <2>1, <3>2, <3>3, LeaseStage
  <2>4. ctl'.lease = Aged(ctl.lease) /\ ctl'.beat = NotSet
    BY <1>5, <2>2, TickFacts
  <2>5. /\ ctl'.lease \in Lease /\ ctl'.lease.op = Op(s) /\ ctl'.lease.kind = cmd[s].line.kind
        /\ ctl'.lease.limit >= Margin
    BY <2>2, <2>4, AgedType
  <2>6. Counted' \/ ReplyInTime'
    BY <2>2, <2>3, <2>4, TickCovered
  <2>7. ctl'.lease # NoLease /\ cmd[s].pc \notin {"prepare", "end"}
    BY <2>5, NoLeaseApart, TickFacts
  <2> QED BY <1>1, <1>2, <1>3, <2>1, <2>2, <2>4, <2>5, <2>6, <2>7, LeaseHolds
<1> QED BY <1>4, <1>5

-----------------------------------------------------------------------------
(* The outstanding heartbeat. *)

LEMMA DebtFacts ==
  ASSUME Turns
  PROVE  /\ clock.upsets \in Nat /\ Debt \in Nat /\ Lag \in Nat /\ clock.upsets <= Debt
         /\ \A age \in 0..Lag, beat \in Nat : age > beat => beat + clock.upsets <= Debt
         /\ clock'.upsets = clock.upsets => Debt' = Debt
         /\ clock'.upsets = clock.upsets + 1 => Debt' = Debt + 1
<1>1. clock.upsets \in Nat /\ Lag \in Nat
  BY Bounds, SessionAssumption DEF Turns, Clock
<1> DEFINE u == clock.upsets
           w == clock'.upsets
<1> HIDE DEF u
<1>2. Debt = u + (IF Lag = 0 THEN 0 ELSE Lag - 1) /\ u \in Nat
  BY <1>1 DEF Debt, u
<1>3. Debt' = w + (IF Lag = 0 THEN 0 ELSE Lag - 1)
  BY DEF Debt
<1> HIDE DEF w
<1>4. /\ Debt \in Nat /\ u <= Debt
      /\ \A age \in 0..Lag, beat \in Nat : age > beat => beat + u <= Debt
  BY <1>1, <1>2
<1>5. (w = u => Debt' = Debt) /\ (w = u + 1 => Debt' = Debt + 1)
  BY <1>1, <1>2, <1>3
<1> QED BY <1>1, <1>4, <1>5 DEF u, w

LEMMA BeatType ==
  ASSUME IInv, ctl.beat # NotSet
  PROVE  ctl.beat \in Nat /\ ctl.beat \in 0..MaxAge
BY AgeType DEF IInv, Owned, CommandsType, Age

\* Who waits for what a heartbeat may wait for, when nothing else happened to it.
LEMMA OwedKept ==
  ASSUME Turns, Owed, ctl'.beat = ctl.beat, UNCHANGED rx, clock'.upsets = clock.upsets,
         ctl.beat # NotSet /\ Dry =>
           /\ ctl'.write # "poll" /\ ~dev'.ask => clock.upsets >= 1
           /\ ~Pending' => ctl.beat < Debt
           /\ \A s \in Commands : Heeding(s)' => ctl.beat < Debt \/ ctl.beat + clock.upsets <= Debt
  PROVE  Owed'
<1>1. Debt' = Debt
  BY DebtFacts
<1>2. Dry' <=> Dry
  BY DEF Dry
<1> QED BY <1>1, <1>2 DEF Owed

\* Any line the machine says answers the heartbeat.
LEMMA SaidOwed ==
  ASSUME IInv, Turns, Owed, NEW text \in Text, NEW op \in Answered, Says(text, op),
         ctl'.beat = ctl.beat, clock'.upsets \in {clock.upsets, clock.upsets + 1}
  PROVE  Owed'
<1> SUFFICES ASSUME ctl.beat # NotSet PROVE Owed'
  BY DEF Owed
<1>1. /\ Len(rx') \in 1..Len(rx') /\ rx'[Len(rx')].age = 0 /\ Len(rx') = Len(rx) + 1 /\ Len(rx) \in Nat
      /\ \A i \in 1..Len(rx) : rx'[i] = rx[i]
  BY Said, ChannelFacts
<1>2. ctl.beat \in Nat
  BY BeatType
<1>3. ~Dry'
  BY <1>1, <1>2 DEF Dry
<1>4. Debt \in Nat /\ Debt' \in Nat /\ Debt <= Debt'
  BY DebtFacts
<1>5. CASE Dry
  <2>1. ctl.beat <= Debt
    BY <1>5 DEF Owed
  <2> DEFINE n == Len(rx')
  <2>2. rx'[n].age <= ctl'.beat /\ ctl'.beat - rx'[n].age <= Debt'
    BY <1>1, <1>2, <1>4, <2>1
  <2> QED BY <1>1, <1>3, <2>2 DEF Owed
<1>6. CASE ~Dry
  <2>1. PICK i \in 1..Len(rx) : rx[i].age <= ctl.beat /\ ctl.beat - rx[i].age <= Debt
    BY <1>6 DEF Owed
  <2>2. i \in 1..Len(rx') /\ rx'[i] = rx[i] /\ rx[i].age \in Nat
    BY <1>1, ChannelFacts
  <2>3. rx'[i].age <= ctl'.beat /\ ctl'.beat - rx'[i].age <= Debt'
    <3> DEFINE age == rx[i].age
               beat == ctl.beat
    <3>1. age \in Nat /\ beat \in Nat /\ age <= beat /\ beat - age <= Debt
      BY <1>2, <2>1, <2>2
    <3> HIDE DEF age, beat
    <3>2. beat - age <= Debt'
      BY <1>4, <3>1
    <3> QED BY <2>2, <3>1, <3>2 DEF age, beat
  <2> QED BY <1>3, <2>2, <2>3 DEF Owed
<1> QED BY <1>5, <1>6

\* A line that is not written, or a poll, costs the heartbeat a turn of its own.
LEMMA UpsetOwed ==
  ASSUME IInv, Turns, Owed, UNCHANGED rx, ctl'.beat = ctl.beat, clock'.upsets = clock.upsets + 1
  PROVE  Owed'
<1> SUFFICES ASSUME ctl.beat # NotSet PROVE Owed'
  BY DEF Owed
<1>1. /\ Debt \in Nat /\ Debt' = Debt + 1 /\ ctl.beat \in Nat /\ clock.upsets \in Nat
      /\ clock'.upsets >= 1
  BY DebtFacts, BeatType
<1>2. Dry' <=> Dry
  BY DEF Dry
<1>3. CASE Dry
  <2>1. ctl.beat <= Debt
    BY <1>3 DEF Owed
  <2>2. ctl'.beat <= Debt' /\ ctl'.beat < Debt'
    BY <1>1, <2>1
  <2> QED BY <1>1, <1>2, <1>3, <2>2 DEF Owed
<1>4. CASE ~Dry
  <2>1. PICK i \in 1..Len(rx) : rx[i].age <= ctl.beat /\ ctl.beat - rx[i].age <= Debt
    BY <1>4 DEF Owed
  <2>2. rx[i].age \in Nat
    BY ChannelFacts
  <2>3. ctl.beat - rx[i].age <= Debt'
    <3> DEFINE age == rx[i].age
               beat == ctl.beat
    <3>1. age \in Nat /\ beat \in Nat /\ beat - age <= Debt
      BY <1>1, <2>1, <2>2
    <3> HIDE DEF age, beat
    <3>2. beat - age <= Debt'
      BY <1>1, <3>1
    <3> QED BY <3>2 DEF age, beat
  <2> QED BY <1>2, <1>4, <2>1, <2>3 DEF Owed
<1> QED BY <1>3, <1>4

\* When a waiter was refused, the line of the owner, or what has become of it,
\* is the heartbeat's next turn.
LEMMA OwnedDebt ==
  ASSUME IInv, Flow, Leases, Turns, Owed, ctl.owner # NoOwner, ctl.beat # NotSet, Dry,
         ctl.write # "poll", ~dev.ask, dev.input = <<>>,
         \A t \in Commands : cmd[t].pc \notin {"prepare", "write"}
  PROVE  ctl.beat < Debt
<1>1. clock.upsets >= 1 /\ clock.upsets \in Nat /\ Debt \in Nat /\ ctl.beat \in Nat
  BY DebtFacts, BeatType DEF Owed
<1>2. ctl.lease = NoLease
  BY DEF Leases, Covered
<1>3. PICK s \in Commands : ctl.owner = OwnerOf(s) /\ (Between(s) \/ Writing(s) \/ Awaiting(s))
  BY DEF Flow, Busy
<1>4. CASE Heeding(s)
  <2>1. ctl.beat < Debt \/ ctl.beat + clock.upsets <= Debt
    BY <1>4 DEF Owed
  <2> QED BY <1>1, <2>1
<1>5. CASE ~Clean(rx)
  <2>1. PICK i \in 1..Len(rx) : rx[i].text \in Reply
    BY <1>5 DEF Clean
  <2>2. rx[i].age > ctl.beat /\ rx[i].age \in 0..Lag
    BY ChannelFacts DEF Dry
  <2>3. ctl.beat + clock.upsets <= Debt
    BY <1>1, <2>2, DebtFacts
  <2> QED BY <1>1, <2>3
<1>6. CASE Clean(rx) /\ ~Heeding(s)
  <2>1. Awaiting(s)
    BY <1>3, <1>6 DEF Between, Writing, Heeding
  <2>2. \A x : <<x>> # <<>>
    OBVIOUS
  <2>3. ~Sent(s) /\ ~Replied(s)
    BY <1>6, <2>2 DEF Sent, Replied
  <2>4. ~Homing(s)
    BY <1>2, <1>3, <2>1 DEF Leases, Leased, Homing, Awaiting
  <2>5. Received(s)
    BY <2>1, <2>3, <2>4 DEF Awaiting
  <2>6. cmd[s].pc = "wait" /\ cmd[s].rxCh # <<>>
    <3>1. \A q : Len(q) = 1 => q # <<>>
      BY EmptySeq
    <3> QED BY <2>1, <2>5, <3>1 DEF Received, Awaiting
  <2> QED BY <1>6, <2>6 DEF Heeding
<1> QED BY <1>4, <1>5, <1>6

LEMMA TurnsSame ==
  ASSUME Turns, ctl'.waiters = ctl.waiters, ctl'.write = ctl.write, clock'.polled = clock.polled, clock' \in Clock,
         \A t \in Commands : cmd[t].pc = "admission" => cmd'[t].pc = "admission"
  PROVE  Turns'
BY DEF Turns

LEMMA UpsetsCounted ==
  ASSUME Turns, CountUpset, clock.upsets < MaxUpsets
  PROVE  clock'.upsets = clock.upsets + 1 /\ clock' \in Clock /\ clock'.polled = clock.polled
BY SessionAssumption DEF CountUpset, Turns, Clock

\* A step of one command.
LEMMA CommandOwed ==
  ASSUME Turns, Owed, NEW s \in Commands, ctl'.beat = ctl.beat, ctl'.write = ctl.write,
         UNCHANGED <<rx, clock>>, dev'.ask = dev.ask,
         \A t \in Commands : t # s => cmd'[t] = cmd[t],
         ctl.beat # NotSet /\ Dry =>
           /\ ~Pending' => ctl.beat < Debt
           /\ Heeding(s)' => ctl.beat < Debt \/ ctl.beat + clock.upsets <= Debt
  PROVE  Owed'
<1>1. ASSUME ctl.beat # NotSet, Dry, NEW t \in Commands, Heeding(t)'
      PROVE  ctl.beat < Debt \/ ctl.beat + clock.upsets <= Debt
  <2>1. CASE t = s
    BY <1>1, <2>1
  <2>2. CASE t # s
    <3>1. Heeding(t)
      BY <1>1, <2>2 DEF Heeding
    <3> QED BY <1>1, <3>1 DEF Owed
  <2> QED BY <2>1, <2>2
<1>2. ctl.beat # NotSet /\ Dry /\ ctl'.write # "poll" /\ ~dev'.ask => clock.upsets >= 1
  BY DEF Owed
<1> QED BY <1>1, <1>2, OwedKept

LEMMA IssueHeartbeat ==
  ASSUME IInv, Flow, Heartbeat, NEW s \in Commands, Issue(s)
  PROVE  Heartbeat'
<1>1. /\ ctl' = [ctl EXCEPT !.waiters = @ \cup {s}] /\ UNCHANGED <<rx, dev, clock>> /\ Owned(ctl)
      /\ cmd[s] = NoCommand
  BY DEF Issue, IInv
<1>2. \A t \in Commands : t # s => cmd'[t] = cmd[t]
  BY DEF Issue, IInv, Held, CmdInv
<1>3. cmd'[s].pc = "admission"
  <2>1. PICK kind \in Kinds : \E line \in LinesOf(kind) :
          cmd' = [cmd EXCEPT ![s] = [NoCommand EXCEPT !.kind = kind, !.pc = "admission", !.at = 1,
                                                      !.line = line]]
    BY DEF Issue
  <2>2. PICK line \in LinesOf(kind) :
          cmd' = [cmd EXCEPT ![s] = [NoCommand EXCEPT !.kind = kind, !.pc = "admission", !.at = 1,
                                                      !.line = line]]
    BY <2>1
  <2> DEFINE x == [NoCommand EXCEPT !.kind = kind, !.pc = "admission", !.at = 1, !.line = line]
  <2>3. cmd' = [cmd EXCEPT ![s] = x] /\ x.pc = "admission"
    BY <2>2 DEF NoCommand
  <2> HIDE DEF x
  <2> QED BY <2>3 DEF IInv, Held, CmdInv
<1>4. /\ ctl'.beat = ctl.beat /\ ctl'.write = ctl.write /\ ctl'.waiters = ctl.waiters \cup {s}
  BY <1>1, SmallSteps, StillSteps
<1>5. Pending' /\ ~Heeding(s)'
  BY <1>3 DEF Pending, Heeding
<1>6. Owed'
  BY <1>1, <1>2, <1>4, <1>5, CommandOwed DEF Heartbeat
<1>7. Turns'
  BY <1>1, <1>2, <1>3, <1>4 DEF Heartbeat, Turns
<1> QED BY <1>6, <1>7 DEF Heartbeat

LEMMA AdmitHeartbeat ==
  ASSUME IInv, Flow, Leases, Heartbeat, NEW s \in Commands, Admit(s)
  PROVE  Heartbeat'
<1> DEFINE owned == [Registered(s) EXCEPT !.owner = OwnerOf(s)]
<1>1. /\ UNCHANGED <<rx, dev, clock>> /\ cmd[s].pc = "admission" /\ cmd[s].line.kind # "reset"
      /\ ctl.owner.cmd # s /\ ctl.write # "poll" /\ CmdInv /\ Owned(ctl) /\ cmd[s].line \in Line
      /\ ctl.snapshot # 0
      /\ \/ ctl.owner # NoOwner /\ ctl' = Registered(s) /\ Goes(s, "done")
         \/ /\ Owned(owned) /\ owned.snapshot = ctl.snapshot
            /\ owned.beat = ctl.beat /\ owned.waiters = ctl.waiters \ {s}
            /\ \/ ctl' = owned /\ Goes(s, "prepare")
               \/ ctl' = Prepare(owned, Op(s), cmd[s].line) /\ Goes(s, "write")
  BY AdmitCases, OwnerFacts
<1>2. owned.write = ctl.write /\ Registered(s).write = ctl.write
      /\ Registered(s).beat = ctl.beat /\ Registered(s).waiters = ctl.waiters \ {s}
  <2>1. Registered(s) = [ctl EXCEPT !.waiters = @ \ {s}] /\ Registered(s) \in CommandsType
    BY <1>1 DEF Registered, Owned, CommandsType
  <2>2. /\ Registered(s).write = ctl.write /\ Registered(s).beat = ctl.beat
        /\ Registered(s).waiters = ctl.waiters \ {s}
    BY <1>1, <2>1, SmallSteps, StillSteps
  <2> QED BY <2>1, <2>2 DEF CommandsType
<1> HIDE DEF owned
<1>3. PICK pc \in {"done", "prepare", "write"} : Goes(s, pc)
  BY <1>1
<1>4. /\ cmd'[s].pc = pc /\ \A t \in Commands : t # s => cmd'[t] = cmd[t]
      /\ ctl'.write = ctl.write /\ ctl'.waiters = ctl.waiters \ {s}
      /\ ctl'.beat \in {ctl.beat, NotSet} /\ (pc = "done" => ctl'.beat = ctl.beat)
      /\ pc = "done" => ctl.owner # NoOwner
  <2>1. cmd'[s].pc = pc /\ \A t \in Commands : t # s => cmd'[t] = cmd[t]
    BY <1>1, <1>3, GoesFields
  <2>2. CASE ctl.owner # NoOwner /\ ctl' = Registered(s)
    BY <1>2, <2>1, <2>2
  <2>3. CASE /\ Owned(owned) /\ owned.snapshot = ctl.snapshot
             /\ owned.beat = ctl.beat /\ owned.waiters = ctl.waiters \ {s}
             /\ \/ ctl' = owned /\ Goes(s, "prepare")
                \/ ctl' = Prepare(owned, Op(s), cmd[s].line) /\ Goes(s, "write")
    <3>1. pc # "done"
      <4>1. cmd'[s].pc # "done"
        BY <1>1, <2>3, GoesFields
      <4> QED BY <2>1, <4>1
    <3>2. CASE ctl' = owned
      BY <1>2, <2>1, <2>3, <3>1, <3>2
    <3>3. CASE ctl' = Prepare(owned, Op(s), cmd[s].line)
      <4>1. ASSUME NEW m \in Line, m.kind # "reset"
            PROVE  LET d == Prepare(owned, Op(s), m) IN
                   d.waiters = owned.waiters /\ d.beat \in {owned.beat, NotSet} /\ d.write = owned.write
        <5>1. Owned(owned) /\ owned.snapshot # 0
          BY <1>1, <2>3
        <5> HIDE DEF owned
        <5>2. LET d == Prepare(owned, Op(s), m) IN
              d.waiters = owned.waiters /\ d.beat \in {owned.beat, NotSet}
          BY <4>1, <5>1, PrepareTimes
        <5> QED BY <4>1, <5>1, <5>2, PrepareFields
      <4>2. ctl'.waiters = owned.waiters /\ ctl'.beat \in {owned.beat, NotSet} /\ ctl'.write = owned.write
        <5> HIDE DEF owned
        <5> QED BY <1>1, <3>3, <4>1
      <4> QED BY <1>2, <2>1, <2>3, <3>1, <4>2
    <3> QED BY <2>3, <3>2, <3>3
  <2> QED BY <1>1, <2>2, <2>3
<1>5. Turns'
  BY <1>1, <1>4 DEF Heartbeat, Turns
<1>6. CASE ctl'.beat = NotSet
  BY <1>5, <1>6 DEF Heartbeat, Owed
<1>7. CASE ctl'.beat = ctl.beat
  <2>1. ~Heeding(s)'
    BY <1>4 DEF Heeding
  <2>2. pc # "done" => Pending'
    BY <1>4 DEF Pending
  <2>3. ASSUME ctl.beat # NotSet, Dry, pc = "done", ~Pending'
        PROVE  ctl.beat < Debt
    <3>1. ~dev.ask /\ dev.input = <<>> /\ \A t \in Commands : cmd'[t].pc \notin {"prepare", "write"}
      BY <1>1, <2>3 DEF Pending
    <3>2. \A t \in Commands : cmd[t].pc \notin {"prepare", "write"}
      BY <1>1, <1>4, <3>1
    <3> QED BY <1>1, <1>4, <2>3, <3>1, <3>2, OwnedDebt DEF Heartbeat
  <2>4. Owed'
    BY <1>1, <1>4, <1>7, <2>1, <2>2, <2>3, CommandOwed DEF Heartbeat
  <2> QED BY <1>5, <2>4 DEF Heartbeat
<1> QED BY <1>4, <1>6, <1>7

LEMMA PrepareLineHeartbeat ==
  ASSUME IInv, Flow, Leases, Heartbeat, NEW s \in Commands, PrepareLine(s)
  PROVE  Heartbeat'
<1>1. /\ UNCHANGED <<rx, dev, clock>> /\ cmd[s].pc = "prepare" /\ Goes(s, "write")
      /\ cmd[s].line.kind # "reset" /\ cmd[s].line \in Line /\ Owned(ctl) /\ CmdInv /\ ctl.snapshot # 0
      /\ UNCHANGED ctl \/ ctl' = Prepare(ctl, Op(s), cmd[s].line)
  BY PrepareLineCases, OwnerFacts
<1>2. cmd'[s].pc = "write" /\ \A t \in Commands : t # s => cmd'[t] = cmd[t]
  BY <1>1, GoesFields
<1>3. ctl'.waiters = ctl.waiters /\ ctl'.write = ctl.write /\ ctl'.beat \in {ctl.beat, NotSet}
  <2>1. CASE ctl' = Prepare(ctl, Op(s), cmd[s].line)
    <3>1. ctl'.waiters = ctl.waiters /\ ctl'.beat \in {ctl.beat, NotSet}
      BY <1>1, <2>1, PrepareTimes
    <3>2. ctl'.write = ctl.write
      BY <1>1, <2>1, PrepareFields
    <3> QED BY <3>1, <3>2
  <2> QED BY <1>1, <2>1
<1>4. Turns'
  <2>1. \A t \in Commands : cmd[t].pc = "admission" => cmd'[t].pc = "admission"
    BY <1>1, <1>2
  <2> QED BY <1>1, <1>3, <2>1, TurnsSame DEF Heartbeat, Turns
<1>5. Pending' /\ ~Heeding(s)'
  BY <1>2 DEF Pending, Heeding
<1>6. CASE ctl'.beat = NotSet
  BY <1>4, <1>6 DEF Heartbeat, Owed
<1>7. CASE ctl'.beat = ctl.beat
  BY <1>1, <1>2, <1>3, <1>4, <1>5, <1>7, CommandOwed DEF Heartbeat
<1> QED BY <1>3, <1>6, <1>7

LEMMA WriteLineHeartbeat ==
  ASSUME IInv, Flow, Heartbeat, NEW s \in Commands, WriteLine(s)
  PROVE  Heartbeat'
<1>1. /\ UNCHANGED <<ctl, rx, clock>> /\ cmd[s].pc = "write" /\ cmd'[s].pc \in {"wait", "done"}
      /\ cmd'[s].rxCh = <<>> /\ \A t \in Commands : t # s => cmd'[t] = cmd[t]
      /\ dev'.input # <<>> /\ dev'.ask = dev.ask
  BY WriteLineCases
<1>2. Turns'
  <2>1. \A t \in Commands : cmd[t].pc = "admission" => cmd'[t].pc = "admission"
    BY <1>1
  <2> QED BY <1>1, <2>1, TurnsSame DEF Heartbeat, Turns
<1>3. Pending' /\ ~Heeding(s)'
  BY <1>1 DEF Pending, Heeding
<1> QED BY <1>1, <1>2, <1>3, CommandOwed DEF Heartbeat

LEMMA WriteLineFailsHeartbeat ==
  ASSUME IInv, Flow, Leases, Heartbeat, NEW s \in Commands, WriteLineFails(s)
  PROVE  Heartbeat'
<1>1. /\ UNCHANGED <<rx, dev>> /\ cmd[s].pc = "write" /\ CountUpset /\ clock.upsets < MaxUpsets
      /\ ctl'.beat = ctl.beat /\ ctl'.waiters = ctl.waiters /\ ctl'.write = ctl.write
      /\ Goes(s, "end") \/ Goes(s, "done")
  BY WriteLineFailsCases
<1>2. \A t \in Commands : t # s => cmd'[t] = cmd[t]
  BY <1>1, GoesFields, OwnerFacts
<1>3. /\ clock'.upsets = clock.upsets + 1 /\ clock' \in Clock
      /\ clock'.polled = clock.polled
  BY <1>1, UpsetsCounted DEF Heartbeat
<1>4. Turns'
  <2>1. \A t \in Commands : cmd[t].pc = "admission" => cmd'[t].pc = "admission"
    BY <1>1, <1>2
  <2> QED BY <1>1, <1>3, <2>1, TurnsSame DEF Heartbeat
<1> QED BY <1>1, <1>3, <1>4, UpsetOwed DEF Heartbeat

LEMMA TakesLineHeartbeat ==
  ASSUME IInv, Flow, Leases, Heartbeat, NEW s \in Commands, TakeOK(s) \/ TakeFailure(s)
  PROVE  Heartbeat'
<1>1. /\ UNCHANGED <<rx, dev, clock>> /\ cmd[s].pc = "wait" /\ cmd[s].rxCh # <<>>
      /\ ctl'.beat = ctl.beat /\ ctl'.waiters = ctl.waiters /\ ctl'.write = ctl.write
      /\ cmd'[s].pc \in {"prepare", "end"} /\ \A t \in Commands : t # s => cmd'[t] = cmd[t]
  BY TakesCases
<1>2. Turns'
  <2>1. \A t \in Commands : cmd[t].pc = "admission" => cmd'[t].pc = "admission"
    BY <1>1
  <2> QED BY <1>1, <2>1, TurnsSame DEF Heartbeat, Turns
<1>3. Pending => Pending'
  BY <1>1 DEF Pending
<1>4. Heeding(s)
  BY <1>1 DEF Heeding
<1>5. ctl.beat # NotSet /\ Dry =>
        /\ ~Pending' => ctl.beat < Debt
        /\ ctl.beat < Debt \/ ctl.beat + clock.upsets <= Debt
  BY <1>3, <1>4 DEF Heartbeat, Owed
<1> QED BY <1>1, <1>2, <1>5, CommandOwed DEF Heartbeat

LEMMA EndSessionHeartbeat ==
  ASSUME IInv, Flow, Heartbeat, NEW s \in Commands, EndSession(s)
  PROVE  Heartbeat'
<1>1. /\ UNCHANGED <<rx, dev, clock>> /\ cmd[s].pc = "end" /\ Goes(s, "done")
      /\ ctl'.beat = ctl.beat /\ ctl'.waiters = ctl.waiters /\ ctl'.write = ctl.write
  BY EndSessionCases
<1>2. cmd'[s].pc = "done" /\ \A t \in Commands : t # s => cmd'[t] = cmd[t]
  BY <1>1, GoesFields, OwnerFacts
<1>3. Turns'
  <2>1. \A t \in Commands : cmd[t].pc = "admission" => cmd'[t].pc = "admission"
    BY <1>1, <1>2
  <2> QED BY <1>1, <2>1, TurnsSame DEF Heartbeat, Turns
<1>4. (Pending => Pending') /\ ~Heeding(s)'
  BY <1>1, <1>2 DEF Pending, Heeding
<1>5. ctl.beat # NotSet /\ Dry /\ ~Pending' => ctl.beat < Debt
  BY <1>4 DEF Heartbeat, Owed
<1> QED BY <1>1, <1>2, <1>3, <1>4, <1>5, CommandOwed DEF Heartbeat

LEMMA PollHeartbeat ==
  ASSUME IInv, Flow, Leases, Heartbeat, PollRefused \/ PollAdmitted
  PROVE  Heartbeat'
<1>1. /\ UNCHANGED <<cmd, rx, dev>> /\ Owned(ctl) /\ ~clock.polled /\ ctl.write = "none"
      /\ clock' = [clock EXCEPT !.polled = TRUE]
  BY DEF PollRefused, PollAdmitted, IInv, Heartbeat, Turns
<1>2. clock' \in Clock /\ clock'.polled /\ clock'.upsets = clock.upsets
  BY <1>1 DEF Heartbeat, Turns, Clock
<1>3. \A t \in Commands : Heeding(t)' <=> Heeding(t)
  BY <1>1 DEF Heeding
<1>4. CASE PollRefused
  <2>1. UNCHANGED ctl /\ (ctl.lease # NoLease \/ ctl.waiters # {})
    BY <1>1, <1>4 DEF PollRefused, AdmitsPoll
  <2>2. Turns'
    BY <1>1, <1>2, <2>1 DEF Heartbeat, Turns
  <2>3. CASE ctl.beat = NotSet
    BY <2>1, <2>2, <2>3 DEF Heartbeat, Owed
  <2>4. CASE ctl.beat # NotSet
    <3>1. ctl.waiters # {}
      BY <2>1, <2>4 DEF Leases, Covered
    <3>2. \E t \in Commands : cmd'[t].pc = "admission"
      BY <1>1, <3>1 DEF Heartbeat, Turns
    <3>3. Pending'
      BY <3>2 DEF Pending
    <3>4. Owed'
      BY <1>1, <1>2, <1>3, <2>1, <3>3, OwedKept DEF Heartbeat, Owed
    <3> QED BY <2>2, <3>4 DEF Heartbeat
  <2> QED BY <2>3, <2>4
<1>5. CASE PollAdmitted
  <2>1. ctl' = BeginPoll(ctl)
    BY <1>5 DEF PollAdmitted
  <2>2. /\ ctl'.write = "poll" /\ ctl'.waiters = ctl.waiters
        /\ ctl'.beat = IF ctl.beat = NotSet THEN 0 ELSE ctl.beat
    BY <1>1, <2>1, SmallSteps, StillSteps
  <2>3. Turns'
    BY <1>1, <1>2, <2>2 DEF Heartbeat, Turns
  <2>4. Pending'
    BY <2>2 DEF Pending
  <2>5. CASE ctl.beat = NotSet
    <3>1. ctl'.beat = 0 /\ Debt' \in Nat /\ clock'.upsets \in Nat /\ clock'.upsets <= Debt'
      BY <1>2, <2>2, <2>5, DebtFacts DEF Heartbeat
    <3>2. ~Dry' => \E i \in 1..Len(rx') : rx'[i].age <= ctl'.beat /\ ctl'.beat - rx'[i].age <= Debt'
      <4> SUFFICES ASSUME ~Dry' PROVE \E i \in 1..Len(rx) : rx[i].age <= 0 /\ 0 - rx[i].age <= Debt'
        BY <1>1, <3>1
      <4>1. PICK i \in 1..Len(rx) : ~(rx[i].age > 0)
        BY <1>1, <3>1 DEF Dry
      <4>2. rx[i].age = 0
        BY <4>1, ChannelFacts
      <4> QED BY <3>1, <4>2
    <3>3. \A t \in Commands : ctl'.beat + clock'.upsets <= Debt'
      BY <3>1
    <3>4. Owed'
      BY <2>2, <2>4, <3>1, <3>2, <3>3 DEF Owed
    <3> QED BY <2>3, <3>4 DEF Heartbeat
  <2>6. CASE ctl.beat # NotSet
    <3>1. Owed'
      BY <1>1, <1>2, <1>3, <2>2, <2>4, <2>6, OwedKept DEF Heartbeat, Owed
    <3> QED BY <2>3, <3>1 DEF Heartbeat
  <2> QED BY <2>5, <2>6
<1> QED BY <1>4, <1>5

LEMMA WritePollHeartbeat ==
  ASSUME IInv, Flow, Heartbeat, WritePoll
  PROVE  Heartbeat'
<1>1. /\ ctl' = [ctl EXCEPT !.write = "none"] /\ UNCHANGED <<cmd, rx>> /\ Owned(ctl)
      /\ \/ dev' = [dev EXCEPT !.ask = @ \/ dev.alive] /\ UNCHANGED clock
         \/ CountUpset /\ clock.upsets < MaxUpsets
  BY DEF WritePoll, Upset, IInv
<1>2. ctl'.write = "none" /\ ctl'.beat = ctl.beat /\ ctl'.waiters = ctl.waiters
  BY <1>1, SmallSteps, StillSteps DEF SameTimes
<1>3. CASE dev' = [dev EXCEPT !.ask = @ \/ dev.alive] /\ UNCHANGED clock
  <2>1. Turns'
    BY <1>1, <1>2, <1>3 DEF Heartbeat, Turns
  <2>2. dev'.ask
    BY <1>3 DEF Flow, Calm, IInv, Held, DevInv, MachineType
  <2>3. Pending' /\ \A t \in Commands : Heeding(t)' <=> Heeding(t)
    BY <1>1, <2>2 DEF Pending, Heeding
  <2>4. Owed'
    BY <1>1, <1>2, <1>3, <2>2, <2>3, OwedKept DEF Heartbeat, Owed
  <2> QED BY <2>1, <2>4 DEF Heartbeat
<1>4. CASE CountUpset /\ clock.upsets < MaxUpsets
  <2>1. clock'.upsets = clock.upsets + 1 /\ clock' \in Clock
    BY <1>4, UpsetsCounted DEF Heartbeat
  <2>2. Turns'
    BY <1>1, <1>2, <2>1 DEF Heartbeat, Turns
  <2> QED BY <1>1, <1>2, <2>1, <2>2, UpsetOwed DEF Heartbeat
<1> QED BY <1>1, <1>3, <1>4

LEMMA CheckHeartbeat ==
  ASSUME InTime, IInv, Flow, Leases, Heartbeat, CheckWatchdog
  PROVE  Heartbeat'
<1>1. UNCHANGED <<ctl, cmd, rx, dev>> /\ clock' = [clock EXCEPT !.checked = TRUE]
  BY Responsive DEF CheckWatchdog
<1>2. clock' \in Clock /\ clock'.polled = clock.polled /\ clock'.upsets = clock.upsets
  BY <1>1 DEF Heartbeat, Turns, Clock
<1>3. Turns'
  BY <1>1, <1>2 DEF Heartbeat, Turns
<1>4. (Pending' <=> Pending) /\ \A t \in Commands : Heeding(t)' <=> Heeding(t)
  BY <1>1, <1>2 DEF Pending, Heeding
<1>5. Owed'
  BY <1>1, <1>2, <1>4, OwedKept DEF Heartbeat, Owed
<1> QED BY <1>3, <1>5 DEF Heartbeat

\* What the bridge reads and does not end the wait was said before the poll: whoever
\* it wakes is woken in time.
LEMMA BridgeHeartbeat ==
  ASSUME IInv, Flow, Heartbeat, Bridge
  PROVE  Heartbeat'
<1> DEFINE e == Head(rx)
           next == IF ctl.beat # NotSet /\ e.age <= ctl.beat THEN NotSet ELSE ctl.beat
<1>1. /\ rx # <<>> /\ rx' = Tail(rx) /\ UNCHANGED <<dev, clock>> /\ ctl'.beat = next
      /\ ctl'.waiters = ctl.waiters /\ ctl'.write = ctl.write
      /\ \A t \in Commands : cmd'[t].pc = cmd[t].pc
  <2>1. /\ rx # <<>> /\ rx' = Tail(rx) /\ UNCHANGED <<dev, clock>> /\ ctl'.beat = next
        /\ ctl'.waiters = ctl.waiters /\ ctl'.write = ctl.write
        /\ \/ UNCHANGED cmd
           \/ \E s \in Commands : /\ cmd[s].pc = "wait" /\ cmd'[s].pc = "wait"
                                  /\ \A t \in Commands : t # s => cmd'[t] = cmd[t]
    BY BridgeCases
  <2>2. \A t \in Commands : cmd'[t].pc = cmd[t].pc
    <3>1. ASSUME NEW s \in Commands, cmd[s].pc = "wait", cmd'[s].pc = "wait",
                 \A t \in Commands : t # s => cmd'[t] = cmd[t]
          PROVE  \A t \in Commands : cmd'[t].pc = cmd[t].pc
      BY <3>1
    <3> QED BY <2>1, <3>1
  <2> QED BY <2>1, <2>2
<1>2. Turns'
  BY <1>1, TurnsSame DEF Heartbeat, Turns
<1>3. CASE ctl'.beat = NotSet
  BY <1>2, <1>3 DEF Heartbeat, Owed
<1>4. CASE ctl'.beat # NotSet
  <2>1. /\ ctl.beat # NotSet /\ ctl'.beat = ctl.beat /\ ~(e.age <= ctl.beat)
    BY <1>1, <1>4
  <2>2. /\ ctl.beat \in Nat /\ e.age \in 0..Lag /\ e = rx[1] /\ e.age > ctl.beat
    <3>1. ctl.beat \in Nat /\ e.age \in 0..Lag /\ e.age \in Nat /\ e = rx[1]
      BY <1>1, <2>1, BeatType, TailFacts
    <3> QED BY <2>1, <3>1
  <2>3. /\ Debt' = Debt /\ Debt \in Nat /\ clock'.upsets = clock.upsets
        /\ ctl.beat + clock.upsets <= Debt
    BY <1>1, <2>2, DebtFacts DEF Heartbeat
  <2>4. \A i \in 1..Len(rx) : rx[i].age <= ctl.beat =>
          \E j \in 1..Len(rx') : rx'[j] = rx[i]
    <3> SUFFICES ASSUME NEW i \in 1..Len(rx), rx[i].age <= ctl.beat
                 PROVE  \E j \in 1..Len(rx') : rx'[j] = rx[i]
      OBVIOUS
    <3>1. i # 1
      BY <2>1, <2>2
    <3> QED BY <1>1, <3>1, TailFacts
  <2>5. \A j \in 1..Len(rx') : \E i \in 1..Len(rx) : rx'[j] = rx[i]
    BY <1>1, TailFacts
  <2>6. Dry' <=> Dry
    <3>1. ASSUME Dry PROVE Dry'
      BY <2>1, <2>5, <3>1 DEF Dry
    <3>2. ASSUME ~Dry PROVE ~Dry'
      <4>1. PICK i \in 1..Len(rx) : ~(rx[i].age > ctl.beat)
        BY <3>2 DEF Dry
      <4>2. rx[i].age <= ctl.beat
        BY <2>2, <4>1, ChannelFacts
      <4> QED BY <2>1, <2>4, <4>1, <4>2 DEF Dry
    <3> QED BY <3>1, <3>2
  <2>7. CASE ~Dry
    <3>1. PICK i \in 1..Len(rx) : rx[i].age <= ctl.beat /\ ctl.beat - rx[i].age <= Debt
      BY <2>1, <2>7 DEF Heartbeat, Owed
    <3>2. \E j \in 1..Len(rx') : rx'[j].age <= ctl'.beat /\ ctl'.beat - rx'[j].age <= Debt'
      BY <2>1, <2>3, <2>4, <3>1
    <3> QED BY <1>2, <2>6, <2>7, <3>2 DEF Heartbeat, Owed
  <2>8. CASE Dry
    <3>1. Pending' <=> Pending
      BY <1>1 DEF Pending
    <3>2. /\ ctl.beat <= Debt
          /\ ctl.write # "poll" /\ ~dev.ask => clock.upsets >= 1
          /\ ~Pending => ctl.beat < Debt
      BY <2>1, <2>8 DEF Heartbeat, Owed
    <3>3. Owed'
      BY <1>1, <2>1, <2>3, <2>6, <2>8, <3>1, <3>2 DEF Owed
    <3> QED BY <1>2, <3>3 DEF Heartbeat
  <2> QED BY <2>7, <2>8
<1> QED BY <1>3, <1>4

LEMMA MachineHeartbeat ==
  ASSUME Undisturbed, IInv, Flow, Leases, Heartbeat, Machine
  PROVE  Heartbeat'
<1>1. UNCHANGED <<ctl, cmd>>
  BY DEF Machine, Takes, Homed, Adjusts, Reports
<1>2. ASSUME clock' \in Clock, clock'.polled = clock.polled PROVE Turns'
  BY <1>1, <1>2, TurnsSame DEF Heartbeat
<1>3. ASSUME NEW text \in Text, NEW op \in Answered, Says(text, op), UNCHANGED clock
      PROVE  Heartbeat'
  <2>1. Turns'
    BY <1>2, <1>3 DEF Heartbeat, Turns
  <2> QED BY <1>1, <1>3, <2>1, SaidOwed DEF Heartbeat
<1>4. CASE Takes
  <2>1. PICK s \in Commands :
          LET line == cmd[s].line IN
          /\ ctl.owner = OwnerOf(s) /\ Awaiting(s)
          /\ \/ line.kind \in Silent /\ UNCHANGED <<rx, clock>>
             \/ line.kind \notin Silent /\ Says("ok", Op(s)) /\ UNCHANGED clock
             \/ /\ Says("error", Op(s))
                /\ UNCHANGED clock \/ (CountUpset /\ clock.upsets < MaxUpsets)
    BY <1>4, TakenCases
  <2>2. "ok" \in Text /\ "error" \in Text /\ Op(s) \in Answered
    BY OwnerFacts DEF Text, Answered
  <2>3. CASE cmd[s].line.kind \in Silent /\ UNCHANGED <<rx, clock>>
    <3>1. ctl.lease # NoLease
      BY <2>1, <2>3 DEF Leases, Leased, Awaiting
    <3>2. ctl'.beat = NotSet
      BY <1>1, <3>1 DEF Leases, Covered
    <3> QED BY <1>2, <2>3, <3>2 DEF Heartbeat, Turns, Owed
  <2>4. CASE Says("error", Op(s)) /\ CountUpset /\ clock.upsets < MaxUpsets
    <3>1. clock'.upsets = clock.upsets + 1 /\ clock' \in Clock /\ clock'.polled = clock.polled
      BY <2>4, UpsetsCounted DEF Heartbeat
    <3>2. Turns'
      BY <1>2, <3>1
    <3> QED BY <1>1, <2>2, <2>4, <3>1, <3>2, SaidOwed DEF Heartbeat
  <2> QED BY <1>3, <2>1, <2>2, <2>3, <2>4
<1>5. CASE Homed
  <2>1. Says("ok", dev.op) /\ UNCHANGED clock /\ dev.op \in Answered
    BY <1>5 DEF Homed, IInv, Held, DevInv, MachineType
  <2> QED BY <1>3, <2>1 DEF Text
<1>6. CASE Adjusts
  <2>1. PICK text \in Progress : Says(text, NoOp)
    BY <1>6 DEF Adjusts
  <2> QED BY <1>3, <1>6, <2>1, Bounds DEF Adjusts, Text
<1>7. CASE Reports
  <2>1. PICK text \in {"alarm status", "idle"} : Says(text, NoOp)
    BY <1>7 DEF Reports
  <2>2. text \in Text
    BY DEF Text
  <2> QED BY <1>3, <1>7, <2>1, <2>2, Bounds DEF Reports
<1> QED BY <1>4, <1>5, <1>6, <1>7 DEF Machine

LEMMA TickHeartbeat ==
  ASSUME InTime, IInv, Flow, Leases, Heartbeat, Tick
  PROVE  Heartbeat'
<1>1. /\ UNCHANGED cmd /\ ctl'.write = "none" /\ ctl.write = "none" /\ ctl'.waiters = ctl.waiters
      /\ ctl'.beat = IF ctl.beat = NotSet THEN NotSet ELSE Older(ctl.beat)
      /\ Len(rx') = Len(rx)
      /\ \A i \in 1..Len(rx) : rx'[i].age = rx[i].age + 1 /\ rx[i].age \in Nat
      /\ dev'.ask = dev.ask
      /\ dev.homing = NotSet => dev.input = <<>> /\ ~dev.ask
      /\ clock.polled /\ clock'.upsets = clock.upsets /\ ~clock'.polled
      /\ \A s \in Commands : /\ cmd[s].pc \in {"new", "done", "wait"}
                             /\ cmd[s].pc = "wait" => cmd[s].rxCh = <<>>
  BY TickFacts
<1>2. Turns'
  <2>1. clock' \in Clock
    BY DEF Tick, Heartbeat, Turns, Clock
  <2> QED BY <1>1, <2>1 DEF Heartbeat, Turns
<1>3. CASE ctl.beat = NotSet
  BY <1>1, <1>2, <1>3 DEF Heartbeat, Owed
<1>4. CASE ctl.beat # NotSet
  <2>1. ctl.beat \in Nat /\ ctl'.beat = ctl.beat + 1
    <3>1. ctl.beat < Timeout /\ ctl.beat \in Nat /\ ctl.beat \in 0..MaxAge /\ Timeout <= MaxAge
          /\ Timeout \in Nat /\ MaxAge \in Nat
      BY <1>4, BeatInTime, BeatType, CommandAssumption, AgeType DEF MaxAge
    <3> QED BY <1>1, <1>4, <3>1 DEF Older
  <2>2. Debt' = Debt /\ Debt \in Nat
    BY <1>1, DebtFacts DEF Heartbeat
  <2>3. Dry' <=> Dry
    <3>1. ASSUME NEW i \in 1..Len(rx) PROVE rx'[i].age > ctl'.beat <=> rx[i].age > ctl.beat
      <4> DEFINE age == rx[i].age
                 beat == ctl.beat
      <4>1. /\ age \in Nat /\ beat \in Nat /\ rx'[i].age = age + 1 /\ ctl'.beat = beat + 1
        BY <1>1, <2>1
      <4> HIDE DEF age, beat
      <4>2. age + 1 > beat + 1 <=> age > beat
        BY <4>1
      <4> QED BY <4>1, <4>2 DEF age, beat
    <3> QED BY <1>1, <3>1 DEF Dry
  <2>4. dev.homing = NotSet
    BY <1>4, HomingCounted
  <2>5. CASE Dry
    <3>1. ~Pending
      BY <1>1, <2>4 DEF Pending
    <3>2. ctl.beat < Debt /\ clock.upsets >= 1
      BY <1>1, <1>4, <2>4, <2>5, <3>1 DEF Heartbeat, Owed
    <3>3. ctl'.beat <= Debt'
      BY <2>1, <2>2, <3>2
    <3>4. Pending' /\ \A s \in Commands : ~Heeding(s)'
      BY <1>1 DEF Pending, Heeding
    <3>5. Owed'
      BY <1>1, <2>3, <2>5, <3>2, <3>3, <3>4 DEF Owed
    <3> QED BY <1>2, <3>5 DEF Heartbeat
  <2>6. CASE ~Dry
    <3>1. PICK i \in 1..Len(rx) : rx[i].age <= ctl.beat /\ ctl.beat - rx[i].age <= Debt
      BY <1>4, <2>6 DEF Heartbeat, Owed
    <3>2. i \in 1..Len(rx') /\ rx'[i].age <= ctl'.beat /\ ctl'.beat - rx'[i].age <= Debt'
      <4> DEFINE age == rx[i].age
                 beat == ctl.beat
                 old == rx'[i].age
                 later == ctl'.beat
      <4>1. /\ age \in Nat /\ beat \in Nat /\ old = age + 1 /\ later = beat + 1
            /\ age <= beat /\ beat - age <= Debt /\ Debt' = Debt /\ i \in 1..Len(rx')
        BY <1>1, <2>1, <2>2, <3>1
      <4> HIDE DEF age, beat, old, later
      <4>2. old <= later /\ later - old <= Debt'
        BY <2>2, <4>1
      <4> QED BY <4>1, <4>2 DEF old, later
    <3>3. Owed'
      BY <2>3, <2>6, <3>2 DEF Owed
    <3> QED BY <1>2, <3>3 DEF Heartbeat
  <2> QED BY <2>5, <2>6
<1> QED BY <1>3, <1>4

-----------------------------------------------------------------------------
(* The flow of answers, the leases and the heartbeat hold together. *)

LEMMA InitTimed == Undisturbed /\ Init => Flow /\ Leases /\ Heartbeat
<1> SUFFICES ASSUME Init PROVE Flow /\ Leases /\ Heartbeat
  OBVIOUS
<1>1. Idle /\ Stored
  BY EmptySeq DEF Init, InitMachine, InitCommands, Idle, Stored, Clean
<1>2. Calm
  BY EmptySeq DEF Init, InitMachine, InitCommands, Calm, NoCommand, NoLine, Working
<1>3. Waiters
  BY DEF Init, Waiters, NoCommand
<1>4. ctl.owner = NoOwner /\ ctl.lease = NoLease /\ ctl.beat = NotSet
  BY DEF Init, InitCommands
<1>5. Leases
  <2>1. \A s \in Commands : ctl.owner # OwnerOf(s)
    BY <1>4 DEF OwnerOf, NoOwner
  <2>2. Announced
    BY EmptySeq DEF Init, Announced
  <2> QED BY <1>4, <2>1, <2>2 DEF Leases, Covered
<1>6. Heartbeat
  <2>1. ctl.waiters = {} /\ ctl.write = "none"
    BY DEF Init, InitCommands
  <2>2. clock \in Clock
    BY SessionAssumption DEF Init, Clock
  <2> QED BY <1>4, <2>1, <2>2 DEF Heartbeat, Turns, Owed
<1> QED BY <1>1, <1>2, <1>3, <1>4, <1>5, <1>6 DEF Flow, Free, Busy

\* The watchdog finds no limit passed, so it stops nothing.
LEMMA WatchdogJustified ==
  ASSUME InTime, IInv, Flow, Leases, Heartbeat
  PROVE  Justified
<1>1. CheckWatchdog => UNCHANGED ctl
  BY Responsive DEF CheckWatchdog
<1> QED BY <1>1 DEF Justified

LEMMA CommandTimed ==
  ASSUME Undisturbed, IInv, Flow, Leases, Heartbeat, NEW s \in Commands, Issue(s) \/ Command(s)
  PROVE  Flow' /\ Leases' /\ Heartbeat'
<1>1. ~AdmitReset(s) /\ ~WriteReset(s)
  BY OwnerFacts DEF AdmitReset, WriteReset, Working
<1>2. Flow'
  BY <1>1, IssueFlow, AdmitFlow, PrepareLineFlow, WriteLineFlow, WriteLineFailsFlow,
     TakeOKFlow, TakeFailureFlow, EndSessionFlow DEF Command
<1>3. Leases'
  BY <1>1, IssueLeases, AdmitLeases, PrepareLineLeases, WriteLineLeases, WriteLineFailsLeases,
     TakesLineLeases, EndSessionLeases DEF Command
<1>4. Heartbeat'
  BY <1>1, IssueHeartbeat, AdmitHeartbeat, PrepareLineHeartbeat, WriteLineHeartbeat,
     WriteLineFailsHeartbeat, TakesLineHeartbeat, EndSessionHeartbeat DEF Command
<1> QED BY <1>2, <1>3, <1>4

LEMMA MachineTimed ==
  ASSUME Undisturbed, InTime, IInv, Flow, Leases, Heartbeat, Machine
  PROVE  Flow' /\ Leases' /\ Heartbeat'
<1>1. Flow'
  BY TakesFlow, HomedFlow, AdjustsFlow, ReportsFlow DEF Machine
<1>2. Leases'
  BY TakesLeases, HomedLeases, AdjustsLeases, ReportsLeases DEF Machine
<1> QED BY <1>1, <1>2, MachineHeartbeat

LEMMA StepTimed ==
  ASSUME Undisturbed, InTime
  PROVE  IInv /\ Flow /\ Leases /\ Heartbeat /\ [Next]_vars => Flow' /\ Leases' /\ Heartbeat'
<1> SUFFICES ASSUME IInv, Flow, Leases, Heartbeat, [Next]_vars
             PROVE  Flow' /\ Leases' /\ Heartbeat'
  OBVIOUS
<1>1. CASE UNCHANGED vars
  <2>1. Flow'
    BY <1>1, SameIsSame, Aside DEF vars, Flow, Calm
  <2>2. Leases'
    BY <1>1, LeaseAside DEF vars
  <2>3. Turns'
    BY <1>1 DEF vars, Heartbeat, Turns
  <2>4. Owed'
    BY <1>1 DEF vars, Heartbeat, Owed, Dry, Debt, Pending, Heeding
  <2> QED BY <2>1, <2>2, <2>3, <2>4 DEF Heartbeat
<1>2. CASE Monitor
  <2>1. Flow'
    BY <1>2, WatchdogJustified, MonitorFlow
  <2>2. Leases'
    BY <1>2, MonitorLeases
  <2>3. Heartbeat'
    BY <1>2, PollHeartbeat, WritePollHeartbeat, CheckHeartbeat DEF Monitor
  <2> QED BY <2>1, <2>2, <2>3
<1>3. CASE Bridge
  BY <1>3, BridgeFlow, BridgeLeases, BridgeHeartbeat
<1>4. CASE Tick
  BY <1>4, TickFlow, TickLeases, TickHeartbeat
<1>5. ~Dies /\ ~RaisesAlarm50
  BY DEF Dies, RaisesAlarm50, Upset, Undisturbed
<1> QED BY <1>1, <1>2, <1>3, <1>4, <1>5, CommandTimed, MachineTimed DEF Next

LEMMA TimedInvariant ==
  ASSUME Undisturbed, InTime
  PROVE  Spec => [](IInv /\ Flow /\ Leases /\ Heartbeat)
<1>1. Init => Flow /\ Leases /\ Heartbeat
  BY InitTimed
<1>2. IInv /\ Flow /\ Leases /\ Heartbeat /\ [Next]_vars => Flow' /\ Leases' /\ Heartbeat'
  BY StepTimed
<1> QED BY <1>1, <1>2, Invariant, PTL DEF Spec

\* Without Soft Reset, resets of the settings or of the machine, alarms and a dead
\* machine, lines rejected and writes failing as often as they may: when the bridge
\* is at most Lag late, within the margin of a lease, and the upsets and the lag
\* together stay below the heartbeat's timeout, the watchdog stops nothing.
THEOREM NoFalseAlarm ==
  ASSUME Undisturbed, InTime
  PROVE  Spec => NoFalseEmergency
<1>1. IInv /\ Flow /\ Leases /\ Heartbeat => Justified
  BY WatchdogJustified
<1> QED BY <1>1, TimedInvariant, PTL DEF NoFalseEmergency, Justified

\* Under the same conditions the snapshot that the limits of leases are computed from
\* is what the machine has stored, whenever no line and no response is under way.
THEOREM SnapshotKept ==
  ASSUME Undisturbed, InTime
  PROVE  Spec => []SnapshotFaithful
<1>1. Flow => SnapshotFaithful
  BY DEF Flow, Free, SnapshotFaithful, Quiet, Stored
<1> QED BY <1>1, TimedInvariant, PTL

\* Under the same conditions the response an interactive session takes for its line
\* is the response to that line, however many sessions follow one another.
THEOREM AnswersMatch ==
  ASSUME Undisturbed, InTime
  PROVE  Spec => OwnAnswer
<1> DEFINE Own == \A s \in Commands : TakeOK(s) => Head(cmd[s].rxCh).op = Op(s)
<1>1. IInv /\ Flow => Own
  BY TakesOwn DEF TakeOK
<1>2. IInv /\ Flow => [Own]_vars
  BY <1>1
<1> QED BY <1>2, TimedInvariant, PTL DEF OwnAnswer

-----------------------------------------------------------------------------
(* A machine that dies. What holds of commands whatever takes ownership away. *)

\* Who owns responses is neither canceled nor still waiting for admission; who
\* waits holds polls back; a reservation has its goroutine.
Ties ==
  /\ \A s \in Commands :
       /\ ctl.owner.cmd = s => ~cmd[s].canceled /\ cmd[s].pc \notin {"new", "admission"}
       /\ cmd[s].canceled => cmd[s].pc \notin {"new", "admission"}
       /\ cmd[s].pc \in {"new", "admission"} => cmd[s].rxCh = <<>>
       /\ s \in ctl.waiters => cmd[s].pc = "admission"
  /\ ctl.write = "reset" => \E s \in Commands : cmd[s].pc = "write ctrl-x"
  /\ ctl.write = "poll" => clock.polled

\* A lease is of the line its session is at, which is being or was written.
LeaseHeld == ctl.lease # NoLease =>
  LET s == ctl.lease.op.cmd IN
  /\ ctl.lease.op = Op(s) /\ cmd[s].pc \in {"write", "wait", "done"}
  /\ cmd[s].pc = "write" => ctl.lease.idle = 0
  /\ ctl.lease.limit <= LongestLease /\ ctl.beat = NotSet
Tied == Ties /\ LeaseHeld

SameTies(c, d) == d.owner = c.owner /\ d.lease = c.lease /\ d.beat = c.beat /\ d.estop = c.estop

LEMMA TieSteps ==
  ASSUME NEW c, Owned(c)
  PROVE  /\ SameTies(c, c)
         /\ \A s : LET d == [c EXCEPT !.waiters = @ \cup {s}] IN
                   SameTies(c, d) /\ d.waiters = c.waiters \cup {s} /\ d.write = c.write
         /\ \A s : LET d == [c EXCEPT !.waiters = @ \ {s}] IN
                   SameTies(c, d) /\ d.waiters = c.waiters \ {s} /\ d.write = c.write
         /\ \A w : LET d == [c EXCEPT !.write = w] IN
                   SameTies(c, d) /\ d.waiters = c.waiters /\ d.write = w
         /\ \A op : LET d == CommitMutation(c, op) IN
                    SameTies(c, d) /\ d.waiters = c.waiters /\ d.write = c.write
<1>1. c \in CommandsType
  BY DEF Owned
<1>2. SameTies(c, c)
  BY DEF SameTies
<1>3. \A s : LET d == [c EXCEPT !.waiters = @ \cup {s}] IN
             SameTies(c, d) /\ d.waiters = c.waiters \cup {s} /\ d.write = c.write
  BY <1>1 DEF SameTies, CommandsType
<1>4. \A s : LET d == [c EXCEPT !.waiters = @ \ {s}] IN
             SameTies(c, d) /\ d.waiters = c.waiters \ {s} /\ d.write = c.write
  BY <1>1 DEF SameTies, CommandsType
<1>5. \A w : LET d == [c EXCEPT !.write = w] IN
             SameTies(c, d) /\ d.waiters = c.waiters /\ d.write = w
  BY <1>1 DEF SameTies, CommandsType
<1>6. \A op : LET d == CommitMutation(c, op) IN
              SameTies(c, d) /\ d.waiters = c.waiters /\ d.write = c.write
  BY <1>1 DEF SameTies, CommitMutation, CommandsType
<1> QED BY <1>2, <1>3, <1>4, <1>5, <1>6

LEMMA ClearTies ==
  ASSUME NEW c, Owned(c), NEW op
  PROVE  LET d == ClearPreparation(c, op) IN
         /\ d.owner = c.owner /\ d.beat = c.beat /\ d.estop = c.estop /\ d.waiters = c.waiters
         /\ d.write = c.write /\ d.lease = IF c.lease.op = op THEN NoLease ELSE c.lease
<1>1. c \in CommandsType
  BY DEF Owned
<1> QED BY <1>1 DEF ClearPreparation, CommandsType

LEMMA ReleaseTies ==
  ASSUME NEW c, Owned(c), NEW s \in Commands \cup {0}
  PROVE  LET d == ReleaseOwner(c, s) IN
         /\ d.beat = c.beat /\ d.estop = c.estop /\ d.waiters = c.waiters /\ d.write = c.write
         /\ IF c.owner.cmd = s THEN d.owner.cmd = 0 /\ d.lease = NoLease
            ELSE d.owner = c.owner /\ d.lease = c.lease
<1>1. CASE c.owner.cmd # s
  BY <1>1 DEF ReleaseOwner
<1>2. CASE c.owner.cmd = s /\ s = 0
  <2>1. c.lease = NoLease
    BY <1>2, Bounds DEF Owned, Owns, CommandsType, Operation
  <2> QED BY <1>2, <2>1 DEF ReleaseOwner
<1>3. CASE c.owner.cmd = s /\ s \in Commands
  <2>1. LET d == ReleaseOwner(c, s) IN
        d.lease = NoLease /\ d.beat = c.beat /\ d.waiters = c.waiters
    BY <1>3, ReleaseTimes
  <2>2. LET d == ReleaseOwner(c, s) IN d.owner = NoOwner /\ d.estop = c.estop /\ d.write = c.write
    BY <1>3, ReleaseFields
  <2> QED BY <1>3, <2>1, <2>2 DEF NoOwner
<1> QED BY <1>1, <1>2, <1>3

LEMMA PrepareTies ==
  ASSUME NEW c, Owned(c), NEW line \in Line, NEW op
  PROVE  LET d == Prepare(c, op, line) IN
         /\ d.owner = c.owner /\ d.estop = c.estop /\ d.waiters = c.waiters /\ d.write = c.write
         /\ \/ d.lease = c.lease /\ d.beat = c.beat
            \/ /\ line.kind \in Silent /\ c.snapshot # 0
               /\ d.beat = NotSet /\ d.lease.op = op /\ d.lease.idle = 0
               /\ d.lease.limit \in 1..LongestLease
<1>1. c \in CommandsType
  BY DEF Owned
<1>2. CASE line.kind = "set"
  <2>1. Prepare(c, op, line) = [c EXCEPT !.mutation = [op |-> op, value |-> line.value]]
    BY <1>2 DEF Prepare, Silent
  <2> QED BY <1>1, <2>1 DEF CommandsType
<1>3. CASE line.kind = "reset"
  <2>1. Prepare(c, op, line) = [c EXCEPT !.snapshot = 0]
    BY <1>3 DEF Prepare, Silent
  <2> QED BY <1>1, <2>1 DEF CommandsType
<1>4. CASE line.kind \in Silent
  <2>1. Prepare(c, op, line) = IF c.snapshot = 0 THEN c ELSE BeginSilence(c, op, line.kind)
    BY <1>4 DEF Prepare, Silent
  <2>2. c.snapshot \in 0..MaxValue /\ 0 \in Adjustments /\ 0 \in Nat
    BY <1>1 DEF CommandsType, Adjustments
  <2>3. /\ SilentTime(line.kind, c.snapshot, 0, 0) \in Nat
        /\ SilentTime(line.kind, c.snapshot, 0, 0) <= 2 * MaxValue + 2
    BY <1>4, <2>2, SilentTimeType
  <2>4. SilentTime(line.kind, c.snapshot, 0, 0) + Margin \in 1..LongestLease
    <3> DEFINE time == SilentTime(line.kind, c.snapshot, 0, 0)
    <3>1. time \in Nat /\ time <= 2 * MaxValue + 2
      BY <2>3
    <3> HIDE DEF time
    <3>2. time + Margin \in 1..LongestLease
      BY <3>1, CommandAssumption DEF LongestLease
    <3> QED BY <3>2 DEF time
  <2> QED BY <1>1, <1>4, <2>1, <2>4 DEF BeginSilence, CommandsType
<1>5. CASE line.kind \in {"move", "unlock"}
  BY <1>5 DEF Prepare, Silent
<1> QED BY <1>2, <1>3, <1>4, <1>5 DEF Line

LEMMA NoteTies ==
  ASSUME NEW c, Owned(c), NEW age \in Nat
  PROVE  LET d == NoteActivity(c, age) IN
         /\ d.owner = c.owner /\ d.estop = c.estop /\ d.waiters = c.waiters /\ d.write = c.write
         /\ d.beat \in {c.beat, NotSet}
         /\ IF c.lease = NoLease THEN d.lease = NoLease
            ELSE /\ d.lease # NoLease /\ d.lease.op = c.lease.op /\ d.lease.limit = c.lease.limit
                 /\ c.lease.idle = 0 => d.lease.idle = 0
<1>1. /\ NoteActivity(c, age).owner = c.owner /\ NoteActivity(c, age).estop = c.estop
      /\ NoteActivity(c, age).write = c.write
  BY SmallSteps DEF SameFlow
<1>2. LET d == NoteActivity(c, age) IN
      /\ d.lease = IF c.lease = NoLease THEN NoLease ELSE Active(c.lease, age)
      /\ d.beat = IF c.beat # NotSet /\ age <= c.beat THEN NotSet ELSE c.beat
      /\ d.waiters = c.waiters
  BY NotedTimes
<1>3. CASE c.lease # NoLease
  <2>1. c.lease \in Lease
    BY <1>3, LeaseType
  <2>2. /\ Active(c.lease, age) \in Lease /\ Active(c.lease, age).op = c.lease.op
        /\ Active(c.lease, age).limit = c.lease.limit
        /\ c.lease.idle = 0 => Active(c.lease, age).idle = 0
    BY <2>1, AgeType DEF Active, Lease, Age
  <2>3. Active(c.lease, age) # NoLease
    BY <2>2, NoLeaseApart
  <2> QED BY <1>1, <1>2, <1>3, <2>2, <2>3
<1> QED BY <1>1, <1>2, <1>3

LEMMA ProgressTies ==
  ASSUME NEW c, Owned(c), NEW age, NEW adjustment \in Adjustments \cup {NotSet}
  PROVE  LET d == NoteProgress(c, age, adjustment) IN
         /\ d.owner = c.owner /\ d.estop = c.estop /\ d.waiters = c.waiters /\ d.write = c.write
         /\ d.beat = c.beat
         /\ IF c.lease = NoLease THEN d.lease = NoLease
            ELSE /\ d.lease # NoLease /\ d.lease.op = c.lease.op /\ d.lease.idle = c.lease.idle
                 /\ c.lease.limit <= LongestLease => d.lease.limit <= LongestLease
<1>1. /\ NoteProgress(c, age, adjustment).owner = c.owner
      /\ NoteProgress(c, age, adjustment).estop = c.estop
      /\ NoteProgress(c, age, adjustment).write = c.write
  BY SmallSteps DEF SameFlow
<1>2. LET d == NoteProgress(c, age, adjustment) IN
      /\ d.lease = IF c.lease = NoLease THEN NoLease
                   ELSE Progressed(c.snapshot, c.lease, age, adjustment)
      /\ d.beat = c.beat /\ d.waiters = c.waiters
  BY ProgressTimes
<1>3. CASE c.lease # NoLease
  <2> DEFINE made == IF adjustment = NotSet THEN 1 ELSE adjustment
             time == SilentTime("level", c.snapshot, made, c.lease.leg + 1)
             p == Progressed(c.snapshot, c.lease, age, adjustment)
  <2>1. c.lease \in Lease /\ c.snapshot \in 0..MaxValue
    BY <1>3, LeaseType DEF Owned, CommandsType
  <2>2. time + Margin <= LongestLease
    <3>1. made \in Adjustments /\ c.lease.leg + 1 \in Nat /\ "level" \in Silent
      BY <2>1 DEF Adjustments, NotSet, Lease, Silent
    <3>2. time \in Nat /\ time <= 2 * MaxValue + 2
      BY <2>1, <3>1, SilentTimeType
    <3> HIDE DEF time
    <3> QED BY <3>2, CommandAssumption DEF LongestLease
  <2> HIDE DEF time
  <2>3. p = c.lease \/ p = [c.lease EXCEPT !.leg = @ + 1, !.limit = time + Margin]
    BY DEF Progressed, time
  <2>4. /\ p.op = c.lease.op /\ p.idle = c.lease.idle
        /\ c.lease.limit <= LongestLease => p.limit <= LongestLease
    BY <2>1, <2>2, <2>3 DEF Lease
  <2>5. p # NoLease
    BY <2>1, <2>4, Bounds DEF Lease, NoLease, NoOp, Operation
  <2> QED BY <1>1, <1>2, <1>3, <2>4, <2>5
<1> QED BY <1>1, <1>2, <1>3

LEMMA StatusTies ==
  ASSUME NEW c, Owned(c), NEW idle
  PROVE  LET d == NoteStatus(c, idle) IN
         /\ d.owner = c.owner /\ d.lease = c.lease /\ d.beat = c.beat
         /\ d.waiters = c.waiters /\ d.write = c.write
<1>1. c \in CommandsType
  BY DEF Owned
<1> QED BY <1>1 DEF NoteStatus, CommandsType

LEMMA AgesTies ==
  ASSUME NEW c, Owned(c)
  PROVE  LET d == Ages(c) IN
         /\ d.owner = c.owner /\ d.estop = c.estop /\ d.waiters = c.waiters /\ d.write = c.write
         /\ d.beat = IF c.beat = NotSet THEN NotSet ELSE Older(c.beat)
         /\ IF c.lease = NoLease THEN d.lease = NoLease
            ELSE /\ d.lease # NoLease /\ d.lease.op = c.lease.op /\ d.lease.limit = c.lease.limit
                 /\ d.lease.idle = Older(c.lease.idle)
<1>1. Ages(c).owner = c.owner /\ Ages(c).estop = c.estop /\ Ages(c).write = c.write
  BY SmallSteps DEF SameFlow
<1>2. /\ Ages(c).lease = IF c.lease = NoLease THEN NoLease ELSE Aged(c.lease)
      /\ Ages(c).beat = IF c.beat = NotSet THEN NotSet ELSE Older(c.beat)
      /\ Ages(c).waiters = c.waiters
  BY AgesTimes
<1>3. CASE c.lease # NoLease
  <2>1. c.lease \in Lease
    BY <1>3, LeaseType
  <2>2. /\ Aged(c.lease).op = c.lease.op /\ Aged(c.lease).limit = c.lease.limit
        /\ Aged(c.lease).idle = Older(c.lease.idle)
    BY <2>1 DEF Aged, Lease
  <2>3. Aged(c.lease) # NoLease
    BY <2>1, <2>2, Bounds DEF Lease, NoLease, NoOp, Operation
  <2> QED BY <1>1, <1>2, <1>3, <2>2, <2>3
<1> QED BY <1>1, <1>2, <1>3

LEMMA PollTies ==
  ASSUME NEW c, Owned(c)
  PROVE  LET d == BeginPoll(c) IN
         /\ d.owner = c.owner /\ d.estop = c.estop /\ d.waiters = c.waiters /\ d.write = "poll"
         /\ d.lease = c.lease /\ d.beat = IF c.beat = NotSet THEN 0 ELSE c.beat
<1>1. c \in CommandsType
  BY DEF Owned
<1> QED BY <1>1 DEF BeginPoll, CommandsType

LEMMA StopTies ==
  ASSUME NEW c, Owned(c), c.estop # "active"
  PROVE  LET d == EnterEStop(c) IN
         /\ d.owner.cmd = 0 /\ d.lease = NoLease /\ d.estop = "active" /\ d.beat = c.beat
         /\ d.waiters = c.waiters /\ d.write = c.write
<1> DEFINE r == ReleaseOwner(c, c.owner.cmd)
<1>1. c.owner.cmd \in Commands \cup {0}
  BY OwnerType
<1>2. r.owner.cmd = 0 /\ r.beat = c.beat /\ r.waiters = c.waiters /\ r.write = c.write
  BY <1>1, ReleaseTies
<1>3. r \in CommandsType
  BY ReleaseOwned DEF Owned
<1>4. EnterEStop(c) = [r EXCEPT !.lease = NoLease, !.estop = "active"]
  BY DEF EnterEStop
<1> HIDE DEF r
<1> QED BY <1>2, <1>3, <1>4 DEF CommandsType

\* A command's goroutine may take ownership and gives nobody else's away.
LEMMA TiesKept ==
  ASSUME Ties, NEW s \in Commands, \A t \in Commands : t # s => cmd'[t] = cmd[t],
         cmd'[s].pc \notin {"new", "admission"}, cmd'[s].canceled = cmd[s].canceled,
         ctl'.owner.cmd \in {ctl.owner.cmd, 0} \/ (ctl'.owner.cmd = s /\ ~cmd[s].canceled),
         ctl'.waiters \subseteq ctl.waiters, cmd[s].pc = "admission" => s \notin ctl'.waiters,
         ctl'.write = ctl.write, cmd[s].pc # "write ctrl-x", clock'.polled = clock.polled
  PROVE  Ties'
<1>1. ASSUME NEW t \in Commands, t # s
      PROVE  /\ ctl'.owner.cmd = t => ~cmd'[t].canceled /\ cmd'[t].pc \notin {"new", "admission"}
             /\ cmd'[t].canceled => cmd'[t].pc \notin {"new", "admission"}
             /\ cmd'[t].pc \in {"new", "admission"} => cmd'[t].rxCh = <<>>
             /\ t \in ctl'.waiters => cmd'[t].pc = "admission"
  <2>1. t # 0
    BY Bounds
  <2> QED BY <1>1, <2>1 DEF Ties
<1>2. /\ ctl'.owner.cmd = s => ~cmd'[s].canceled /\ cmd'[s].pc \notin {"new", "admission"}
      /\ s \notin ctl'.waiters
  BY Bounds DEF Ties
<1>3. ctl'.write = "reset" => \E t \in Commands : cmd'[t].pc = "write ctrl-x"
  BY DEF Ties
<1> QED BY <1>1, <1>2, <1>3 DEF Ties

LEMMA HolderType ==
  ASSUME IInv, ctl.lease # NoLease
  PROVE  /\ ctl.lease \in Lease /\ ctl.lease.op.cmd \in Commands /\ ctl.lease.op \in Operation
         /\ ctl.owner.cmd = ctl.lease.op.cmd
BY LeaseType DEF IInv, Owned, Owns, Lease, Operation

\* The holder of the lease does not change its line, and does not write again.
LEMMA LeaseKept ==
  ASSUME IInv, LeaseHeld, ctl'.lease = ctl.lease, ctl'.beat = ctl.beat,
         \A t \in Commands : ctl.lease # NoLease /\ ctl.lease.op = Op(t) =>
           /\ cmd'[t].at = cmd[t].at
           /\ cmd'[t].pc \in {cmd[t].pc, "wait", "done"}
  PROVE  LeaseHeld'
<1> SUFFICES ASSUME ctl.lease # NoLease PROVE LeaseHeld'
  BY DEF LeaseHeld
<1>1. PICK t \in Commands : t = ctl.lease.op.cmd
  BY HolderType
<1>2. /\ ctl.lease.op = Op(t) /\ cmd[t].pc \in {"write", "wait", "done"}
      /\ cmd[t].pc = "write" => ctl.lease.idle = 0
      /\ ctl.lease.limit <= LongestLease /\ ctl.beat = NotSet
  BY <1>1 DEF LeaseHeld
<1>3. /\ cmd'[t].at = cmd[t].at /\ cmd'[t].pc \in {cmd[t].pc, "wait", "done"}
  BY <1>2
<1>4. Op(t)' = Op(t)
  BY <1>3 DEF Op
<1> QED BY <1>1, <1>2, <1>3, <1>4 DEF LeaseHeld

\* What a step of the goroutine of s does with the lease: nothing, or it begins one
\* for the line it goes to write, or it ends its own.
Keeps == ctl'.lease = ctl.lease /\ ctl'.beat = ctl.beat
Stays(s) ==
  /\ Keeps /\ cmd'[s].at = cmd[s].at
  /\ cmd[s].pc \in {"write", "wait", "done"} => cmd'[s].pc \in {"wait", "done"}
Begins(s) ==
  /\ cmd'[s].pc = "write" /\ cmd[s].pc \in {"admission", "prepare"} /\ ctl.lease = NoLease
  /\ ctl'.lease # NoLease /\ ctl'.lease.op = Op(s)' /\ ctl'.lease.idle = 0
  /\ ctl'.lease.limit \in 1..LongestLease /\ ctl'.beat = NotSet
Drops(s) ==
  ctl'.beat = ctl.beat /\ ctl'.lease = IF ctl.lease.op.cmd = s THEN NoLease ELSE ctl.lease
Moves(s, from, to) ==
  /\ cmd[s].pc \in from /\ cmd'[s].pc \in to /\ cmd'[s].canceled = cmd[s].canceled
  /\ cmd'[s].rxCh = cmd[s].rxCh \/ cmd[s].rxCh # <<>>
  /\ \A t \in Commands : t # s => cmd'[t] = cmd[t]
  /\ ctl'.owner.cmd \in {ctl.owner.cmd, 0} \/ (ctl'.owner.cmd = s /\ ~cmd[s].canceled)
  /\ ctl'.waiters \subseteq ctl.waiters /\ (cmd[s].pc = "admission" => s \notin ctl'.waiters)
  /\ ctl'.write = ctl.write /\ ctl'.estop = ctl.estop
  /\ UNCHANGED rx /\ dev'.alive = dev.alive /\ dev'.dead = dev.dead
  /\ clock'.polled = clock.polled /\ clock'.checked = clock.checked

LEMMA MovesTied ==
  ASSUME IInv, Tied, NEW s \in Commands,
         NEW from \in SUBSET (Label \ {"write ctrl-x"}), NEW to \in SUBSET (Label \ {"new", "admission"}),
         Moves(s, from, to),
         Stays(s) \/ Begins(s) \/ Drops(s)
  PROVE  Tied'
<1>1. Ties'
  BY TiesKept DEF Moves, Tied
<1>2. CASE Stays(s)
  <2>1. ASSUME NEW t \in Commands, ctl.lease # NoLease, ctl.lease.op = Op(t)
        PROVE  cmd'[t].at = cmd[t].at /\ cmd'[t].pc \in {cmd[t].pc, "wait", "done"}
    <3>1. cmd[t].pc \in {"write", "wait", "done"}
      BY <2>1, OpType DEF Tied, LeaseHeld, IInv, Held
    <3> QED BY <1>2, <2>1, <3>1 DEF Moves, Stays
  <2> QED BY <1>1, <1>2, <2>1, LeaseKept DEF Keeps, Stays, Tied
<1>3. CASE Begins(s)
  <2>1. Op(s)'.cmd = s
    BY DEF Op
  <2>2. ctl'.lease.op.cmd = s
    BY <1>3, <2>1 DEF Begins
  <2>3. ctl'.lease.limit <= LongestLease
    BY <1>3, LongestType DEF Begins
  <2> QED BY <1>1, <1>3, <2>2, <2>3 DEF Begins, Tied, LeaseHeld
<1>4. CASE Drops(s)
  <2>1. CASE ctl'.lease = NoLease
    BY <1>1, <2>1 DEF Tied, LeaseHeld
  <2>2. CASE ctl'.lease = ctl.lease /\ ctl.lease # NoLease /\ ctl.lease.op.cmd # s
    <3>1. ASSUME NEW t \in Commands, ctl.lease # NoLease, ctl.lease.op = Op(t)
          PROVE  cmd'[t].at = cmd[t].at /\ cmd'[t].pc \in {cmd[t].pc, "wait", "done"}
      <4>1. t # s
        BY <2>2, <3>1, OpType DEF IInv, Held
      <4> QED BY <4>1 DEF Moves
    <3> QED BY <1>1, <1>4, <2>2, <3>1, LeaseKept DEF Drops, Tied
  <2> QED BY <1>4, <2>1, <2>2 DEF Drops
<1> QED BY <1>2, <1>3, <1>4

\* A line that is prepared goes to be written.
LEMMA PrepareMoves ==
  ASSUME NEW s \in Commands, CmdInv, Goes(s, "write"), NEW c, Owned(c), c.lease = ctl.lease,
         c.beat = ctl.beat, cmd[s].pc \in {"admission", "prepare"}, ~PrepareFails(c, cmd[s].line),
         ctl' = Prepare(c, Op(s), cmd[s].line)
  PROVE  /\ ctl'.owner = c.owner /\ ctl'.estop = c.estop /\ ctl'.waiters = c.waiters
         /\ ctl'.write = c.write /\ (Keeps \/ Begins(s))
<1>1. cmd[s].line \in Line /\ Op(s) \in Operation
  BY OpType DEF CmdInv, CommandType
<1>2. cmd'[s].pc = "write" /\ Op(s)' = Op(s)
  BY GoesFields
<1>3. /\ ctl'.owner = c.owner /\ ctl'.estop = c.estop /\ ctl'.waiters = c.waiters
      /\ ctl'.write = c.write
      /\ \/ ctl'.lease = c.lease /\ ctl'.beat = c.beat
         \/ /\ cmd[s].line.kind \in Silent /\ c.snapshot # 0
            /\ ctl'.beat = NotSet /\ ctl'.lease.op = Op(s) /\ ctl'.lease.idle = 0
            /\ ctl'.lease.limit \in 1..LongestLease
  <2>1. ASSUME NEW m \in Line
        PROVE  LET d == Prepare(c, Op(s), m) IN
               /\ d.owner = c.owner /\ d.estop = c.estop /\ d.waiters = c.waiters
               /\ d.write = c.write
               /\ \/ d.lease = c.lease /\ d.beat = c.beat
                  \/ /\ m.kind \in Silent /\ c.snapshot # 0
                     /\ d.beat = NotSet /\ d.lease.op = Op(s) /\ d.lease.idle = 0
                     /\ d.lease.limit \in 1..LongestLease
    BY PrepareTies
  <2> QED BY <1>1, <2>1
<1>4. NoLease.limit \notin 1..LongestLease
  BY DEF NoLease
<1> QED BY <1>2, <1>3, <1>4 DEF Keeps, Begins, PrepareFails

LEMMA SameOperation ==
  ASSUME IInv, LeaseHeld, NEW s \in Commands, ctl.lease # NoLease
  PROVE  ctl.lease.op = Op(s) <=> ctl.lease.op.cmd = s
BY OpType DEF LeaseHeld, IInv, Held


LEMMA IssueCases ==
  ASSUME IInv, NEW s \in Commands, Issue(s)
  PROVE  /\ SameTies(ctl, ctl') /\ ctl'.waiters = ctl.waiters \cup {s} /\ ctl'.write = ctl.write
         /\ UNCHANGED <<rx, dev, clock>> /\ cmd[s].pc = "new" /\ cmd'[s].pc = "admission"
         /\ ~cmd'[s].canceled /\ cmd'[s].rxCh = <<>>
         /\ \A t \in Commands : t # s => cmd'[t] = cmd[t]
<1>1. cmd \in [Commands -> CommandType] /\ cmd[s].pc = "new" /\ UNCHANGED <<rx, dev, clock>>
  BY DEF IInv, Held, CmdInv, Issue, NoCommand
<1>2. PICK kind \in Kinds : \E line \in LinesOf(kind) :
        cmd' = [cmd EXCEPT ![s] = [NoCommand EXCEPT !.kind = kind, !.pc = "admission", !.at = 1,
                                                    !.line = line]]
  BY DEF Issue
<1>3. PICK line \in LinesOf(kind) :
        cmd' = [cmd EXCEPT ![s] = [NoCommand EXCEPT !.kind = kind, !.pc = "admission", !.at = 1,
                                                    !.line = line]]
  BY <1>2
<1>4. /\ cmd'[s].pc = "admission" /\ ~cmd'[s].canceled /\ cmd'[s].rxCh = <<>>
      /\ \A t \in Commands : t # s => cmd'[t] = cmd[t]
  BY <1>1, <1>3 DEF NoCommand
<1>5. ctl' = [ctl EXCEPT !.waiters = @ \cup {s}]
  BY DEF Issue
<1>6. /\ SameTies(ctl, ctl') /\ ctl'.waiters = ctl.waiters \cup {s} /\ ctl'.write = ctl.write
  BY <1>5, TieSteps DEF IInv
<1> QED BY <1>1, <1>4, <1>6

LEMMA IssueTied ==
  ASSUME IInv, Tied, NEW s \in Commands, Issue(s)
  PROVE  Tied'
<1>1. /\ SameTies(ctl, ctl') /\ ctl'.waiters = ctl.waiters \cup {s} /\ ctl'.write = ctl.write
      /\ UNCHANGED <<rx, dev, clock>> /\ cmd[s].pc = "new" /\ cmd'[s].pc = "admission"
      /\ ~cmd'[s].canceled /\ cmd'[s].rxCh = <<>>
      /\ \A t \in Commands : t # s => cmd'[t] = cmd[t]
  BY IssueCases
<1>2. ctl.owner.cmd # s
  BY <1>1 DEF Tied, Ties
<1>3. Ties'
  <2>1. ASSUME NEW t \in Commands
        PROVE  /\ ctl'.owner.cmd = t => ~cmd'[t].canceled /\ cmd'[t].pc \notin {"new", "admission"}
               /\ cmd'[t].canceled => cmd'[t].pc \notin {"new", "admission"}
               /\ cmd'[t].pc \in {"new", "admission"} => cmd'[t].rxCh = <<>>
               /\ t \in ctl'.waiters => cmd'[t].pc = "admission"
    <3>1. CASE t = s
      BY <1>1, <1>2, <3>1 DEF SameTies
    <3>2. CASE t # s
      BY <1>1, <3>2 DEF SameTies, Tied, Ties
    <3> QED BY <3>1, <3>2
  <2>2. ctl'.write = "reset" => \E t \in Commands : cmd'[t].pc = "write ctrl-x"
    BY <1>1 DEF Tied, Ties
  <2>3. ctl'.write = "poll" => clock'.polled
    BY <1>1 DEF Tied, Ties
  <2> QED BY <2>1, <2>2, <2>3 DEF Ties
<1>4. LeaseHeld'
  <2>1. ASSUME NEW t \in Commands, ctl.lease # NoLease, ctl.lease.op = Op(t)
        PROVE  cmd'[t].at = cmd[t].at /\ cmd'[t].pc \in {cmd[t].pc, "wait", "done"}
    <3>1. cmd[t].pc \in {"write", "wait", "done"}
      BY <2>1, OpType DEF Tied, LeaseHeld, IInv, Held
    <3> QED BY <1>1, <3>1
  <2> QED BY <1>1, <2>1, LeaseKept DEF SameTies, Tied
<1> QED BY <1>3, <1>4 DEF Tied

LEMMA AdmitMoves ==
  ASSUME IInv, Tied, NEW s \in Commands, Admit(s)
  PROVE  /\ Moves(s, {"admission"}, {"prepare", "write", "done"}) /\ UNCHANGED clock
         /\ (Stays(s) \/ Begins(s))
<1> DEFINE x == cmd[s]
           registered == Registered(s)
           kind == IF x.kind = "macro" THEN "macro" ELSE "manual"
           owned == [registered EXCEPT !.owner = [kind |-> kind, cmd |-> s]]
<1>1. /\ x.pc = "admission" /\ UNCHANGED <<rx, dev, clock>> /\ CmdInv /\ Owned(ctl)
      /\ ~x.canceled
  BY DEF Admit, Waiting, IInv, Held, Tied, Ties
<1>2. /\ Owned(registered) /\ SameTies(ctl, registered)
      /\ registered.waiters = ctl.waiters \ {s} /\ registered.write = ctl.write
  <2>1. registered = [ctl EXCEPT !.waiters = @ \ {s}]
    BY DEF Registered
  <2> HIDE DEF registered
  <2>2. Owned(registered)
    BY <1>1, <2>1, RegisterOwned
  <2>3. /\ SameTies(ctl, registered) /\ registered.waiters = ctl.waiters \ {s}
        /\ registered.write = ctl.write
    BY <1>1, <2>1, TieSteps
  <2> QED BY <2>2, <2>3
<1>3. CASE ~AdmitsOwner(ctl, x.kind)
  <2>1. ctl' = registered /\ Goes(s, "done")
    BY <1>3 DEF Admit
  <2> HIDE DEF registered
  <2> QED BY <1>1, <1>2, <2>1, GoesFields DEF Moves, Stays, Keeps, SameTies
<1>4. CASE AdmitsOwner(ctl, x.kind)
  <2>1. ctl.owner = NoOwner /\ ctl.lease = NoLease
    BY <1>1, <1>4, Nobody, Bounds DEF AdmitsOwner, NoOwner
  <2>2. Owned(owned)
    <3>1. [kind |-> kind, cmd |-> s] \in Owner
      BY DEF Owner
    <3> HIDE DEF kind, registered
    <3> QED BY <1>2, <2>1, <3>1, AcquireOwned DEF SameTies
  <2>3. /\ owned.owner.cmd = s /\ owned.lease = ctl.lease /\ owned.beat = ctl.beat
        /\ owned.estop = ctl.estop /\ owned.waiters = ctl.waiters \ {s} /\ owned.write = ctl.write
    <3> HIDE DEF registered
    <3> QED BY <1>2 DEF SameTies, Owned, CommandsType
  <2>4. \/ ctl' = owned /\ Goes(s, "prepare")
        \/ ctl' = ReleaseOwner(owned, s) /\ Goes(s, "done")
        \/ ~PrepareFails(owned, x.line) /\ ctl' = Prepare(owned, Op(s), x.line) /\ Goes(s, "write")
    BY <1>4 DEF Admit
  <2> HIDE DEF owned
  <2>5. CASE ctl' = owned /\ Goes(s, "prepare")
    BY <1>1, <2>3, <2>5, GoesFields DEF Moves, Stays, Keeps
  <2>6. CASE ctl' = ReleaseOwner(owned, s) /\ Goes(s, "done")
    <3>1. /\ ctl'.owner.cmd = 0 /\ ctl'.lease = NoLease /\ ctl'.beat = ctl.beat
          /\ ctl'.estop = ctl.estop /\ ctl'.waiters = ctl.waiters \ {s} /\ ctl'.write = ctl.write
      BY <2>2, <2>3, <2>6, ReleaseTies
    <3> QED BY <1>1, <2>1, <2>6, <3>1, GoesFields DEF Moves, Stays, Keeps
  <2>7. CASE ~PrepareFails(owned, x.line) /\ ctl' = Prepare(owned, Op(s), x.line) /\ Goes(s, "write")
    <3>1. /\ ctl'.owner = owned.owner /\ ctl'.estop = owned.estop /\ ctl'.waiters = owned.waiters
          /\ ctl'.write = owned.write /\ (Keeps \/ Begins(s))
      BY <1>1, <2>2, <2>3, <2>7, PrepareMoves
    <3> QED BY <1>1, <2>3, <2>7, <3>1, GoesFields DEF Moves, Stays
  <2> QED BY <2>4, <2>5, <2>6, <2>7
<1> QED BY <1>3, <1>4

LEMMA PrepareLineMoves ==
  ASSUME IInv, Tied, NEW s \in Commands, PrepareLine(s)
  PROVE  /\ Moves(s, {"prepare"}, {"write", "end"}) /\ UNCHANGED clock
         /\ (Stays(s) \/ Begins(s))
<1>1. /\ cmd[s].pc = "prepare" /\ UNCHANGED <<rx, dev, clock>> /\ CmdInv /\ Owned(ctl)
  BY DEF PrepareLine, IInv, Held
<1>2. \/ (Goes(s, "write") \/ Goes(s, "end")) /\ UNCHANGED ctl
      \/ ~PrepareFails(ctl, cmd[s].line) /\ ctl' = Prepare(ctl, Op(s), cmd[s].line) /\ Goes(s, "write")
  BY DEF PrepareLine
<1>3. CASE (Goes(s, "write") \/ Goes(s, "end")) /\ UNCHANGED ctl
  BY <1>1, <1>3, GoesFields DEF Moves, Stays, Keeps
<1>4. CASE ~PrepareFails(ctl, cmd[s].line) /\ ctl' = Prepare(ctl, Op(s), cmd[s].line) /\ Goes(s, "write")
  <2>1. /\ ctl'.owner = ctl.owner /\ ctl'.estop = ctl.estop /\ ctl'.waiters = ctl.waiters
        /\ ctl'.write = ctl.write /\ (Keeps \/ Begins(s))
    BY <1>1, <1>4, PrepareMoves
  <2> QED BY <1>1, <1>4, <2>1, GoesFields DEF Moves, Stays
<1> QED BY <1>2, <1>3, <1>4

LEMMA WriteLineMoves ==
  ASSUME IInv, NEW s \in Commands, WriteLine(s)
  PROVE  Moves(s, {"write"}, {"wait", "done"}) /\ Stays(s) /\ UNCHANGED clock
<1>1. /\ cmd[s].pc = "write" /\ UNCHANGED <<ctl, rx, clock>> /\ CmdInv /\ DevInv
      /\ (Goes(s, "wait") \/ Goes(s, "done"))
  BY DEF WriteLine, IInv, Held
<1>2. dev'.alive = dev.alive /\ dev'.dead = dev.dead
  BY DEF WriteLine, IInv, Held, DevInv, MachineType
<1> QED BY <1>1, <1>2, GoesFields DEF Moves, Stays, Keeps

\* Ending a session's operation or its ownership ends no lease but its own.
LEMMA Released ==
  ASSUME IInv, LeaseHeld, NEW s \in Commands, NEW c, Owned(c), SameTies(ctl, c),
         c.waiters = ctl.waiters, c.write = ctl.write
  PROVE  LET d == ClearPreparation(c, Op(s))
             e == ReleaseOwner(d, s) IN
         /\ Owned(d) /\ d.waiters = ctl.waiters /\ d.write = ctl.write /\ d.estop = ctl.estop
         /\ d.owner = ctl.owner /\ d.beat = ctl.beat
         /\ d.lease = IF ctl.lease.op.cmd = s THEN NoLease ELSE ctl.lease
         /\ e.waiters = ctl.waiters /\ e.write = ctl.write /\ e.estop = ctl.estop
         /\ e.owner.cmd \in {ctl.owner.cmd, 0} /\ e.beat = ctl.beat
         /\ e.lease = IF ctl.lease.op.cmd = s THEN NoLease ELSE ctl.lease
<1> DEFINE d == ClearPreparation(c, Op(s))
           e == ReleaseOwner(d, s)
<1>1. /\ Owned(d) /\ d.waiters = ctl.waiters /\ d.write = ctl.write /\ d.estop = ctl.estop
      /\ d.owner = ctl.owner /\ d.beat = ctl.beat
      /\ d.lease = IF ctl.lease.op = Op(s) THEN NoLease ELSE ctl.lease
  BY ClearOwned, ClearTies DEF SameTies
<1>2. d.lease = IF ctl.lease.op.cmd = s THEN NoLease ELSE ctl.lease
  BY <1>1, SameOperation
<1>3. /\ e.beat = d.beat /\ e.estop = d.estop /\ e.waiters = d.waiters /\ e.write = d.write
      /\ IF d.owner.cmd = s THEN e.owner.cmd = 0 /\ e.lease = NoLease
         ELSE e.owner = d.owner /\ e.lease = d.lease
  <2> HIDE DEF d
  <2> QED BY <1>1, ReleaseTies
<1>4. ctl.lease # NoLease => ctl.lease.op.cmd = ctl.owner.cmd
  BY HolderType
<1> HIDE DEF e, d
<1> QED BY <1>1, <1>2, <1>3, <1>4 DEF d, e

LEMMA CountedUpset ==
  ASSUME clock \in Clock, CountUpset
  PROVE  /\ clock'.upsets = clock.upsets + 1 /\ clock'.polled = clock.polled
         /\ clock'.checked = clock.checked
BY DEF Clock, CountUpset

LEMMA WriteLineFailsMoves ==
  ASSUME IInv, clock \in Clock, LeaseHeld, NEW s \in Commands, WriteLineFails(s)
  PROVE  /\ Moves(s, {"write"}, {"end", "done"}) /\ Drops(s)
         /\ clock'.upsets = clock.upsets + 1
<1>1. /\ cmd[s].pc = "write" /\ UNCHANGED <<rx, dev>> /\ CmdInv /\ Owned(ctl)
      /\ clock'.upsets = clock.upsets + 1 /\ clock'.polled = clock.polled
      /\ clock'.checked = clock.checked
  BY CountedUpset DEF WriteLineFails, IInv, Held
<1>2. SameTies(ctl, ctl)
  BY DEF SameTies
<1>3. LET d == ClearPreparation(ctl, Op(s)) IN
      \/ ctl' = d /\ Goes(s, "end")
      \/ ctl' = ReleaseOwner(d, s) /\ Goes(s, "done")
  BY DEF WriteLineFails
<1>4. /\ ctl'.waiters = ctl.waiters /\ ctl'.write = ctl.write /\ ctl'.estop = ctl.estop
      /\ ctl'.owner.cmd \in {ctl.owner.cmd, 0} /\ Drops(s)
  BY <1>1, <1>2, <1>3, Released DEF Drops
<1> QED BY <1>1, <1>3, <1>4, GoesFields DEF Moves

LEMMA TakeOKMoves ==
  ASSUME IInv, LeaseHeld, NEW s \in Commands, TakeOK(s)
  PROVE  /\ Moves(s, {"wait"}, {"prepare", "end"}) /\ Drops(s) /\ UNCHANGED clock
         /\ cmd[s].rxCh # <<>>
<1>1. /\ cmd[s].pc = "wait" /\ UNCHANGED <<rx, dev, clock>> /\ Owned(ctl) /\ cmd[s].rxCh # <<>>
  BY DEF TakeOK, IInv
<1>2. /\ Owned(CommitMutation(ctl, Op(s))) /\ SameTies(ctl, CommitMutation(ctl, Op(s)))
      /\ CommitMutation(ctl, Op(s)).waiters = ctl.waiters
      /\ CommitMutation(ctl, Op(s)).write = ctl.write
  BY <1>1, CommitOwned, TieSteps
<1>3. ctl' = ClearPreparation(CommitMutation(ctl, Op(s)), Op(s))
  BY DEF TakeOK
<1>4. /\ ctl'.waiters = ctl.waiters /\ ctl'.write = ctl.write /\ ctl'.estop = ctl.estop
      /\ ctl'.owner.cmd \in {ctl.owner.cmd, 0} /\ Drops(s)
  BY <1>2, <1>3, Released DEF Drops
<1>5. /\ cmd'[s].pc \in {"prepare", "end"} /\ cmd'[s].canceled = cmd[s].canceled
      /\ \A t \in Commands : t # s => cmd'[t] = cmd[t]
  <2> DEFINE answered == [cmd[s] EXCEPT !.rxCh = Tail(@), !.pc = "end"]
  <2>1. cmd[s] \in CommandType /\ cmd \in [Commands -> CommandType]
    BY DEF IInv, Held, CmdInv
  <2>2. \/ cmd' = [cmd EXCEPT ![s] = answered]
        \/ \E line \in Offered :
             cmd' = [cmd EXCEPT ![s] = [answered EXCEPT !.pc = "prepare", !.at = @ + 1, !.line = line]]
    BY DEF TakeOK
  <2>3. CASE cmd' = [cmd EXCEPT ![s] = answered]
    BY <2>1, <2>3 DEF CommandType
  <2>4. ASSUME NEW line \in Offered,
               cmd' = [cmd EXCEPT ![s] = [answered EXCEPT !.pc = "prepare", !.at = @ + 1, !.line = line]]
        PROVE  /\ cmd'[s].pc \in {"prepare", "end"} /\ cmd'[s].canceled = cmd[s].canceled
               /\ \A t \in Commands : t # s => cmd'[t] = cmd[t]
    BY <2>1, <2>4 DEF CommandType
  <2> QED BY <2>2, <2>3, <2>4
<1> QED BY <1>1, <1>4, <1>5 DEF Moves

LEMMA TakeFailureMoves ==
  ASSUME IInv, LeaseHeld, NEW s \in Commands, TakeFailure(s)
  PROVE  /\ Moves(s, {"wait"}, {"end"}) /\ Drops(s) /\ UNCHANGED clock
         /\ (cmd[s].canceled \/ cmd[s].rxCh # <<>>)
<1>1. /\ cmd[s].pc = "wait" /\ UNCHANGED <<rx, dev, clock>> /\ CmdInv /\ Owned(ctl)
      /\ Goes(s, "end") /\ ctl' = ClearPreparation(ctl, Op(s))
      /\ (cmd[s].canceled \/ cmd[s].rxCh # <<>>)
  BY DEF TakeFailure, IInv, Held
<1>2. SameTies(ctl, ctl)
  BY DEF SameTies
<1>3. /\ ctl'.waiters = ctl.waiters /\ ctl'.write = ctl.write /\ ctl'.estop = ctl.estop
      /\ ctl'.owner.cmd \in {ctl.owner.cmd, 0} /\ Drops(s)
  BY <1>1, <1>2, Released DEF Drops
<1> QED BY <1>1, <1>3, GoesFields DEF Moves

LEMMA EndSessionMoves ==
  ASSUME IInv, LeaseHeld, NEW s \in Commands, EndSession(s)
  PROVE  Moves(s, {"end"}, {"done"}) /\ Stays(s) /\ UNCHANGED clock
<1>1. /\ cmd[s].pc = "end" /\ UNCHANGED <<rx, dev, clock>> /\ CmdInv /\ Owned(ctl)
      /\ Goes(s, "done") /\ ctl' \in {ReleaseOwner(ctl, s), ctl}
  BY DEF EndSession, IInv, Held
<1>2. ctl.lease # NoLease => ctl.owner.cmd # s
  BY <1>1, HolderType DEF LeaseHeld
<1>3. LET d == ReleaseOwner(ctl, s) IN
      /\ d.beat = ctl.beat /\ d.estop = ctl.estop /\ d.waiters = ctl.waiters /\ d.write = ctl.write
      /\ d.owner.cmd \in {ctl.owner.cmd, 0} /\ d.lease = ctl.lease
  BY <1>1, <1>2, ReleaseTies
<1>4. /\ ctl'.beat = ctl.beat /\ ctl'.estop = ctl.estop /\ ctl'.waiters = ctl.waiters
      /\ ctl'.write = ctl.write /\ ctl'.owner.cmd \in {ctl.owner.cmd, 0} /\ ctl'.lease = ctl.lease
  BY <1>1, <1>3
<1> QED BY <1>1, <1>4, GoesFields DEF Moves, Stays, Keeps

LEMMA Canceled ==
  ASSUME CmdInv, NEW s \in Commands \cup {0}, NEW t \in Commands
  PROVE  /\ Cancels(s)[t].pc = cmd[t].pc /\ Cancels(s)[t].at = cmd[t].at
         /\ Cancels(s)[t].rxCh = cmd[t].rxCh
         /\ Cancels(s)[t].canceled => cmd[t].canceled \/ s = t
BY DEF CmdInv, CommandType, Cancels

\* Steps that move no goroutine: what becomes of the lease when its owner stays.
Follows ==
  IF ctl.lease = NoLease THEN ctl'.lease = NoLease
  ELSE /\ ctl'.lease # NoLease /\ ctl'.lease.op = ctl.lease.op
       /\ ctl.lease.limit <= LongestLease => ctl'.lease.limit <= LongestLease
       /\ (\E t \in Commands : cmd[t].pc = "write") /\ ctl.lease.idle = 0 => ctl'.lease.idle = 0
       /\ ctl'.beat \in {ctl.beat, NotSet}

LEMMA StandingTied ==
  ASSUME IInv, Tied, ctl'.waiters = ctl.waiters, ctl'.write = "reset" => ctl.write = "reset",
         ctl'.write = "poll" => clock'.polled,
         \A t \in Commands :
           /\ cmd'[t].pc = cmd[t].pc /\ cmd'[t].at = cmd[t].at
           /\ cmd'[t].rxCh = cmd[t].rxCh \/ ctl.owner.cmd = t
           /\ cmd'[t].canceled => cmd[t].canceled \/ (ctl.owner.cmd = t /\ ctl'.owner.cmd = 0),
         \/ ctl'.owner.cmd = 0 /\ ctl'.lease = NoLease
         \/ ctl'.owner.cmd = ctl.owner.cmd /\ Follows
  PROVE  Tied'
<1>1. Ties'
  <2>1. ASSUME NEW t \in Commands
        PROVE  /\ ctl'.owner.cmd = t => ~cmd'[t].canceled /\ cmd'[t].pc \notin {"new", "admission"}
               /\ cmd'[t].canceled => cmd'[t].pc \notin {"new", "admission"}
               /\ cmd'[t].pc \in {"new", "admission"} => cmd'[t].rxCh = <<>>
               /\ t \in ctl'.waiters => cmd'[t].pc = "admission"
    <3>1. t # 0
      BY Bounds
    <3> QED BY <2>1, <3>1 DEF Tied, Ties
  <2>2. ctl'.write = "reset" => \E t \in Commands : cmd'[t].pc = "write ctrl-x"
    BY DEF Tied, Ties
  <2> QED BY <2>1, <2>2 DEF Ties
<1>2. CASE ctl'.lease = NoLease
  BY <1>1, <1>2 DEF Tied, LeaseHeld
<1>3. CASE ctl'.lease # NoLease
  <2>1. ctl.lease # NoLease /\ Follows
    BY <1>3 DEF Follows
  <2>2. PICK t \in Commands : t = ctl.lease.op.cmd
    BY <2>1, HolderType
  <2>3. /\ ctl.lease.op = Op(t) /\ cmd[t].pc \in {"write", "wait", "done"}
        /\ cmd[t].pc = "write" => ctl.lease.idle = 0
        /\ ctl.lease.limit <= LongestLease /\ ctl.beat = NotSet
    BY <2>1, <2>2 DEF Tied, LeaseHeld
  <2>4. /\ cmd'[t].pc = cmd[t].pc /\ Op(t)' = Op(t)
    BY DEF Op
  <2>5. /\ ctl'.lease.op = Op(t) /\ ctl'.lease.op.cmd = t
        /\ ctl'.lease.limit <= LongestLease /\ ctl'.beat = NotSet
        /\ cmd[t].pc = "write" => ctl'.lease.idle = 0
    BY <2>1, <2>2, <2>3 DEF Follows
  <2> QED BY <1>1, <2>3, <2>4, <2>5 DEF Tied, LeaseHeld
<1> QED BY <1>2, <1>3

LEMMA AdmitResetCases ==
  ASSUME IInv, Tied, NEW s \in Commands, AdmitReset(s)
  PROVE  /\ UNCHANGED <<rx, dev, clock>> /\ cmd[s].pc = "admission"
         /\ \/ Moves(s, {"admission"}, {"done"}) /\ Stays(s)
            \/ /\ ctl'.owner.cmd = 0 /\ ctl'.lease = NoLease /\ ctl'.beat = ctl.beat
               /\ ctl'.estop = ctl.estop /\ ctl'.waiters = ctl.waiters \ {s} /\ ctl'.write = "reset"
               /\ cmd'[s].pc = "write ctrl-x" /\ cmd'[s].rxCh = cmd[s].rxCh
               /\ \A t \in Commands \ {s} : cmd'[t].pc = cmd[t].pc /\ cmd'[t].rxCh = cmd[t].rxCh
                    /\ (cmd'[t].canceled => cmd[t].canceled \/ ctl.owner.cmd = t)
<1> DEFINE registered == Registered(s)
           released == ReleaseOwner(registered, ctl.owner.cmd)
<1>1. /\ cmd[s].pc = "admission" /\ UNCHANGED <<rx, dev, clock>> /\ CmdInv /\ Owned(ctl)
      /\ ~cmd[s].canceled /\ ctl.owner.cmd \in Commands \cup {0}
  BY OwnerType DEF AdmitReset, Waiting, IInv, Held, Tied, Ties
<1>2. /\ Owned(registered) /\ SameTies(ctl, registered)
      /\ registered.waiters = ctl.waiters \ {s} /\ registered.write = ctl.write
  <2>1. registered = [ctl EXCEPT !.waiters = @ \ {s}]
    BY DEF Registered
  <2> HIDE DEF registered
  <2>2. Owned(registered)
    BY <1>1, <2>1, RegisterOwned
  <2>3. /\ SameTies(ctl, registered) /\ registered.waiters = ctl.waiters \ {s}
        /\ registered.write = ctl.write
    BY <1>1, <2>1, TieSteps
  <2> QED BY <2>2, <2>3
<1>3. CASE ctl.estop = "active" \/ ctl.write # "none"
  <2>1. ctl' = registered /\ Goes(s, "done")
    BY <1>3 DEF AdmitReset
  <2> HIDE DEF registered
  <2> QED BY <1>1, <1>2, <2>1, GoesFields DEF Moves, Stays, Keeps, SameTies
<1>4. CASE ~(ctl.estop = "active" \/ ctl.write # "none")
  <2>1. ctl' = [released EXCEPT !.write = "reset"]
        /\ cmd' = [Cancels(ctl.owner.cmd) EXCEPT ![s].pc = "write ctrl-x"]
    BY <1>4 DEF AdmitReset
  <2> HIDE DEF registered
  <2>2. /\ Owned(released) /\ released.owner.cmd = 0 /\ released.lease = NoLease
        /\ released.beat = ctl.beat /\ released.estop = ctl.estop
        /\ released.waiters = ctl.waiters \ {s}
    <3>1. registered.owner = ctl.owner /\ registered.beat = ctl.beat /\ registered.estop = ctl.estop
      BY <1>2 DEF SameTies
    <3>2. /\ released.owner.cmd = 0 /\ released.lease = NoLease /\ released.beat = registered.beat
          /\ released.estop = registered.estop /\ released.waiters = registered.waiters
      BY <1>1, <1>2, <3>1, ReleaseTies
    <3>3. Owned(released)
      BY <1>1, <1>2, ReleaseOwned
    <3> QED BY <1>2, <3>1, <3>2, <3>3
  <2> HIDE DEF released
  <2>3. /\ ctl'.owner.cmd = 0 /\ ctl'.lease = NoLease /\ ctl'.beat = ctl.beat
        /\ ctl'.estop = ctl.estop /\ ctl'.waiters = ctl.waiters \ {s} /\ ctl'.write = "reset"
    <3>1. LET d == [released EXCEPT !.write = "reset"] IN
          SameTies(released, d) /\ d.waiters = released.waiters /\ d.write = "reset"
      BY <2>2, TieSteps
    <3> QED BY <2>1, <2>2, <3>1 DEF SameTies
  <2>4. /\ cmd'[s].pc = "write ctrl-x" /\ cmd'[s].rxCh = Cancels(ctl.owner.cmd)[s].rxCh
        /\ \A t \in Commands \ {s} : cmd'[t] = Cancels(ctl.owner.cmd)[t]
    <3>1. Cancels(ctl.owner.cmd) \in [Commands -> CommandType]
      BY <1>1, CancelsType
    <3> QED BY <2>1, <3>1 DEF CommandType
  <2>5. \A t \in Commands :
          /\ Cancels(ctl.owner.cmd)[t].pc = cmd[t].pc /\ Cancels(ctl.owner.cmd)[t].rxCh = cmd[t].rxCh
          /\ Cancels(ctl.owner.cmd)[t].canceled => cmd[t].canceled \/ ctl.owner.cmd = t
    BY <1>1, Canceled
  <2>6. /\ cmd'[s].rxCh = cmd[s].rxCh
        /\ \A t \in Commands \ {s} : cmd'[t].pc = cmd[t].pc /\ cmd'[t].rxCh = cmd[t].rxCh
             /\ (cmd'[t].canceled => cmd[t].canceled \/ ctl.owner.cmd = t)
    BY <2>4, <2>5
  <2>7. UNCHANGED <<rx, dev, clock>> /\ cmd[s].pc = "admission"
    BY <1>1
  <2>8. cmd'[s].pc = "write ctrl-x"
    BY <2>4
  <2> QED BY <2>3, <2>6, <2>7, <2>8
<1> QED BY <1>3, <1>4

LEMMA AdmitResetTied ==
  ASSUME IInv, Tied, NEW s \in Commands, AdmitReset(s)
  PROVE  Tied'
<1>1. CASE Moves(s, {"admission"}, {"done"}) /\ Stays(s)
  BY <1>1, MovesTied DEF Label
<1>2. CASE /\ ctl'.owner.cmd = 0 /\ ctl'.lease = NoLease
           /\ ctl'.waiters = ctl.waiters \ {s} /\ ctl'.write = "reset"
           /\ cmd'[s].pc = "write ctrl-x"
           /\ \A t \in Commands \ {s} : cmd'[t].pc = cmd[t].pc /\ cmd'[t].rxCh = cmd[t].rxCh
                /\ (cmd'[t].canceled => cmd[t].canceled \/ ctl.owner.cmd = t)
  <2>1. ASSUME NEW t \in Commands
        PROVE  /\ ctl'.owner.cmd = t => ~cmd'[t].canceled /\ cmd'[t].pc \notin {"new", "admission"}
               /\ cmd'[t].canceled => cmd'[t].pc \notin {"new", "admission"}
               /\ cmd'[t].pc \in {"new", "admission"} => cmd'[t].rxCh = <<>>
               /\ t \in ctl'.waiters => cmd'[t].pc = "admission"
    <3>1. t # 0
      BY Bounds
    <3>2. CASE t = s
      BY <1>2, <3>1, <3>2
    <3>3. CASE t # s
      BY <1>2, <3>1, <3>3 DEF Tied, Ties
    <3> QED BY <3>2, <3>3
  <2> QED BY <1>2, <2>1 DEF Tied, Ties, LeaseHeld
<1> QED BY <1>1, <1>2, AdmitResetCases

LEMMA WriteResetCases ==
  ASSUME IInv, NEW s \in Commands, WriteReset(s)
  PROVE  /\ cmd[s].pc = "write ctrl-x" /\ cmd'[s].pc = "done" /\ cmd'[s].canceled = cmd[s].canceled
         /\ cmd'[s].rxCh = cmd[s].rxCh /\ cmd'[s].at = cmd[s].at
         /\ \A t \in Commands : t # s => cmd'[t] = cmd[t]
         /\ SameTies(ctl, ctl') /\ ctl'.waiters = ctl.waiters /\ ctl'.write = "none"
         /\ dev'.alive = dev.alive /\ dev'.dead = dev.dead /\ (CountUpset \/ UNCHANGED clock)
         /\ (dev.alive \/ UNCHANGED rx)
<1>1. /\ cmd[s].pc = "write ctrl-x" /\ Goes(s, "done") /\ CmdInv /\ Owned(ctl) /\ DevInv
      /\ ctl' = [ctl EXCEPT !.write = "none"] /\ (CountUpset \/ UNCHANGED clock)
      /\ (dev.alive \/ UNCHANGED rx)
  BY DEF WriteReset, IInv, Held
<1>2. SameTies(ctl, ctl') /\ ctl'.waiters = ctl.waiters /\ ctl'.write = "none"
  <2>1. Owned(ctl) /\ ctl' = [ctl EXCEPT !.write = "none"]
    BY <1>1
  <2>2. LET d == [ctl EXCEPT !.write = "none"] IN
        SameTies(ctl, d) /\ d.waiters = ctl.waiters /\ d.write = "none"
    BY <2>1, TieSteps
  <2> QED BY <2>1, <2>2
<1>3. dev'.alive = dev.alive /\ dev'.dead = dev.dead
  BY <1>1 DEF WriteReset, DevInv, MachineType
<1> QED BY <1>1, <1>2, <1>3, GoesFields

LEMMA WriteResetTied ==
  ASSUME IInv, Tied, NEW s \in Commands, WriteReset(s)
  PROVE  Tied'
<1>1. /\ cmd[s].pc = "write ctrl-x" /\ cmd'[s].pc = "done" /\ cmd'[s].canceled = cmd[s].canceled
      /\ cmd'[s].at = cmd[s].at /\ \A t \in Commands : t # s => cmd'[t] = cmd[t]
      /\ SameTies(ctl, ctl') /\ ctl'.waiters = ctl.waiters /\ ctl'.write = "none"
  BY WriteResetCases
<1>2. Ties'
  <2>1. ASSUME NEW t \in Commands
        PROVE  /\ ctl'.owner.cmd = t => ~cmd'[t].canceled /\ cmd'[t].pc \notin {"new", "admission"}
               /\ cmd'[t].canceled => cmd'[t].pc \notin {"new", "admission"}
               /\ cmd'[t].pc \in {"new", "admission"} => cmd'[t].rxCh = <<>>
               /\ t \in ctl'.waiters => cmd'[t].pc = "admission"
    BY <1>1 DEF SameTies, Tied, Ties
  <2> QED BY <1>1, <2>1 DEF Ties
<1>3. ASSUME NEW t \in Commands
      PROVE  cmd'[t].at = cmd[t].at /\ cmd'[t].pc \in {cmd[t].pc, "done"}
  BY <1>1
<1>4. LeaseHeld'
  BY <1>1, <1>3, LeaseKept DEF SameTies, Tied
<1> QED BY <1>2, <1>4 DEF Tied

LEMMA SameFollows ==
  ASSUME ctl'.lease = ctl.lease, ctl'.beat = ctl.beat \/ ctl.lease = NoLease
  PROVE  Follows
BY DEF Follows

LEMMA MonitorTied ==
  ASSUME IInv, Tied, clock \in Clock, Monitor
  PROVE  Tied'
<1>1. Owned(ctl) /\ CmdInv /\ ctl.owner.cmd \in Commands \cup {0}
  BY OwnerType DEF IInv, Held
<1>2. CASE PollRefused
  <2>1. UNCHANGED <<ctl, cmd>> /\ clock'.polled
    BY <1>2 DEF PollRefused, Clock
  <2> QED BY <2>1, SameFollows, StandingTied
<1>3. CASE PollAdmitted
  <2>1. ctl.lease = NoLease /\ ctl' = BeginPoll(ctl) /\ UNCHANGED cmd /\ clock'.polled
    BY <1>3 DEF PollAdmitted, AdmitsPoll, Clock
  <2>2. /\ ctl'.owner = ctl.owner /\ ctl'.waiters = ctl.waiters /\ ctl'.write = "poll"
        /\ ctl'.lease = ctl.lease
    BY <1>1, <2>1, PollTies
  <2>3. Follows
    BY <2>1, <2>2, SameFollows
  <2> QED BY <2>1, <2>2, <2>3, StandingTied
<1>4. CASE WritePoll
  <2>1. ctl' = [ctl EXCEPT !.write = "none"] /\ UNCHANGED cmd
    BY <1>4 DEF WritePoll
  <2>2. SameTies(ctl, ctl') /\ ctl'.waiters = ctl.waiters /\ ctl'.write = "none"
    BY <1>1, <2>1, TieSteps
  <2> QED BY <2>1, <2>2, SameFollows, StandingTied DEF SameTies
<1>5. CASE CheckWatchdog
  <2>1. clock'.polled = clock.polled /\ (ctl.write = "poll" => clock.polled)
    BY <1>5 DEF CheckWatchdog, Clock, Tied, Ties
  <2>2. CASE Unresponsive(ctl)
    <3>1. ctl' = EnterEStop(ctl) /\ cmd' = Cancels(ctl.owner.cmd) /\ ctl.estop # "active"
      BY <1>5, <2>2 DEF CheckWatchdog, Unresponsive
    <3>2. /\ ctl'.owner.cmd = 0 /\ ctl'.lease = NoLease
          /\ ctl'.waiters = ctl.waiters /\ ctl'.write = ctl.write
      BY <1>1, <3>1, StopTies
    <3>3. \A t \in Commands : /\ cmd'[t].pc = cmd[t].pc /\ cmd'[t].at = cmd[t].at
                              /\ cmd'[t].rxCh = cmd[t].rxCh
                              /\ cmd'[t].canceled => cmd[t].canceled \/ ctl.owner.cmd = t
      BY <1>1, <3>1, Canceled
    <3> QED BY <2>1, <3>2, <3>3, StandingTied
  <2>3. CASE ~Unresponsive(ctl)
    <3>1. UNCHANGED <<ctl, cmd>>
      BY <1>5, <2>3 DEF CheckWatchdog
    <3> QED BY <2>1, <3>1, SameFollows, StandingTied
  <2> QED BY <2>2, <2>3
<1> QED BY <1>2, <1>3, <1>4, <1>5 DEF Monitor

\* What the bridge's line does to the lease before it is dispatched.
LEMMA HeardFollows ==
  ASSUME IInv, NEW e, e.age \in Nat
  PROVE  LET d == HeardIn(ctl, e) IN
         /\ Owned(d) /\ d.owner = ctl.owner /\ d.estop = ctl.estop /\ d.waiters = ctl.waiters
         /\ d.write = ctl.write /\ d.beat \in {ctl.beat, NotSet}
         /\ IF ctl.lease = NoLease THEN d.lease = NoLease
            ELSE /\ d.lease # NoLease /\ d.lease.op = ctl.lease.op
                 /\ ctl.lease.limit <= LongestLease => d.lease.limit <= LongestLease
                 /\ ctl.lease.idle = 0 => d.lease.idle = 0
<1> DEFINE noted == NoteActivity(ctl, e.age)
           marked == NoteProgress(noted, e.age, Adjusted(e.text))
<1>1. /\ noted.owner = ctl.owner /\ noted.estop = ctl.estop /\ noted.waiters = ctl.waiters
      /\ noted.write = ctl.write /\ noted.beat \in {ctl.beat, NotSet} /\ Owned(noted)
      /\ IF ctl.lease = NoLease THEN noted.lease = NoLease
         ELSE /\ noted.lease # NoLease /\ noted.lease.op = ctl.lease.op
              /\ noted.lease.limit = ctl.lease.limit
              /\ ctl.lease.idle = 0 => noted.lease.idle = 0
  BY NoteTies, NoteActivityOwned DEF IInv
<1> HIDE DEF noted
<1>2. /\ marked.owner = noted.owner /\ marked.estop = noted.estop
      /\ marked.waiters = noted.waiters /\ marked.write = noted.write
      /\ marked.beat = noted.beat /\ Owned(marked)
      /\ IF noted.lease = NoLease THEN marked.lease = NoLease
         ELSE /\ marked.lease # NoLease /\ marked.lease.op = noted.lease.op
              /\ marked.lease.idle = noted.lease.idle
              /\ noted.lease.limit <= LongestLease => marked.lease.limit <= LongestLease
  BY <1>1, AdjustedType, ProgressTies, NoteProgressOwned
<1>3. HeardIn(ctl, e) \in {marked, noted}
  BY DEF HeardIn, noted
<1> HIDE DEF marked
<1>4. ASSUME NEW d \in {marked, noted}
      PROVE  /\ Owned(d) /\ d.owner = ctl.owner /\ d.estop = ctl.estop /\ d.waiters = ctl.waiters
             /\ d.write = ctl.write /\ d.beat \in {ctl.beat, NotSet}
             /\ IF ctl.lease = NoLease THEN d.lease = NoLease
                ELSE /\ d.lease # NoLease /\ d.lease.op = ctl.lease.op
                     /\ ctl.lease.limit <= LongestLease => d.lease.limit <= LongestLease
                     /\ ctl.lease.idle = 0 => d.lease.idle = 0
  <2>1. CASE d = marked
    BY <1>1, <1>2, <2>1
  <2>2. CASE d = noted
    BY <1>1, <2>2
  <2> QED BY <1>4, <2>1, <2>2
<1> QED BY <1>3, <1>4

\* A response goes to its session, ends a line or ends an overrun session.
LEMMA DeliverTies ==
  ASSUME IInv, NEW c, Owned(c), c.owner = ctl.owner, NEW e, Deliver(c, e)
  PROVE  /\ ctl'.waiters = c.waiters /\ ctl'.write = c.write
         /\ \/ ctl'.owner.cmd = 0 /\ ctl'.lease = NoLease
            \/ ctl'.owner.cmd = ctl.owner.cmd /\ ctl'.lease = c.lease /\ ctl'.beat = c.beat
         /\ \A t \in Commands :
              /\ cmd'[t].pc = cmd[t].pc /\ cmd'[t].at = cmd[t].at
              /\ cmd'[t].rxCh = cmd[t].rxCh \/ ctl.owner.cmd = t
              /\ cmd'[t].canceled => cmd[t].canceled \/ (ctl.owner.cmd = t /\ ctl'.owner.cmd = 0)
<1> DEFINE s == c.owner.cmd
<1>1. s \in Commands \cup {0} /\ CmdInv /\ s = ctl.owner.cmd
  BY OwnerType DEF IInv, Held
<1>2. ASSUME NEW d, Owned(d), SameTies(c, d), d.waiters = c.waiters, d.write = c.write,
             ctl' = ReleaseOwner(d, s)
      PROVE  /\ ctl'.waiters = c.waiters /\ ctl'.write = c.write
             /\ ctl'.owner.cmd = 0 /\ ctl'.lease = NoLease
  BY <1>1, <1>2, ReleaseTies DEF SameTies
<1>3. SameTies(c, c) /\ \A op : /\ Owned(CommitMutation(c, op)) /\ SameTies(c, CommitMutation(c, op))
                                /\ CommitMutation(c, op).waiters = c.waiters
                                /\ CommitMutation(c, op).write = c.write
  BY TieSteps, CommitOwned
<1>4. \/ ctl' = c /\ UNCHANGED cmd
      \/ (ctl' = ReleaseOwner(c, s) \/ ctl' = ReleaseOwner(CommitMutation(c, c.mutation.op), s))
         /\ UNCHANGED cmd
      \/ ctl' = c /\ c.owner.kind = "macro" /\ cmd' = [cmd EXCEPT ![s].rxCh = Append(@, [text |-> e.text, op |-> e.op])]
      \/ ctl' = ReleaseOwner(c, s) /\ cmd' = Cancels(s)
  BY DEF Deliver
<1>5. CASE ctl' = c /\ UNCHANGED cmd
  BY <1>5
<1>6. CASE (ctl' = ReleaseOwner(c, s) \/ ctl' = ReleaseOwner(CommitMutation(c, c.mutation.op), s))
           /\ UNCHANGED cmd
  <2>1. /\ ctl'.waiters = c.waiters /\ ctl'.write = c.write
        /\ ctl'.owner.cmd = 0 /\ ctl'.lease = NoLease
    <3>1. CASE ctl' = ReleaseOwner(c, s)
      BY <1>2, <1>3, <3>1
    <3>2. CASE ctl' = ReleaseOwner(CommitMutation(c, c.mutation.op), s)
      BY <1>2, <1>3, <3>2
    <3> QED BY <1>6, <3>1, <3>2
  <2> QED BY <1>6, <2>1
<1>7. CASE ctl' = c /\ cmd' = [cmd EXCEPT ![s].rxCh = Append(@, [text |-> e.text, op |-> e.op])]
  <2> DEFINE q == Append(cmd[s].rxCh, [text |-> e.text, op |-> e.op])
  <2>1. cmd' = [cmd EXCEPT ![s].rxCh = q]
    BY <1>7
  <2>2. cmd \in [Commands -> CommandType]
    BY <1>1 DEF CmdInv
  <2> HIDE DEF q
  <2>3. ASSUME NEW t \in Commands
        PROVE  /\ cmd'[t].pc = cmd[t].pc /\ cmd'[t].at = cmd[t].at
               /\ cmd'[t].rxCh = cmd[t].rxCh \/ s = t
               /\ cmd'[t].canceled = cmd[t].canceled
    BY <2>1, <2>2 DEF CommandType
  <2> QED BY <1>1, <1>7, <2>3
<1>8. CASE ctl' = ReleaseOwner(c, s) /\ cmd' = Cancels(s)
  <2>1. /\ ctl'.waiters = c.waiters /\ ctl'.write = c.write
        /\ ctl'.owner.cmd = 0 /\ ctl'.lease = NoLease
    BY <1>2, <1>3, <1>8
  <2>2. \A t \in Commands : /\ cmd'[t].pc = cmd[t].pc /\ cmd'[t].at = cmd[t].at
                            /\ cmd'[t].rxCh = cmd[t].rxCh
                            /\ cmd'[t].canceled => cmd[t].canceled \/ s = t
    BY <1>1, <1>8, Canceled
  <2> QED BY <1>1, <2>1, <2>2
<1> QED BY <1>4, <1>5, <1>6, <1>7, <1>8

LEMMA BridgeTied ==
  ASSUME IInv, Tied, Bridge
  PROVE  Tied'
<1> DEFINE e == Head(rx)
           heard == HeardIn(ctl, e)
<1>1. e.age \in Nat /\ UNCHANGED clock
  <2>1. RxInv /\ rx # <<>> /\ UNCHANGED clock
    BY DEF Bridge, IInv, Held
  <2>2. e \in LineEvent
    BY <2>1, RestType
  <2> QED BY <2>1, <2>2, Bounds DEF LineEvent
<1>2. /\ Owned(heard) /\ heard.owner = ctl.owner /\ heard.estop = ctl.estop
      /\ heard.waiters = ctl.waiters /\ heard.write = ctl.write /\ heard.beat \in {ctl.beat, NotSet}
      /\ IF ctl.lease = NoLease THEN heard.lease = NoLease
         ELSE /\ heard.lease # NoLease /\ heard.lease.op = ctl.lease.op
              /\ ctl.lease.limit <= LongestLease => heard.lease.limit <= LongestLease
              /\ ctl.lease.idle = 0 => heard.lease.idle = 0
  BY <1>1, HeardFollows
<1>3. \/ ctl' = NoteStatus(heard, e.text = "idle") /\ UNCHANGED cmd
      \/ ctl' = heard /\ UNCHANGED cmd
      \/ ctl' = EnterEStop(heard) /\ cmd' = Cancels(ctl.owner.cmd) /\ ctl.estop # "active"
      \/ Deliver(heard, e)
  BY DEF Bridge, HeardIn
<1>4. CmdInv /\ ctl.owner.cmd \in Commands \cup {0} /\ (ctl.write = "poll" => clock'.polled)
  BY <1>1, OwnerType DEF IInv, Held, Tied, Ties
<1> HIDE DEF heard, e
<1>5. ASSUME ctl'.lease = heard.lease, ctl'.beat = heard.beat
      PROVE  Follows
  BY <1>2, <1>5 DEF Follows
<1>6. CASE ctl' = NoteStatus(heard, e.text = "idle") /\ UNCHANGED cmd
  <2>1. /\ ctl'.owner = heard.owner /\ ctl'.lease = heard.lease /\ ctl'.beat = heard.beat
        /\ ctl'.waiters = heard.waiters /\ ctl'.write = heard.write
    BY <1>2, <1>6, StatusTies
  <2> QED BY <1>2, <1>4, <1>5, <1>6, <2>1, StandingTied
<1>7. CASE ctl' = heard /\ UNCHANGED cmd
  BY <1>2, <1>4, <1>5, <1>7, StandingTied
<1>8. CASE ctl' = EnterEStop(heard) /\ cmd' = Cancels(ctl.owner.cmd) /\ ctl.estop # "active"
  <2>1. /\ ctl'.owner.cmd = 0 /\ ctl'.lease = NoLease
        /\ ctl'.waiters = ctl.waiters /\ ctl'.write = ctl.write
    BY <1>2, <1>8, StopTies
  <2>2. \A t \in Commands : /\ cmd'[t].pc = cmd[t].pc /\ cmd'[t].at = cmd[t].at
                            /\ cmd'[t].rxCh = cmd[t].rxCh
                            /\ cmd'[t].canceled => cmd[t].canceled \/ ctl.owner.cmd = t
    BY <1>4, <1>8, Canceled
  <2> QED BY <1>4, <2>1, <2>2, StandingTied
<1>9. CASE Deliver(heard, e)
  <2>1. /\ ctl'.waiters = heard.waiters /\ ctl'.write = heard.write
        /\ \/ ctl'.owner.cmd = 0 /\ ctl'.lease = NoLease
           \/ ctl'.owner.cmd = ctl.owner.cmd /\ ctl'.lease = heard.lease /\ ctl'.beat = heard.beat
        /\ \A t \in Commands :
             /\ cmd'[t].pc = cmd[t].pc /\ cmd'[t].at = cmd[t].at
             /\ cmd'[t].rxCh = cmd[t].rxCh \/ ctl.owner.cmd = t
             /\ cmd'[t].canceled => cmd[t].canceled \/ (ctl.owner.cmd = t /\ ctl'.owner.cmd = 0)
    BY <1>2, <1>9, DeliverTies
  <2> QED BY <1>2, <1>4, <1>5, <2>1, StandingTied
<1> QED BY <1>3, <1>6, <1>7, <1>8, <1>9

\* What the machine does to itself touches nothing of the controller.
LEMMA MachineTied ==
  ASSUME IInv, Tied, clock \in Clock, Machine \/ Dies \/ RaisesAlarm50
  PROVE  Tied'
<1>1. UNCHANGED <<ctl, cmd>> /\ (UNCHANGED clock \/ CountUpset)
  BY DEF Machine, Takes, Homed, Adjusts, Reports, Dies, RaisesAlarm50
<1>2. clock'.polled = clock.polled /\ (ctl.write = "poll" => clock.polled)
  BY <1>1, CountedUpset DEF Tied, Ties
<1> QED BY <1>1, <1>2, SameFollows, StandingTied

LEMMA TickTied ==
  ASSUME IInv, Tied, Tick
  PROVE  Tied'
<1>1. /\ ctl' = Ages(ctl) /\ UNCHANGED cmd /\ ctl.write = "none" /\ Owned(ctl)
      /\ \A s \in Commands : cmd[s].pc # "write"
  BY DEF Tick, Timely, IInv
<1>2. /\ ctl'.owner = ctl.owner /\ ctl'.waiters = ctl.waiters /\ ctl'.write = ctl.write
      /\ ctl'.beat = IF ctl.beat = NotSet THEN NotSet ELSE Older(ctl.beat)
      /\ IF ctl.lease = NoLease THEN ctl'.lease = NoLease
         ELSE /\ ctl'.lease # NoLease /\ ctl'.lease.op = ctl.lease.op
              /\ ctl'.lease.limit = ctl.lease.limit
  BY <1>1, AgesTies
<1>3. ctl.lease # NoLease => ctl.beat = NotSet
  BY DEF Tied, LeaseHeld
<1>4. Follows
  BY <1>1, <1>2, <1>3 DEF Follows
<1> QED BY <1>1, <1>2, <1>4, StandingTied

LEMMA InitTied == Init => Tied
<1> SUFFICES ASSUME Init PROVE Tied
  OBVIOUS
<1>1. /\ ctl.owner.cmd = 0 /\ ctl.waiters = {} /\ ctl.write = "none" /\ ctl.lease = NoLease
  BY DEF Init, InitCommands, NoOwner
<1>2. \A s \in Commands : s # 0 /\ ~cmd[s].canceled /\ cmd[s].rxCh = <<>>
  BY Bounds DEF Init, NoCommand
<1> QED BY <1>1, <1>2 DEF Tied, Ties, LeaseHeld

LEMMA ClockStep ==
  ASSUME clock \in Clock, [Next]_vars
  PROVE  clock' \in Clock
<1>1. ASSUME NEW kind, Upset(kind), CountUpset PROVE clock' \in Clock
  BY <1>1, SessionAssumption DEF Upset, CountUpset, Clock
<1>2. CASE UNCHANGED clock
  BY <1>2
<1>3. CASE clock' = [clock EXCEPT !.polled = TRUE] \/ clock' = [clock EXCEPT !.checked = TRUE]
  BY <1>3 DEF Clock
<1>4. CASE clock' = [clock EXCEPT !.polled = FALSE, !.checked = FALSE]
  BY <1>4 DEF Clock
<1>5. \/ UNCHANGED clock
      \/ \E kind \in {"reject", "write", "dead", "alarm50", "silentreset"} : Upset(kind) /\ CountUpset
      \/ clock' = [clock EXCEPT !.polled = TRUE] \/ clock' = [clock EXCEPT !.checked = TRUE]
      \/ clock' = [clock EXCEPT !.polled = FALSE, !.checked = FALSE]
  <2>1. CASE Takes
    BY <2>1 DEF Takes
  <2>2. CASE Homed \/ Adjusts \/ Reports \/ Dies \/ RaisesAlarm50 \/ Bridge \/ Tick
    BY <2>2 DEF Homed, Adjusts, Reports, Dies, RaisesAlarm50, Bridge, Tick
  <2>3. CASE Monitor
    BY <2>3 DEF Monitor, PollRefused, PollAdmitted, WritePoll, CheckWatchdog
  <2>4. ASSUME NEW s \in Commands, Issue(s) \/ Command(s)
        PROVE  UNCHANGED clock \/ (Upset("write") /\ CountUpset)
    BY <2>4 DEF Issue, Command, Admit, PrepareLine, WriteLine, WriteLineFails, TakeOK, TakeFailure,
       EndSession, AdmitReset, WriteReset
  <2>5. CASE UNCHANGED vars
    BY <2>5 DEF vars
  <2> QED BY <2>1, <2>2, <2>3, <2>4, <2>5 DEF Next, Machine
<1> QED BY <1>1, <1>2, <1>3, <1>4, <1>5

-----------------------------------------------------------------------------
(* After the machine's death. *)

\* A dead machine has cost an upset, and says nothing: what is still to be read has
\* waited since, and past Lag there is nothing left to read or to take.
Departed ==
  /\ clock \in Clock
  /\ dev.dead > 0 => ~dev.alive
  /\ ~dev.alive => clock.upsets >= 1 /\ \A i \in 1..Len(rx) : rx[i].age >= dev.dead
  /\ dev.dead > Lag => \A s \in Commands : cmd[s].pc # "done" => cmd[s].rxCh = <<>>

LEMMA DeadType == ASSUME IInv PROVE dev.dead \in Nat /\ dev.alive \in BOOLEAN
BY DEF IInv, Held, DevInv, MachineType

LEMMA NothingLeft ==
  ASSUME IInv, Departed, dev.dead > Lag
  PROVE  ~dev.alive /\ rx = <<>> /\ clock.upsets \in 1..MaxUpsets
<1>1. ~dev.alive /\ clock.upsets \in 1..MaxUpsets
  BY DeadType, Bounds, SessionAssumption DEF Departed, Clock
<1>2. \A i \in 1..Len(rx) : rx[i].age >= dev.dead /\ rx[i].age \in 0..Lag
  BY <1>1, ChannelFacts DEF Departed
<1>3. Len(rx) \in Nat /\ rx \in Seq(LineEvent)
  BY ChannelFacts
<1>4. Len(rx) = 0
  <2>1. ~(1 \in 1..Len(rx))
    BY <1>2, DeadType, Bounds
  <2> QED BY <1>3, <2>1
<1> QED BY <1>1, <1>3, <1>4, EmptySeq

LEMMA DepartedKept ==
  ASSUME IInv, IInv', Departed, clock' \in Clock, dev'.dead = dev.dead, dev'.alive = dev.alive,
         clock'.upsets >= clock.upsets,
         dev.alive \/ UNCHANGED rx \/ (rx # <<>> /\ rx' = Tail(rx)),
         dev.dead > Lag =>
           \A s \in Commands : cmd'[s].pc # "done" /\ cmd'[s].rxCh # <<>> =>
                                 cmd[s].pc # "done" /\ cmd[s].rxCh # <<>>
  PROVE  Departed'
<1>1. ASSUME ~dev.alive PROVE \A i \in 1..Len(rx') : rx'[i].age >= dev.dead
  <2>1. CASE UNCHANGED rx
    BY <1>1, <2>1 DEF Departed
  <2>2. CASE rx # <<>> /\ rx' = Tail(rx)
    <3>1. \A i \in 1..Len(rx') : i + 1 \in 1..Len(rx) /\ rx'[i] = rx[i + 1]
      BY <2>2, TailFacts
    <3> QED BY <1>1, <3>1 DEF Departed
  <2> QED BY <1>1, <2>1, <2>2
<1>2. ~dev.alive => clock'.upsets >= 1
  BY DEF Departed, Clock
<1> QED BY <1>1, <1>2 DEF Departed

LEMMA MovesDeparted ==
  ASSUME IInv, IInv', Departed, clock' \in Clock, NEW s \in Commands, NEW from, NEW to,
         Moves(s, from, to), "done" \notin from, clock'.upsets >= clock.upsets
  PROVE  Departed'
<1>1. /\ dev'.dead = dev.dead /\ dev'.alive = dev.alive /\ UNCHANGED rx
      /\ \A t \in Commands : t # s => cmd'[t] = cmd[t]
      /\ cmd[s].pc # "done" /\ (cmd'[s].rxCh = cmd[s].rxCh \/ cmd[s].rxCh # <<>>)
  BY DEF Moves
<1>2. \A t \in Commands : cmd'[t].pc # "done" /\ cmd'[t].rxCh # <<>> =>
                            cmd[t].pc # "done" /\ cmd[t].rxCh # <<>>
  BY <1>1
<1> QED BY <1>1, <1>2, DepartedKept

LEMMA CommandDeparted ==
  ASSUME IInv, IInv', Tied, Departed, clock' \in Clock, NEW s \in Commands, Issue(s) \/ Command(s)
  PROVE  Departed'
<1>1. \A t \in Commands : cmd[t].pc \in {"new", "admission"} => cmd[t].rxCh = <<>>
  BY DEF Tied, Ties
<1>2. clock.upsets \in Nat /\ (UNCHANGED clock => clock'.upsets >= clock.upsets)
      /\ (CountUpset => clock'.upsets >= clock.upsets)
  BY SessionAssumption, CountedUpset DEF Departed, Clock
<1>3. CASE Issue(s)
  <2>1. /\ UNCHANGED <<rx, dev, clock>> /\ cmd'[s].rxCh = <<>>
        /\ \A t \in Commands : t # s => cmd'[t] = cmd[t]
    BY <1>3, IssueCases
  <2>2. \A t \in Commands : cmd'[t].pc # "done" /\ cmd'[t].rxCh # <<>> =>
                              cmd[t].pc # "done" /\ cmd[t].rxCh # <<>>
    BY <2>1
  <2> QED BY <1>2, <2>1, <2>2, DepartedKept
<1>4. CASE Admit(s)
  BY <1>2, <1>4, AdmitMoves, MovesDeparted
<1>5. CASE PrepareLine(s)
  BY <1>2, <1>5, PrepareLineMoves, MovesDeparted
<1>6. CASE WriteLine(s)
  BY <1>2, <1>6, WriteLineMoves, MovesDeparted
<1>7. CASE WriteLineFails(s)
  <2>1. Moves(s, {"write"}, {"end", "done"}) /\ clock'.upsets >= clock.upsets
    BY <1>2, <1>7, WriteLineFailsMoves DEF Tied, Departed
  <2> QED BY <2>1, MovesDeparted
<1>8. CASE TakeOK(s)
  BY <1>2, <1>8, TakeOKMoves, MovesDeparted DEF Tied
<1>9. CASE TakeFailure(s)
  BY <1>2, <1>9, TakeFailureMoves, MovesDeparted DEF Tied
<1>10. CASE EndSession(s)
  BY <1>2, <1>10, EndSessionMoves, MovesDeparted DEF Tied
<1>11. CASE AdmitReset(s)
  <2>1. CASE Moves(s, {"admission"}, {"done"})
    BY <1>2, <1>11, <2>1, AdmitResetCases, MovesDeparted
  <2>2. CASE /\ cmd'[s].pc = "write ctrl-x" /\ cmd'[s].rxCh = cmd[s].rxCh
             /\ \A t \in Commands \ {s} : cmd'[t].pc = cmd[t].pc /\ cmd'[t].rxCh = cmd[t].rxCh
    <3>1. UNCHANGED <<rx, dev, clock>> /\ cmd[s].pc = "admission"
      BY <1>11, AdmitResetCases
    <3>2. \A t \in Commands : cmd'[t].pc # "done" /\ cmd'[t].rxCh # <<>> =>
                                cmd[t].pc # "done" /\ cmd[t].rxCh # <<>>
      BY <2>2, <3>1
    <3> QED BY <1>2, <3>1, <3>2, DepartedKept
  <2> QED BY <1>11, <2>1, <2>2, AdmitResetCases
<1>12. CASE WriteReset(s)
  <2>1. /\ cmd[s].pc = "write ctrl-x" /\ cmd'[s].rxCh = cmd[s].rxCh
        /\ \A t \in Commands : t # s => cmd'[t] = cmd[t]
        /\ dev'.alive = dev.alive /\ dev'.dead = dev.dead /\ (CountUpset \/ UNCHANGED clock)
        /\ (dev.alive \/ UNCHANGED rx)
    BY <1>12, WriteResetCases
  <2>2. \A t \in Commands : cmd'[t].pc # "done" /\ cmd'[t].rxCh # <<>> =>
                              cmd[t].pc # "done" /\ cmd[t].rxCh # <<>>
    BY <2>1
  <2> QED BY <1>2, <2>1, <2>2, DepartedKept
<1> QED BY <1>3, <1>4, <1>5, <1>6, <1>7, <1>8, <1>9, <1>10, <1>11, <1>12 DEF Command

LEMMA MonitorDeparted ==
  ASSUME IInv, IInv', Departed, clock' \in Clock, Monitor
  PROVE  Departed'
<1>1. /\ UNCHANGED rx /\ CmdInv /\ dev \in MachineType /\ ctl.owner.cmd \in Commands \cup {0}
  BY OwnerType DEF Monitor, PollRefused, PollAdmitted, WritePoll, CheckWatchdog, IInv, Held, DevInv
<1>2. dev'.dead = dev.dead /\ dev'.alive = dev.alive
  BY <1>1 DEF Monitor, PollRefused, PollAdmitted, WritePoll, CheckWatchdog, MachineType
<1>3. clock'.upsets >= clock.upsets
  <2>1. clock.upsets \in Nat
    BY SessionAssumption DEF Departed, Clock
  <2>2. CASE CountUpset
    BY <2>1, <2>2, CountedUpset DEF Departed
  <2>3. CASE \/ UNCHANGED clock \/ clock' = [clock EXCEPT !.polled = TRUE]
             \/ clock' = [clock EXCEPT !.checked = TRUE]
    BY <2>1, <2>3 DEF Departed, Clock
  <2> QED BY <2>2, <2>3 DEF Monitor, PollRefused, PollAdmitted, WritePoll, CheckWatchdog
<1>4. \A t \in Commands : cmd'[t].pc = cmd[t].pc /\ cmd'[t].rxCh = cmd[t].rxCh
  <2>1. UNCHANGED cmd \/ cmd' = Cancels(ctl.owner.cmd)
    BY DEF Monitor, PollRefused, PollAdmitted, WritePoll, CheckWatchdog
  <2> QED BY <1>1, <2>1, Canceled
<1> QED BY <1>1, <1>2, <1>3, <1>4, DepartedKept

LEMMA BridgeDeparted ==
  ASSUME IInv, IInv', Departed, Bridge
  PROVE  Departed'
<1>1. rx # <<>> /\ rx' = Tail(rx) /\ UNCHANGED <<dev, clock>>
  BY DEF Bridge
<1>2. ~(dev.dead > Lag) /\ clock.upsets \in Nat /\ clock' \in Clock
  BY <1>1, NothingLeft, SessionAssumption DEF Departed, Clock
<1> QED BY <1>1, <1>2, DepartedKept

LEMMA MachineLives ==
  ASSUME IInv, Machine \/ RaisesAlarm50
  PROVE  dev'.dead = dev.dead /\ dev'.alive = dev.alive
<1>1. dev \in MachineType
  BY DEF IInv, Held, DevInv
<1>2. CASE Takes
  <2> DEFINE next == Head(dev.input)
             op == [cmd |-> next.cmd, at |-> next.at]
             line == next.line
             time == SilentTime(line.kind, dev.setting, 0, 0)
             taken == [dev EXCEPT !.input = Tail(@)]
  <2>1. line \in Line
    <3>1. next \in Input
      BY <1>1, <1>2, HeadTailProperties DEF Takes, MachineType
    <3> QED BY <3>1 DEF Input
  <2>2. \/ dev' = [taken EXCEPT !.homing = time, !.op = op, !.kind = line.kind, !.leg = 0,
                                !.alarm = FALSE]
        \/ /\ line.kind \notin Silent
           /\ dev' = CASE line.kind = "set" -> [taken EXCEPT !.setting = line.value]
                       [] line.kind = "reset" -> [taken EXCEPT !.setting = 1]
                       [] line.kind = "unlock" -> [taken EXCEPT !.alarm = FALSE]
                       [] line.kind = "move" -> taken
        \/ dev' = taken
        \/ dev' = [taken EXCEPT !.setting = 1, !.input = <<>>]
    BY <1>2 DEF Takes
  <2>3. taken.dead = dev.dead /\ taken.alive = dev.alive /\ DOMAIN taken = DOMAIN dev
    BY <1>1 DEF MachineType
  <2>4. DOMAIN dev = {"alive", "alarm", "setting", "homing", "op", "kind", "leg", "input", "ask", "dead"}
    BY <1>1 DEF MachineType
  <2> HIDE DEF taken, time, op, line
  <2>5. \/ dev' = [taken EXCEPT !.homing = time, !.op = op, !.kind = line.kind, !.leg = 0,
                                !.alarm = FALSE]
        \/ dev' = [taken EXCEPT !.setting = line.value]
        \/ dev' = [taken EXCEPT !.setting = 1]
        \/ dev' = [taken EXCEPT !.alarm = FALSE]
        \/ dev' = taken
        \/ dev' = [taken EXCEPT !.setting = 1, !.input = <<>>]
    BY <2>1, <2>2 DEF Line, Silent
  <2> QED BY <2>3, <2>4, <2>5
<1>3. CASE Homed \/ Adjusts \/ Reports \/ RaisesAlarm50
  BY <1>1, <1>3 DEF Homed, Adjusts, Reports, RaisesAlarm50, MachineType
<1> QED BY <1>2, <1>3 DEF Machine

LEMMA MachineDeparted ==
  ASSUME IInv, IInv', Departed, clock' \in Clock, Machine \/ Dies \/ RaisesAlarm50
  PROVE  Departed'
<1>1. dev.alive /\ dev \in MachineType
  BY DEF Machine, Takes, Homed, Adjusts, Reports, Dies, RaisesAlarm50, Serving, IInv, Held, DevInv
<1>2. dev.dead = 0
  BY <1>1, DeadType DEF Departed
<1>3. CASE Dies
  <2>1. dev'.dead = 0 /\ rx' = rx
    BY <1>1, <1>2, <1>3 DEF Dies, MachineType
  <2>2. clock'.upsets = clock.upsets + 1 /\ clock.upsets \in Nat
    BY <1>3, CountedUpset, SessionAssumption DEF Dies, Departed, Clock
  <2>3. \A i \in 1..Len(rx) : rx[i].age >= 0
    BY ChannelFacts
  <2> QED BY <2>1, <2>2, <2>3, Bounds DEF Departed
<1>4. CASE Machine \/ RaisesAlarm50
  <2>1. dev'.dead = 0 /\ dev'.alive
    BY <1>1, <1>2, <1>4, MachineLives
  <2> QED BY <2>1, Bounds DEF Departed
<1> QED BY <1>3, <1>4

LEMMA TickDeparted ==
  ASSUME IInv, IInv', Tied, Departed, Tick
  PROVE  Departed'
<1>1. /\ UNCHANGED cmd /\ dev \in MachineType /\ dev.dead \in Nat
      /\ clock'.upsets = clock.upsets /\ clock' \in Clock
  BY DEF Tick, IInv, Held, DevInv, MachineType, Departed, Clock
<1>2. Len(rx') = Len(rx) /\ \A i \in 1..Len(rx) : rx'[i].age = rx[i].age + 1 /\ rx[i].age \in Nat
  <2>1. rx' = [i \in 1..Len(rx) |-> [rx[i] EXCEPT !.age = @ + 1]]
    BY DEF Tick
  <2>2. rx' \in [1..Len(rx) -> {[rx[i] EXCEPT !.age = @ + 1] : i \in 1..Len(rx)}]
    BY <2>1
  <2>3. Len(rx') = Len(rx)
    BY <2>1, <2>2, ChannelFacts, LenProperties
  <2> QED BY <2>1, <2>3, ChannelFacts DEF LineEvent
<1>3. \A s \in Commands : cmd'[s].pc # "done" => cmd'[s].rxCh = <<>>
  <2>1. ASSUME NEW s \in Commands, cmd[s].pc # "done"
        PROVE  cmd[s].rxCh = <<>>
    <3>1. cmd[s].pc \in {"new", "wait"} /\ (cmd[s].pc = "wait" => cmd[s].rxCh = <<>>)
      BY <2>1 DEF Tick, Timely
    <3> QED BY <3>1 DEF Tied, Ties
  <2> QED BY <1>1, <2>1
<1>4. CASE dev.alive
  <2>1. dev.dead = 0 /\ (UNCHANGED dev \/ dev' = [dev EXCEPT !.homing = @ - 1])
    BY <1>1, <1>4 DEF Tick, Departed
  <2>2. dev'.dead = 0 /\ dev'.alive
    BY <1>1, <1>4, <2>1 DEF MachineType
  <2> QED BY <1>1, <1>3, <2>2 DEF Departed
<1>5. CASE ~dev.alive
  <2>1. dev' = [dev EXCEPT !.dead = IF @ > Noticed THEN @ ELSE @ + 1]
    BY <1>5 DEF Tick
  <2>2. ~dev'.alive /\ dev'.dead <= dev.dead + 1
    BY <1>1, <1>5, <2>1 DEF MachineType
  <2>3. dev'.dead \in Nat
    BY DEF IInv, Held, DevInv, MachineType
  <2>4. \A i \in 1..Len(rx') : rx'[i].age >= dev'.dead
    BY <1>1, <1>2, <1>5, <2>2, <2>3 DEF Departed
  <2> QED BY <1>1, <1>3, <1>5, <2>2, <2>4 DEF Departed
<1> QED BY <1>4, <1>5, DeadType

LEMMA InitDeparted == Init => Departed
BY SessionAssumption, CommandAssumption DEF Init, InitMachine, Departed, Clock

-----------------------------------------------------------------------------
(* How long the watchdog may take. *)

\* Commands whose line was prepared, if it needed preparing, and those for which
\* nothing is left to be written; goroutines that hold a status poll up.
Gone == {s \in Commands : cmd[s].pc \in {"write", "write ctrl-x", "wait", "end", "done"}}
Settled == {s \in Commands : cmd[s].pc \in {"wait", "end", "done"}}
Engaged == \E s \in Commands : cmd[s].pc \in {"admission", "prepare", "write", "write ctrl-x"}

LEMMA SetSizes ==
  /\ \A S \in SUBSET Commands : Cardinality(S) \in Nat /\ Cardinality(S) <= MaxCommands
  /\ \A S, T \in SUBSET Commands : S \subseteq T =>
       /\ Cardinality(S) <= Cardinality(T)
       /\ S # T => Cardinality(S) + 1 <= Cardinality(T)
<1>1. IsFiniteSet(Commands) /\ Cardinality(Commands) = MaxCommands
  BY FS_Interval, CommandAssumption DEF Commands
<1>2. \A S \in SUBSET Commands : IsFiniteSet(S) /\ Cardinality(S) \in Nat /\ Cardinality(S) <= MaxCommands
  BY <1>1, FS_Subset, FS_CardinalityType
<1>3. ASSUME NEW S \in SUBSET Commands, NEW T \in SUBSET Commands, S \subseteq T
      PROVE  /\ Cardinality(S) <= Cardinality(T)
             /\ S # T => Cardinality(S) + 1 <= Cardinality(T)
  <2>1. IsFiniteSet(T) /\ Cardinality(S) \in Nat /\ Cardinality(T) \in Nat
    BY <1>2
  <2>2. /\ Cardinality(S) <= Cardinality(T)
        /\ S # T => Cardinality(S) < Cardinality(T)
    BY <1>3, <2>1, FS_Subset
  <2> QED BY <2>1, <2>2
<1> QED BY <1>2, <1>3

LEMMA Countings ==
  /\ Cardinality(Gone) \in Nat /\ Cardinality(Gone) <= MaxCommands
  /\ Cardinality(Settled) \in Nat /\ Cardinality(Settled) <= Cardinality(Gone)
<1>1. Gone \in SUBSET Commands /\ Settled \in SUBSET Commands /\ Settled \subseteq Gone
  BY DEF Gone, Settled
<1> QED BY <1>1, SetSizes

\* What may delay the watchdog: j silent lines and the resets that ended their
\* leases, d commands that held a poll up, f silent lines that could not be written.
Cost(j, d, f) == Lag + j * (Timeout + 1 + LongestLease) + d + f * (Timeout + 1)

LEMMA Costs ==
  ASSUME NEW j \in Nat, NEW d \in Nat, NEW f \in Nat
  PROVE  /\ Cost(j, d, f) \in Nat /\ Lag <= Cost(j, d, f)
         /\ Cost(j, d + 1, f) = Cost(j, d, f) + 1
         /\ Cost(j, d, f + 1) = Cost(j, d, f) + Timeout + 1
         /\ Cost(j + 1, d, f) = Cost(j, d, f) + Timeout + 1 + LongestLease
<1> DEFINE each == Timeout + 1 + LongestLease
<1>1. Timeout + 1 \in Nat /\ each \in Nat /\ Lag \in Nat
  BY CommandAssumption, LongestType, Bounds
<1> DEFINE beat == Timeout + 1
<1> HIDE DEF each, beat
<1>2. \A m, n \in Nat : m * n \in Nat /\ (m + 1) * n = m * n + n
  OBVIOUS
<1>3. /\ j * each \in Nat /\ (j + 1) * each = j * each + each
      /\ f * beat \in Nat /\ (f + 1) * beat = f * beat + beat
  BY <1>1, <1>2 DEF beat
<1> DEFINE silent == j * each
           failed == f * beat
<1>4. /\ Cost(j, d, f) = Lag + silent + d + failed
      /\ Cost(j, d + 1, f) = Lag + silent + (d + 1) + failed
      /\ Cost(j, d, f + 1) = Lag + silent + d + (failed + beat)
      /\ Cost(j + 1, d, f) = Lag + (silent + each) + d + failed
  BY <1>3 DEF Cost, each, beat
<1> HIDE DEF silent, failed
<1>5. silent \in Nat /\ failed \in Nat /\ beat \in Nat
  BY <1>1, <1>3 DEF silent, failed, beat
<1>6. beat = Timeout + 1 /\ each = Timeout + 1 + LongestLease
  BY DEF beat, each
<1> QED BY <1>1, <1>4, <1>5, <1>6, CommandAssumption, LongestType

Overdue == dev.dead > Lag /\ ctl.estop # "active"

\* The watchdog has not found its limit passed in this tick, and will not be further
\* past it than a tick takes it.
Watched ==
  \/ dev.dead = Lag + 1 /\ ~clock.checked
  \/ /\ ctl.lease # NoLease =>
          ctl.lease.idle <= ctl.lease.limit /\ (clock.checked => ctl.lease.idle < ctl.lease.limit)
     /\ ctl.beat # NotSet => ctl.beat <= Timeout /\ (clock.checked => ctl.beat < Timeout)

\* Where the time went: the watchdog waits for the lease, for the heartbeat, for a
\* poll to begin a heartbeat, or for the commands that keep polls from beginning one.
Spends(j, d, f) ==
  /\ f < clock.upsets
  /\ \/ /\ ctl.lease # NoLease /\ 2 * j + d + 1 <= Cardinality(Gone)
        /\ dev.dead <= Cost(j, d, f) + Timeout + 1 + ctl.lease.idle
     \/ /\ ctl.lease = NoLease /\ ctl.beat # NotSet /\ 2 * j + d <= Cardinality(Gone)
        /\ dev.dead <= Cost(j, d, f) + 1 + ctl.beat
     \/ /\ ctl.lease = NoLease /\ ctl.beat = NotSet /\ 2 * j + d <= Cardinality(Gone)
        /\ dev.dead <= Cost(j, d, f)
     \/ /\ ctl.lease = NoLease /\ ctl.beat = NotSet /\ 2 * j + d <= Cardinality(Settled)
        /\ dev.dead <= Cost(j, d, f) + 1 /\ (~clock.polled \/ Engaged)
Waited == Overdue => Watched /\ \E j, d, f \in Nat : Spends(j, d, f)

\* A step that leaves lease, heartbeat and turns alone.
LEMMA WaitedStill ==
  ASSUME Waited, clock \in Clock, ctl'.estop \in {ctl.estop, "active"},
         ctl'.lease = ctl.lease, ctl'.beat = ctl.beat, dev'.dead = dev.dead,
         clock'.polled = clock.polled, clock'.checked = clock.checked,
         clock'.upsets \in Nat, clock'.upsets >= clock.upsets,
         Gone \subseteq Gone', Settled \subseteq Settled', Engaged => Engaged' \/ Settled # Settled'
  PROVE  Waited'
<1> SUFFICES ASSUME Overdue' PROVE Watched' /\ \E j, d, f \in Nat : Spends(j, d, f)'
  BY DEF Waited
<1>1. Overdue
  BY DEF Overdue
<1>2. Watched'
  BY <1>1 DEF Waited, Watched
<1>3. PICK j \in Nat : \E d, f \in Nat : Spends(j, d, f)
  BY <1>1 DEF Waited
<1>4. PICK d \in Nat : \E f \in Nat : Spends(j, d, f)
  BY <1>3
<1>5. PICK f \in Nat : Spends(j, d, f)
  BY <1>4
<1>6. /\ Cardinality(Gone) \in Nat /\ Cardinality(Settled) \in Nat
      /\ Cardinality(Gone') \in Nat /\ Cardinality(Gone) <= Cardinality(Gone')
      /\ Cardinality(Settled') \in Nat /\ Cardinality(Settled) <= Cardinality(Settled')
      /\ Cardinality(Settled') <= Cardinality(Gone')
      /\ Settled # Settled' => Cardinality(Settled) + 1 <= Cardinality(Settled')
  <2>1. /\ Gone \in SUBSET Commands /\ Settled \in SUBSET Commands
        /\ Gone' \in SUBSET Commands /\ Settled' \in SUBSET Commands /\ Settled' \subseteq Gone'
    BY DEF Gone, Settled
  <2> QED BY <2>1, SetSizes
<1>7. f < clock'.upsets
  BY <1>5, SessionAssumption DEF Spends, Clock
<1>8. CASE /\ ctl.lease # NoLease /\ 2 * j + d + 1 <= Cardinality(Gone)
           /\ dev.dead <= Cost(j, d, f) + Timeout + 1 + ctl.lease.idle
  <2>1. 2 * j + d + 1 <= Cardinality(Gone')
    BY <1>6, <1>8
  <2>2. Spends(j, d, f)'
    BY <1>7, <1>8, <2>1 DEF Spends, Cost
  <2> QED BY <1>2, <2>2
<1>9. CASE /\ ctl.lease = NoLease /\ ctl.beat # NotSet /\ 2 * j + d <= Cardinality(Gone)
           /\ dev.dead <= Cost(j, d, f) + 1 + ctl.beat
  <2>1. 2 * j + d <= Cardinality(Gone')
    BY <1>6, <1>9
  <2>2. Spends(j, d, f)'
    BY <1>7, <1>9, <2>1 DEF Spends, Cost
  <2> QED BY <1>2, <2>2
<1>10. CASE /\ ctl.lease = NoLease /\ ctl.beat = NotSet /\ 2 * j + d <= Cardinality(Gone)
            /\ dev.dead <= Cost(j, d, f)
  <2>1. 2 * j + d <= Cardinality(Gone')
    BY <1>6, <1>10
  <2>2. Spends(j, d, f)'
    BY <1>7, <1>10, <2>1 DEF Spends, Cost
  <2> QED BY <1>2, <2>2
<1>11. CASE /\ ctl.lease = NoLease /\ ctl.beat = NotSet /\ 2 * j + d <= Cardinality(Settled)
            /\ dev.dead <= Cost(j, d, f) + 1 /\ (~clock.polled \/ Engaged)
  <2>1. CASE ~clock'.polled \/ Engaged'
    <3>1. 2 * j + d <= Cardinality(Settled')
      BY <1>6, <1>11
    <3>2. Spends(j, d, f)'
      BY <1>7, <1>11, <2>1, <3>1 DEF Spends, Cost
    <3> QED BY <1>2, <3>2
  <2>2. CASE ~(~clock'.polled \/ Engaged')
    <3>1. Cardinality(Settled) + 1 <= Cardinality(Settled')
      BY <1>6, <1>11, <2>2
    <3>2. 2 * j + (d + 1) <= Cardinality(Gone')
      BY <1>6, <1>11, <3>1
    <3>3. dev.dead <= Cost(j, d + 1, f)
      BY <1>11, Costs
    <3>4. Spends(j, d + 1, f)'
      BY <1>7, <1>11, <3>2, <3>3 DEF Spends, Cost
    <3>5. d + 1 \in Nat
      OBVIOUS
    <3> QED BY <1>2, <3>4, <3>5
  <2> QED BY <2>1, <2>2
<1> QED BY <1>5, <1>8, <1>9, <1>10, <1>11 DEF Spends

LEMMA MovesCount ==
  ASSUME NEW s \in Commands, NEW from, NEW to \in SUBSET (Label \ {"new", "admission"}),
         Moves(s, from, to),
         cmd[s].pc \in {"wait", "end", "done"} => cmd'[s].pc \in {"wait", "end", "done"},
         cmd[s].pc \in {"write", "write ctrl-x"} => cmd'[s].pc # "prepare"
  PROVE  /\ Gone \subseteq Gone' /\ Settled \subseteq Settled'
         /\ Engaged => Engaged' \/ Settled # Settled'
<1>1. /\ cmd'[s].pc \in {"prepare", "write", "write ctrl-x", "wait", "end", "done"}
      /\ \A t \in Commands : t # s => cmd'[t] = cmd[t]
  BY DEF Moves, Label
<1>2. Gone \subseteq Gone' /\ Settled \subseteq Settled'
  BY <1>1 DEF Gone, Settled
<1>3. ASSUME Engaged, ~Engaged' PROVE Settled # Settled'
  <2>1. PICK t \in Commands : cmd[t].pc \in {"admission", "prepare", "write", "write ctrl-x"}
    BY <1>3 DEF Engaged
  <2>2. t = s
    BY <1>1, <1>3, <2>1 DEF Engaged
  <2>3. s \in Settled' /\ s \notin Settled
    BY <1>1, <1>3, <2>1, <2>2 DEF Engaged, Settled
  <2> QED BY <2>3
<1> QED BY <1>2, <1>3

LEMMA StaysWaited ==
  ASSUME Waited, clock \in Clock, NEW s \in Commands, NEW from,
         NEW to \in SUBSET (Label \ {"new", "admission"}), Moves(s, from, to), Keeps,
         cmd[s].pc \in {"wait", "end", "done"} => cmd'[s].pc \in {"wait", "end", "done"},
         cmd[s].pc \in {"write", "write ctrl-x"} => cmd'[s].pc # "prepare",
         clock'.upsets \in Nat, clock'.upsets >= clock.upsets
  PROVE  Waited'
<1>1. /\ Gone \subseteq Gone' /\ Settled \subseteq Settled'
      /\ Engaged => Engaged' \/ Settled # Settled'
  BY MovesCount
<1> QED BY <1>1, WaitedStill DEF Moves, Keeps

\* What is known of the limits while the watchdog has something to wait for.
LEMMA WatchedTimes ==
  ASSUME IInv, Tied, Watched, dev.dead > Lag
  PROVE  /\ ctl.lease # NoLease => /\ ctl.lease.idle \in Nat /\ ctl.lease.limit \in Nat
                                   /\ dev.dead = Lag + 1 \/ ctl.lease.idle <= LongestLease
         /\ ctl.beat # NotSet => /\ ctl.beat \in Nat /\ ctl.beat \in Age
                                 /\ dev.dead = Lag + 1 \/ ctl.beat <= Timeout
<1>1. ctl.lease # NoLease => /\ ctl.lease.idle \in Nat /\ ctl.lease.limit \in Nat
                             /\ ctl.lease.limit <= LongestLease
  BY HolderType, AgeType DEF Tied, LeaseHeld, Lease
<1>2. ctl.beat # NotSet => ctl.beat \in Nat /\ ctl.beat \in Age
  BY AgeType DEF IInv, Owned, CommandsType
<1> DEFINE idle == ctl.lease.idle
           limit == ctl.lease.limit
<1>3. ctl.lease # NoLease => dev.dead = Lag + 1 \/ idle <= limit
  BY DEF Watched
<1>4. ctl.lease # NoLease => dev.dead = Lag + 1 \/ idle <= LongestLease
  <2> HIDE DEF idle, limit
  <2>1. ctl.lease # NoLease => idle \in Nat /\ limit \in Nat /\ limit <= LongestLease
    BY <1>1 DEF idle, limit
  <2> QED BY <1>3, <2>1, LongestType
<1> QED BY <1>1, <1>2, <1>4 DEF Watched

\* A silent line is prepared: what was spent on a heartbeat is at most its limit.
LEMMA BeginsWaited ==
  ASSUME IInv, Tied, Waited, clock \in Clock, NEW s \in Commands, NEW from,
         NEW to \in SUBSET (Label \ {"new", "admission"}), Moves(s, from, to), Begins(s),
         UNCHANGED clock
  PROVE  Waited'
<1> SUFFICES ASSUME Overdue' PROVE Watched' /\ \E j, d, f \in Nat : Spends(j, d, f)'
  BY DEF Waited
<1>1. Overdue /\ Watched /\ dev'.dead = dev.dead
  BY DEF Overdue, Moves, Waited
<1>2. /\ ctl.lease = NoLease /\ ctl'.lease # NoLease /\ ctl'.lease.idle = 0
      /\ 0 < ctl'.lease.limit /\ ctl'.lease.limit \in Nat /\ ctl'.beat = NotSet
  BY LongestType DEF Begins
<1>3. Watched'
  BY <1>2 DEF Watched
<1>4. PICK j \in Nat : \E d, f \in Nat : Spends(j, d, f)
  BY <1>1 DEF Waited
<1>5. PICK d \in Nat : \E f \in Nat : Spends(j, d, f)
  BY <1>4
<1>6. PICK f \in Nat : Spends(j, d, f)
  BY <1>5
<1>7. /\ Cardinality(Gone) \in Nat /\ Cardinality(Settled) \in Nat
      /\ Cardinality(Settled) <= Cardinality(Gone)
      /\ Cardinality(Gone') \in Nat /\ Cardinality(Gone) + 1 <= Cardinality(Gone')
  <2>1. Gone \subseteq Gone'
    <3>1. cmd[s].pc \in {"admission", "prepare"}
      BY DEF Begins
    <3> QED BY <3>1, MovesCount
  <2>2. s \notin Gone /\ s \in Gone'
    BY DEF Begins, Gone
  <2>3. Gone \in SUBSET Commands /\ Gone' \in SUBSET Commands
    BY DEF Gone
  <2> QED BY <2>1, <2>2, <2>3, SetSizes, Countings
<1>8. 2 * j + d <= Cardinality(Gone)
  BY <1>2, <1>6, <1>7 DEF Spends
<1>9. dev.dead <= Cost(j, d, f) + Timeout + 1
  <2>1. Cost(j, d, f) \in Nat /\ Lag <= Cost(j, d, f) /\ Timeout \in Nat /\ dev.dead \in Nat /\ Lag \in Nat
    BY Costs, CommandAssumption, DeadType, Bounds
  <2>2. CASE ctl.beat # NotSet
    <3>1. ctl.beat \in Nat /\ (dev.dead = Lag + 1 \/ ctl.beat <= Timeout)
      BY <1>1, <2>2, WatchedTimes DEF Overdue
    <3>2. dev.dead <= Cost(j, d, f) + 1 + ctl.beat
      BY <1>2, <1>6, <2>2 DEF Spends
    <3> QED BY <2>1, <3>1, <3>2
  <2>3. CASE ctl.beat = NotSet
    <3>1. dev.dead <= Cost(j, d, f) + 1
      BY <1>2, <1>6, <2>1, <2>3 DEF Spends
    <3> QED BY <2>1, <3>1
  <2> QED BY <2>2, <2>3
<1>10. Spends(j, d, f)'
  <2>1. 2 * j + d + 1 <= Cardinality(Gone')
    BY <1>7, <1>8
  <2>2. f < clock'.upsets
    BY <1>6 DEF Spends
  <2>3. Cost(j, d, f) \in Nat /\ Timeout \in Nat /\ dev.dead \in Nat
    BY Costs, CommandAssumption, DeadType
  <2>4. dev'.dead <= Cost(j, d, f) + Timeout + 1 + ctl'.lease.idle
    BY <1>1, <1>2, <1>9, <2>3
  <2> QED BY <1>2, <2>1, <2>2, <2>4 DEF Spends, Cost
<1> QED BY <1>3, <1>10

\* Soft Reset is admitted: its own command pays for the lease it ends.
LEMMA AdmitResetWaited ==
  ASSUME IInv, Tied, Departed, Waited, NEW s \in Commands, AdmitReset(s)
  PROVE  Waited'
<1>1. clock \in Clock /\ clock.upsets \in Nat
  BY SessionAssumption DEF Departed, Clock
<1>2. UNCHANGED <<rx, dev, clock>> /\ cmd[s].pc = "admission"
  BY AdmitResetCases
<1>3. CASE Moves(s, {"admission"}, {"done"}) /\ Stays(s)
  <2>1. cmd[s].pc = "admission" /\ {"done"} \in SUBSET (Label \ {"new", "admission"}) /\ Keeps
    BY <1>2, <1>3 DEF Label, Stays
  <2>2. clock'.upsets \in Nat /\ clock'.upsets >= clock.upsets
    BY <1>1, <1>2
  <2> QED BY <1>1, <1>3, <2>1, <2>2, StaysWaited
<1>4. CASE /\ ctl'.lease = NoLease /\ ctl'.beat = ctl.beat /\ ctl'.estop = ctl.estop
           /\ cmd'[s].pc = "write ctrl-x" /\ \A t \in Commands \ {s} : cmd'[t].pc = cmd[t].pc
  <2>1. Gone \subseteq Gone' /\ Settled \subseteq Settled' /\ Engaged'
    BY <1>2, <1>4 DEF Gone, Settled, Engaged
  <2>2. CASE ctl.lease = NoLease
    <3>1. /\ ctl'.lease = ctl.lease /\ dev'.dead = dev.dead /\ clock'.polled = clock.polled
          /\ clock'.checked = clock.checked /\ clock'.upsets \in Nat /\ clock'.upsets >= clock.upsets
      <4>1. UNCHANGED <<dev, clock>> /\ ctl'.lease = ctl.lease
        BY <1>2, <1>4, <2>2
      <4> QED BY <1>1, <4>1
    <3> QED BY <1>1, <1>4, <2>1, <3>1, WaitedStill
  <2>3. CASE ctl.lease # NoLease
    <3> SUFFICES ASSUME Overdue' PROVE Watched' /\ \E j, d, f \in Nat : Spends(j, d, f)'
      BY DEF Waited
    <3>1. Overdue /\ Watched
      BY <1>2, <1>4 DEF Overdue, Waited
    <3>2. ctl.beat = NotSet /\ ctl'.beat = NotSet /\ Watched'
      BY <1>4, <2>3 DEF Tied, LeaseHeld, Watched
    <3>3. PICK j \in Nat : \E d, f \in Nat : Spends(j, d, f)
      BY <3>1 DEF Waited
    <3>4. PICK d \in Nat : \E f \in Nat : Spends(j, d, f)
      BY <3>3
    <3>5. PICK f \in Nat : Spends(j, d, f)
      BY <3>4
    <3>6. /\ Cardinality(Gone) \in Nat /\ Cardinality(Gone') \in Nat
          /\ Cardinality(Gone) + 1 <= Cardinality(Gone')
      <4>1. s \notin Gone /\ s \in Gone' /\ Gone \in SUBSET Commands /\ Gone' \in SUBSET Commands
        BY <1>2, <1>4 DEF Gone
      <4> QED BY <2>1, <4>1, SetSizes
    <3>7. 2 * j + d + 1 <= Cardinality(Gone) /\ f < clock.upsets
          /\ dev.dead <= Cost(j, d, f) + Timeout + 1 + ctl.lease.idle
      BY <2>3, <3>5 DEF Spends
    <3>8. dev.dead <= Cost(j + 1, d, f)
      <4>1. /\ Cost(j, d, f) \in Nat /\ Lag <= Cost(j, d, f)
            /\ Cost(j + 1, d, f) = Cost(j, d, f) + Timeout + 1 + LongestLease
        BY Costs
      <4>2. /\ Timeout \in Nat /\ LongestLease \in Nat /\ Lag \in Nat /\ dev.dead \in Nat
        BY CommandAssumption, LongestType, Bounds, DeadType
      <4>3. ctl.lease.idle \in Nat /\ (dev.dead = Lag + 1 \/ ctl.lease.idle <= LongestLease)
        BY <2>3, <3>1, WatchedTimes DEF Overdue
      <4> DEFINE idle == ctl.lease.idle
      <4>4. idle \in Nat /\ (dev.dead = Lag + 1 \/ idle <= LongestLease)
            /\ dev.dead <= Cost(j, d, f) + Timeout + 1 + idle
        BY <3>7, <4>3
      <4> HIDE DEF idle
      <4> QED BY <4>1, <4>4, <4>2
    <3>9. Spends(j + 1, d, f)'
      <4>1. 2 * (j + 1) + d <= Cardinality(Gone')
        BY <3>6, <3>7
      <4> QED BY <1>2, <1>4, <3>2, <3>7, <3>8, <4>1 DEF Spends, Cost
    <3>10. j + 1 \in Nat
      OBVIOUS
    <3> QED BY <3>2, <3>9, <3>10
  <2> QED BY <2>2, <2>3
<1> QED BY <1>3, <1>4, AdmitResetCases

\* A silent line cannot be written: the heartbeat starts over, at the cost of an upset.
LEMMA WriteLineFailsWaited ==
  ASSUME IInv, Tied, Departed, Waited, NEW s \in Commands, WriteLineFails(s)
  PROVE  Waited'
<1>1. clock \in Clock /\ clock.upsets \in Nat
  BY SessionAssumption DEF Departed, Clock
<1>2. /\ Moves(s, {"write"}, {"end", "done"}) /\ Drops(s)
      /\ clock'.upsets = clock.upsets + 1 /\ cmd[s].pc = "write" /\ cmd'[s].pc \in {"end", "done"}
  BY <1>1, WriteLineFailsMoves DEF Tied, Moves
<1>3. CASE ctl'.lease = ctl.lease
  <2>1. Keeps /\ {"end", "done"} \in SUBSET (Label \ {"new", "admission"})
    BY <1>2, <1>3 DEF Label, Keeps, Drops
  <2>2. clock'.upsets \in Nat /\ clock'.upsets >= clock.upsets
    BY <1>1, <1>2
  <2> QED BY <1>1, <1>2, <2>1, <2>2, StaysWaited
<1>4. CASE ctl'.lease # ctl.lease
  <2> SUFFICES ASSUME Overdue' PROVE Watched' /\ \E j, d, f \in Nat : Spends(j, d, f)'
    BY DEF Waited
  <2>1. Overdue /\ dev'.dead = dev.dead
    BY <1>2 DEF Overdue, Moves
  <2>2. ctl.lease # NoLease /\ ctl'.lease = NoLease /\ ctl.lease.op.cmd = s
    BY <1>2, <1>4 DEF Drops
  <2>3. ctl.lease.idle = 0 /\ ctl'.beat = NotSet /\ Watched'
    BY <1>2, <2>2 DEF Drops, Tied, LeaseHeld, Watched
  <2>4. PICK j \in Nat : \E d, f \in Nat : Spends(j, d, f)
    BY <2>1 DEF Waited
  <2>5. PICK d \in Nat : \E f \in Nat : Spends(j, d, f)
    BY <2>4
  <2>6. PICK f \in Nat : Spends(j, d, f)
    BY <2>5
  <2>7. /\ 2 * j + d + 1 <= Cardinality(Gone) /\ f < clock.upsets
        /\ dev.dead <= Cost(j, d, f) + Timeout + 1 + ctl.lease.idle
    BY <2>2, <2>6 DEF Spends
  <2>8. /\ Cardinality(Gone) \in Nat /\ Cardinality(Gone') \in Nat
        /\ Cardinality(Gone) <= Cardinality(Gone')
    <3>1. Gone \subseteq Gone'
      BY <1>2, MovesCount DEF Label
    <3>2. Gone \in SUBSET Commands /\ Gone' \in SUBSET Commands
      BY DEF Gone
    <3> QED BY <3>1, <3>2, SetSizes
  <2>9. 2 * j + d <= Cardinality(Gone') /\ f + 1 < clock'.upsets
    BY <1>1, <1>2, <2>7, <2>8
  <2>10. dev.dead <= Cost(j, d, f + 1)
    BY <2>3, <2>7, Costs, CommandAssumption
  <2>11. Spends(j, d, f + 1)'
    BY <2>1, <2>2, <2>3, <2>9, <2>10 DEF Spends, Cost
  <2>12. f + 1 \in Nat
    OBVIOUS
  <2> QED BY <2>3, <2>11, <2>12
<1> QED BY <1>3, <1>4

\* A session that is over is not the owner, so it ends nobody's lease.
LEMMA TakesWaited ==
  ASSUME IInv, Tied, Departed, Waited, NEW s \in Commands, TakeOK(s) \/ TakeFailure(s)
  PROVE  Waited'
<1>1. /\ Moves(s, {"wait"}, {"prepare", "end"}) /\ Drops(s) /\ UNCHANGED clock
      /\ cmd[s].rxCh # <<>> \/ (cmd[s].canceled /\ cmd'[s].pc = "end")
  <2>1. CASE TakeOK(s)
    BY <2>1, TakeOKMoves DEF Tied
  <2>2. CASE TakeFailure(s)
    BY <2>2, TakeFailureMoves DEF Tied, Moves
  <2> QED BY <2>1, <2>2
<1>2. CASE ~Overdue
  BY <1>1, <1>2 DEF Waited, Overdue, Moves
<1>3. CASE Overdue
  <2>1. cmd[s].pc = "wait" /\ cmd[s].rxCh = <<>>
    BY <1>1, <1>3 DEF Overdue, Departed, Moves
  <2>2. cmd[s].canceled /\ cmd'[s].pc = "end"
    BY <1>1, <2>1
  <2>3. ctl.owner.cmd # s
    BY <2>2 DEF Tied, Ties
  <2>4. Keeps
    BY <1>1, <2>3, HolderType DEF Drops, Keeps
  <2>5. Moves(s, {"wait"}, {"end"})
    BY <1>1, <2>2 DEF Moves
  <2>6. clock \in Clock /\ clock'.upsets \in Nat /\ clock'.upsets >= clock.upsets
    BY <1>1, SessionAssumption DEF Departed, Clock
  <2>7. {"end"} \in SUBSET (Label \ {"new", "admission"})
    BY DEF Label
  <2> QED BY <2>1, <2>2, <2>4, <2>5, <2>6, <2>7, StaysWaited
<1> QED BY <1>2, <1>3

LEMMA CommandWaited ==
  ASSUME IInv, Tied, Departed, Waited, NEW s \in Commands, Issue(s) \/ Command(s)
  PROVE  Waited'
<1>1. /\ clock \in Clock /\ clock.upsets \in Nat
      /\ UNCHANGED clock => clock'.upsets \in Nat /\ clock'.upsets >= clock.upsets
  BY SessionAssumption DEF Departed, Clock
<1>2. CASE Issue(s)
  <2>1. /\ SameTies(ctl, ctl') /\ UNCHANGED <<rx, dev, clock>> /\ cmd[s].pc = "new"
        /\ cmd'[s].pc = "admission" /\ \A t \in Commands : t # s => cmd'[t] = cmd[t]
    BY <1>2, IssueCases
  <2>2. Gone \subseteq Gone' /\ Settled \subseteq Settled' /\ Engaged'
    BY <2>1 DEF Gone, Settled, Engaged
  <2> QED BY <1>1, <2>1, <2>2, WaitedStill DEF SameTies
<1>3. CASE Admit(s)
  <2>1. Moves(s, {"admission"}, {"prepare", "write", "done"}) /\ UNCHANGED clock /\ (Keeps \/ Begins(s))
    BY <1>3, AdmitMoves DEF Stays
  <2>2. cmd[s].pc = "admission" /\ {"prepare", "write", "done"} \in SUBSET (Label \ {"new", "admission"})
    BY <2>1 DEF Moves, Label
  <2> QED BY <1>1, <2>1, <2>2, StaysWaited, BeginsWaited
<1>4. CASE PrepareLine(s)
  <2>1. Moves(s, {"prepare"}, {"write", "end"}) /\ UNCHANGED clock /\ (Keeps \/ Begins(s))
    BY <1>4, PrepareLineMoves DEF Stays
  <2>2. cmd[s].pc = "prepare" /\ {"write", "end"} \in SUBSET (Label \ {"new", "admission"})
    BY <2>1 DEF Moves, Label
  <2> QED BY <1>1, <2>1, <2>2, StaysWaited, BeginsWaited
<1>5. CASE WriteLine(s)
  <2>1. Moves(s, {"write"}, {"wait", "done"}) /\ UNCHANGED clock /\ Keeps
    BY <1>5, WriteLineMoves DEF Stays
  <2>2. /\ cmd[s].pc = "write" /\ cmd'[s].pc \in {"wait", "done"}
        /\ {"wait", "done"} \in SUBSET (Label \ {"new", "admission"})
    BY <2>1 DEF Moves, Label
  <2> QED BY <1>1, <2>1, <2>2, StaysWaited
<1>6. CASE EndSession(s)
  <2>1. Moves(s, {"end"}, {"done"}) /\ UNCHANGED clock /\ Keeps
    BY <1>6, EndSessionMoves DEF Stays, Tied
  <2>2. /\ cmd[s].pc = "end" /\ cmd'[s].pc = "done" /\ {"done"} \in SUBSET (Label \ {"new", "admission"})
    BY <2>1 DEF Moves, Label
  <2> QED BY <1>1, <2>1, <2>2, StaysWaited
<1>7. CASE WriteReset(s)
  <2>1. /\ cmd[s].pc = "write ctrl-x" /\ cmd'[s].pc = "done" /\ SameTies(ctl, ctl')
        /\ \A t \in Commands : t # s => cmd'[t] = cmd[t]
        /\ dev'.dead = dev.dead /\ (CountUpset \/ UNCHANGED clock)
    BY <1>7, WriteResetCases
  <2>2. /\ Gone \subseteq Gone' /\ Settled \subseteq Settled' /\ Settled # Settled'
    BY <2>1 DEF Gone, Settled
  <2>3. /\ clock'.polled = clock.polled /\ clock'.checked = clock.checked
        /\ clock'.upsets \in Nat /\ clock'.upsets >= clock.upsets
    <3>1. CASE CountUpset
      BY <1>1, <3>1, CountedUpset
    <3>2. CASE UNCHANGED clock
      BY <1>1, <3>2
    <3> QED BY <2>1, <3>1, <3>2
  <2> QED BY <1>1, <2>1, <2>2, <2>3, WaitedStill DEF SameTies
<1> QED BY <1>2, <1>3, <1>4, <1>5, <1>6, <1>7, WriteLineFailsWaited, TakesWaited, AdmitResetWaited
       DEF Command

\* A poll is refused for a lease or for a command that will begin to wait for it.
LEMMA PollRefusedWaited ==
  ASSUME IInv, Tied, Departed, Waited, PollRefused
  PROVE  Waited'
<1> SUFFICES ASSUME Overdue' PROVE Watched' /\ \E j, d, f \in Nat : Spends(j, d, f)'
  BY DEF Waited
<1>1. /\ UNCHANGED <<ctl, cmd, dev>> /\ ~clock.polled /\ ~AdmitsPoll(ctl)
      /\ clock'.checked = clock.checked /\ clock'.upsets = clock.upsets
  BY DEF PollRefused, Departed, Clock
<1>2. Overdue /\ Watched /\ Watched'
  BY <1>1 DEF Overdue, Waited, Watched
<1>3. PICK j \in Nat : \E d, f \in Nat : Spends(j, d, f)
  BY <1>2 DEF Waited
<1>4. PICK d \in Nat : \E f \in Nat : Spends(j, d, f)
  BY <1>3
<1>5. PICK f \in Nat : Spends(j, d, f)
  BY <1>4
<1>6. Gone' = Gone /\ Settled' = Settled /\ (Engaged => Engaged')
  BY <1>1 DEF Gone, Settled, Engaged
<1>7. ctl.lease = NoLease => Engaged
  <2>1. CASE ctl.waiters # {} /\ ctl.lease = NoLease
    <3>1. PICK s \in ctl.waiters : TRUE
      BY <2>1
    <3>2. s \in Commands
      BY <3>1 DEF IInv, Owned, CommandsType
    <3> QED BY <3>1, <3>2 DEF Tied, Ties, Engaged
  <2>2. CASE ctl.write # "none"
    <3>1. ctl.write = "reset"
      BY <1>1, <2>2 DEF IInv, Owned, CommandsType, Tied, Ties
    <3> QED BY <3>1 DEF Tied, Ties, Engaged
  <2> QED BY <1>1, <2>1, <2>2 DEF AdmitsPoll
<1>8. Spends(j, d, f)'
  BY <1>1, <1>5, <1>6, <1>7 DEF Spends, Cost
<1> QED BY <1>2, <1>8

\* A poll begins the heartbeat, if none is outstanding.
LEMMA PollAdmittedWaited ==
  ASSUME IInv, Tied, Departed, Waited, PollAdmitted
  PROVE  Waited'
<1> SUFFICES ASSUME Overdue' PROVE Watched' /\ \E j, d, f \in Nat : Spends(j, d, f)'
  BY DEF Waited
<1>1. /\ UNCHANGED <<cmd, dev>> /\ ctl' = BeginPoll(ctl) /\ ctl.lease = NoLease
      /\ clock'.checked = clock.checked /\ clock'.upsets = clock.upsets /\ Owned(ctl)
  BY DEF PollAdmitted, AdmitsPoll, Departed, Clock, IInv
<1>2. /\ ctl'.estop = ctl.estop /\ ctl'.lease = NoLease
      /\ ctl'.beat = IF ctl.beat = NotSet THEN 0 ELSE ctl.beat
  BY <1>1, PollTies
<1>3. Overdue /\ Watched /\ Timeout \in Nat /\ 0 < Timeout /\ 0 # NotSet
  BY <1>1, <1>2, CommandAssumption DEF Overdue, Waited, NotSet
<1>4. Watched'
  BY <1>1, <1>2, <1>3 DEF Watched
<1>5. PICK j \in Nat : \E d, f \in Nat : Spends(j, d, f)
  BY <1>3 DEF Waited
<1>6. PICK d \in Nat : \E f \in Nat : Spends(j, d, f)
  BY <1>5
<1>7. PICK f \in Nat : Spends(j, d, f)
  BY <1>6
<1>8. /\ Gone' = Gone /\ Cardinality(Gone) \in Nat /\ Cardinality(Settled) \in Nat
      /\ Cardinality(Settled) <= Cardinality(Gone)
  BY <1>1, Countings DEF Gone
<1>9. Cost(j, d, f) \in Nat /\ dev.dead \in Nat
  BY Costs, DeadType
<1>11. CASE ctl.beat = NotSet
  <2>1. /\ f < clock.upsets /\ 2 * j + d <= Cardinality(Gone)
        /\ dev.dead <= Cost(j, d, f) + 1
    BY <1>1, <1>7, <1>8, <1>9, <1>11 DEF Spends
  <2>2. dev'.dead <= Cost(j, d, f) + 1 + ctl'.beat
    BY <1>1, <1>2, <1>9, <1>11, <2>1
  <2>3. Spends(j, d, f)'
    BY <1>1, <1>2, <1>3, <1>8, <1>11, <2>1, <2>2 DEF Spends, Cost
  <2> QED BY <1>4, <2>3
<1>10. CASE ctl.beat # NotSet
  <2>1. Spends(j, d, f)'
    BY <1>1, <1>2, <1>7, <1>8, <1>10 DEF Spends, Cost
  <2> QED BY <1>4, <2>1
<1> QED BY <1>11, <1>10

LEMMA CheckWaited ==
  ASSUME IInv, Tied, Departed, Waited, CheckWatchdog
  PROVE  Waited'
<1> SUFFICES ASSUME Overdue' PROVE Watched' /\ \E j, d, f \in Nat : Spends(j, d, f)'
  BY DEF Waited
<1>1. /\ UNCHANGED dev /\ ~clock.checked
      /\ clock'.polled = clock.polled /\ clock'.upsets = clock.upsets
  BY DEF CheckWatchdog, Departed, Clock
<1>2. ~Unresponsive(ctl)
  <2>1. CASE Unresponsive(ctl)
    <3>1. ctl' = EnterEStop(ctl) /\ ctl.estop # "active" /\ Owned(ctl)
      BY <2>1 DEF CheckWatchdog, Unresponsive, IInv
    <3>2. ctl'.estop = "active"
      BY <3>1, StopTies
    <3> QED BY <3>2 DEF Overdue
  <2> QED BY <2>1
<1>3. UNCHANGED <<ctl, cmd>>
  BY <1>2 DEF CheckWatchdog
<1>4. Overdue
  BY <1>1, <1>3 DEF Overdue
<1>5. Watched'
  <2>1. ctl.lease # NoLease => ctl.lease.idle < ctl.lease.limit
    <3> DEFINE idle == ctl.lease.idle
               limit == ctl.lease.limit
    <3>1. ctl.lease # NoLease => ~(idle >= limit)
      BY <1>2, <1>4 DEF Unresponsive, Overdue
    <3>2. ctl.lease # NoLease => idle \in Nat /\ limit \in Nat
      BY HolderType, AgeType DEF Lease
    <3> HIDE DEF idle, limit
    <3>3. ctl.lease # NoLease => idle < limit
      BY <3>1, <3>2
    <3> QED BY <3>3 DEF idle, limit
  <2>2. ctl.beat # NotSet => ctl.beat \in Nat
    BY AgeType DEF IInv, Owned, CommandsType
  <2>3. CASE ctl.lease = NoLease
    <3>1. ctl.beat # NotSet => ~(ctl.beat >= Timeout)
      BY <1>2, <1>4, <2>3 DEF Unresponsive, Overdue
    <3>2. ctl.beat # NotSet => ctl.beat <= Timeout /\ ctl.beat < Timeout
      BY <2>2, <3>1, CommandAssumption
    <3> QED BY <1>3, <2>3, <3>2 DEF Watched
  <2>4. CASE ctl.lease # NoLease
    <3>1. ctl.beat = NotSet
      BY <2>4 DEF Tied, LeaseHeld
    <3>2. ctl.lease.idle <= ctl.lease.limit
      <4> DEFINE idle == ctl.lease.idle
                 limit == ctl.lease.limit
      <4>1. idle \in Nat /\ limit \in Nat /\ idle < limit
        BY <2>1, <2>4, HolderType, AgeType DEF Lease
      <4> HIDE DEF idle, limit
      <4>2. idle <= limit
        BY <4>1
      <4> QED BY <4>2 DEF idle, limit
    <3> QED BY <1>3, <2>1, <2>4, <3>1, <3>2 DEF Watched
  <2> QED BY <2>3, <2>4
<1>6. PICK j \in Nat : \E d, f \in Nat : Spends(j, d, f)
  BY <1>4 DEF Waited
<1>7. PICK d \in Nat : \E f \in Nat : Spends(j, d, f)
  BY <1>6
<1>8. PICK f \in Nat : Spends(j, d, f)
  BY <1>7
<1>9. Gone' = Gone /\ Settled' = Settled /\ Engaged' = Engaged
  BY <1>3 DEF Gone, Settled, Engaged
<1>10. Spends(j, d, f)'
  BY <1>1, <1>3, <1>8, <1>9 DEF Spends, Cost
<1> QED BY <1>5, <1>10

\* As many commands as there are pay for at most one lease in two, rounded up.
LEMMA Paid ==
  ASSUME NEW a \in Nat, NEW x \in Nat, NEW e \in {0, 1}, NEW c \in Nat, c >= 2,
         2 * a + x <= MaxCommands + e
  PROVE  LET p == (MaxCommands + 1) \div 2 IN p \in Nat /\ a * c + x <= p * c + e
<1> DEFINE p == (MaxCommands + 1) \div 2
<1>1. p \in Nat /\ MaxCommands <= 2 * p
  BY CommandAssumption
<1> HIDE DEF p
<1>2. a <= p /\ p - a \in Nat /\ x <= 2 * (p - a) + e
  BY <1>1, CommandAssumption
<1>3. PICK b \in Nat : b = p - a
  BY <1>2
<1>4. PICK m \in Nat : m = c - 2
  BY SMT
<1>5. b * m \in Nat
  BY <1>3, <1>4
<1>6. b * c = b * m + 2 * b
  BY <1>3, <1>4
<1>7. p * c = a * c + b * c
  BY <1>1, <1>3
<1>8. a * c \in Nat
  BY SMT
<1>9. x <= 2 * b + e
  BY <1>2, <1>3
<1> DEFINE ac == a * c
           bc == b * c
           bm == b * m
           pc == p * c
<1>10. /\ ac \in Nat /\ bm \in Nat /\ bc = bm + 2 * b /\ pc = ac + bc
  BY <1>5, <1>6, <1>7, <1>8
<1> HIDE DEF ac, bc, bm, pc
<1>11. ac + x <= pc + e
  BY <1>3, <1>9, <1>10
<1>12. a * c + x <= p * c + e
  BY <1>11 DEF ac, pc
<1> QED BY <1>1, <1>12 DEF p

LEMMA NoticedBound ==
  ASSUME NEW a \in Nat, NEW x \in Nat, NEW f \in Nat, NEW e \in {0, 1},
         2 * a + x <= MaxCommands + e, f < MaxUpsets
  PROVE  Noticed \in Nat /\ Cost(a, x, f) + Timeout + 1 <= Noticed + e
<1> DEFINE each == Timeout + 1 + LongestLease
           beat == Timeout + 1
           p == (MaxCommands + 1) \div 2
           silent == a * each
           most == p * each
           failed == f * beat
           upset == MaxUpsets * beat
<1>1. Timeout \in Nat /\ each \in Nat /\ each >= 2 /\ beat \in Nat /\ Lag \in Nat
  BY CommandAssumption, LongestType, Bounds
<1>2. p \in Nat /\ silent + x <= most + e
  <2> HIDE DEF each
  <2> QED BY <1>1, Paid DEF p, silent, most
<1>3. failed \in Nat /\ upset \in Nat /\ failed + beat <= upset
  <2> HIDE DEF beat
  <2>1. MaxUpsets \in Nat /\ \E n \in Nat : MaxUpsets = f + 1 + n
    <3>1. MaxUpsets - f - 1 \in Nat /\ MaxUpsets = f + 1 + (MaxUpsets - f - 1)
      BY SessionAssumption
    <3> QED BY <3>1, SessionAssumption
  <2>2. PICK n \in Nat : MaxUpsets = f + 1 + n
    BY <2>1
  <2>3. n * beat \in Nat /\ f * beat \in Nat /\ MaxUpsets * beat = f * beat + beat + n * beat
    BY <1>1, <2>2
  <2> QED BY <1>1, <2>3 DEF failed, upset
<1>4. silent \in Nat /\ most \in Nat
  <2> HIDE DEF each, p
  <2> QED BY <1>1, <1>2 DEF silent, most
<1>5. Noticed = Lag + upset + most /\ Cost(a, x, f) = Lag + silent + x + failed
  BY DEF Noticed, Cost, upset, most, silent, failed, each, beat, p
<1>6. beat = Timeout + 1
  OBVIOUS
<1> HIDE DEF each, beat, p, silent, most, failed, upset
<1> QED BY <1>1, <1>2, <1>3, <1>4, <1>5, <1>6

\* What was spent is bounded by what there is to spend.
LEMMA WaitedNoticed ==
  ASSUME IInv, Tied, Departed, Waited
  PROVE  DeadNoticedInTime /\ (dev.dead > Noticed => ctl.estop = "active")
<1> SUFFICES ASSUME dev.dead > Noticed, ctl.estop # "active" PROVE FALSE
  BY DEF DeadNoticedInTime
<1>1. Lag \in Nat /\ dev.dead \in Nat /\ Timeout \in Nat /\ LongestLease \in Nat
  BY Bounds, DeadType, CommandAssumption, LongestType
<1>2. Noticed \in Nat /\ Lag <= Noticed
  BY NoticedType
<1>3. dev.dead > Lag /\ Overdue
  BY <1>1, <1>2 DEF Overdue
<1>4. Watched /\ clock.upsets <= MaxUpsets /\ clock.upsets \in Nat
  BY <1>3, NothingLeft, SessionAssumption DEF Waited
<1>5. PICK j \in Nat : \E d, f \in Nat : Spends(j, d, f)
  BY <1>3 DEF Waited
<1>6. PICK d \in Nat : \E f \in Nat : Spends(j, d, f)
  BY <1>5
<1>7. PICK f \in Nat : Spends(j, d, f)
  BY <1>6
<1>8. f < MaxUpsets
  BY <1>4, <1>7, SessionAssumption DEF Spends
<1>9. /\ Cardinality(Gone) \in Nat /\ Cardinality(Gone) <= MaxCommands
      /\ Cardinality(Settled) \in Nat /\ Cardinality(Settled) <= Cardinality(Gone)
  BY Countings
<1>10. /\ Cost(j, d, f) \in Nat /\ Lag <= Cost(j, d, f)
       /\ Cost(j + 1, d, f) = Cost(j, d, f) + Timeout + 1 + LongestLease
  BY Costs
<1>11. CASE /\ ctl.lease # NoLease /\ 2 * j + d + 1 <= Cardinality(Gone)
            /\ dev.dead <= Cost(j, d, f) + Timeout + 1 + ctl.lease.idle
  <2> DEFINE idle == ctl.lease.idle
  <2>1. /\ idle \in Nat /\ (dev.dead = Lag + 1 \/ idle <= LongestLease)
        /\ dev.dead <= Cost(j, d, f) + Timeout + 1 + idle
    BY <1>3, <1>4, <1>11, WatchedTimes
  <2> HIDE DEF idle
  <2>2. dev.dead <= Cost(j + 1, d, f)
    BY <1>1, <1>10, <2>1
  <2>3. 2 * (j + 1) + d <= MaxCommands + 1 /\ j + 1 \in Nat /\ 1 \in {0, 1}
    BY <1>9, <1>11, CommandAssumption
  <2>4. Cost(j + 1, d, f) + Timeout + 1 <= Noticed + 1
    BY <1>8, <2>3, NoticedBound
  <2>5. Cost(j + 1, d, f) \in Nat /\ Timeout >= 1
    BY <1>1, <1>10, CommandAssumption
  <2> QED BY <1>1, <1>2, <2>2, <2>4, <2>5
<1>12. ASSUME 2 * j + d <= Cardinality(Gone)
       PROVE  Cost(j, d, f) + Timeout + 1 <= Noticed
  <2>1. 2 * j + d <= MaxCommands + 0 /\ 0 \in {0, 1}
    BY <1>9, <1>12, CommandAssumption
  <2>2. Cost(j, d, f) + Timeout + 1 <= Noticed + 0
    BY <1>8, <2>1, NoticedBound
  <2> QED BY <1>2, <2>2
<1>13. CASE /\ ctl.lease = NoLease /\ ctl.beat # NotSet /\ 2 * j + d <= Cardinality(Gone)
            /\ dev.dead <= Cost(j, d, f) + 1 + ctl.beat
  <2>1. ctl.beat \in Nat /\ (dev.dead = Lag + 1 \/ ctl.beat <= Timeout)
    BY <1>3, <1>4, <1>13, WatchedTimes
  <2>2. dev.dead <= Cost(j, d, f) + Timeout + 1
    BY <1>1, <1>10, <1>13, <2>1
  <2> QED BY <1>1, <1>2, <1>10, <1>12, <1>13, <2>2
<1>14. CASE /\ 2 * j + d <= Cardinality(Gone) /\ dev.dead <= Cost(j, d, f)
  BY <1>1, <1>2, <1>10, <1>12, <1>14
<1>15. CASE /\ 2 * j + d <= Cardinality(Settled) /\ dev.dead <= Cost(j, d, f) + 1
  <2>1. 2 * j + d <= Cardinality(Gone)
    BY <1>9, <1>15
  <2> QED BY <1>1, <1>2, <1>10, <1>12, <1>15, <2>1
<1> QED BY <1>7, <1>11, <1>13, <1>14, <1>15 DEF Spends

\* What the poll, the watchdog and the bridge do while the machine is silent.
LEMMA MonitorWaited ==
  ASSUME IInv, Tied, Departed, Waited, Monitor
  PROVE  Waited'
<1>1. CASE WritePoll
  <2>1. /\ ctl' = [ctl EXCEPT !.write = "none"] /\ UNCHANGED cmd
        /\ (UNCHANGED clock \/ CountUpset) /\ Owned(ctl)
    BY <1>1 DEF WritePoll, IInv
  <2>2. ctl'.lease = ctl.lease /\ ctl'.beat = ctl.beat /\ ctl'.estop = ctl.estop
    BY <2>1, TieSteps DEF SameTies
  <2>3. dev'.dead = dev.dead
    <3>1. dev \in MachineType
      BY DEF IInv, Held, DevInv
    <3> QED BY <1>1, <3>1 DEF WritePoll, MachineType
  <2>4. /\ clock'.polled = clock.polled /\ clock'.checked = clock.checked
        /\ clock'.upsets \in Nat /\ clock'.upsets >= clock.upsets /\ clock \in Clock
    <3>1. clock \in Clock /\ clock.upsets \in Nat
      BY SessionAssumption DEF Departed, Clock
    <3>2. CASE CountUpset
      BY <3>1, <3>2, CountedUpset
    <3>3. CASE UNCHANGED clock
      BY <3>1, <3>3
    <3> QED BY <2>1, <3>2, <3>3, <3>1
  <2>5. Gone' = Gone /\ Settled' = Settled /\ Engaged' = Engaged
    BY <2>1 DEF Gone, Settled, Engaged
  <2> QED BY <2>2, <2>3, <2>4, <2>5, WaitedStill
<1> QED BY <1>1, PollRefusedWaited, PollAdmittedWaited, CheckWaited DEF Monitor

\* Past Lag the bridge has nothing to read and the machine nothing to say.
LEMMA SilentWaited ==
  ASSUME IInv, Departed, Bridge \/ Machine \/ Dies \/ RaisesAlarm50
  PROVE  Waited'
<1>1. dev \in MachineType /\ dev.dead \in Nat /\ Lag \in Nat
  BY DeadType, Bounds DEF IInv, Held, DevInv
<1>2. dev'.dead = dev.dead
  <2>1. CASE Bridge
    BY <2>1 DEF Bridge
  <2>2. CASE Dies
    BY <1>1, <2>2 DEF Dies, MachineType
  <2> QED BY <2>1, <2>2, MachineLives
<1>3. dev.alive \/ rx # <<>>
  BY DEF Bridge, Machine, Takes, Homed, Adjusts, Reports, Dies, RaisesAlarm50, Serving
<1>4. ~(dev.dead > Lag)
  BY <1>3, NothingLeft
<1> QED BY <1>2, <1>4 DEF Waited, Overdue

\* A tick: every limit is one tick nearer, and a poll is due again.
LEMMA TickWaited ==
  ASSUME IInv, Tied, Departed, Waited, Tick
  PROVE  Waited'
<1> SUFFICES ASSUME Overdue' PROVE Watched' /\ \E j, d, f \in Nat : Spends(j, d, f)'
  BY DEF Waited
<1>1. /\ ctl' = Ages(ctl) /\ UNCHANGED cmd /\ Owned(ctl) /\ clock \in Clock
      /\ clock.polled /\ clock.checked
      /\ \A s \in Commands : cmd[s].pc \in {"new", "done", "wait"}
  BY DEF Tick, Timely, IInv, Departed
<1>2. ~clock'.polled /\ ~clock'.checked /\ clock'.upsets = clock.upsets
  BY <1>1 DEF Tick, Clock
<1>3. /\ ctl'.estop = ctl.estop
      /\ ctl'.beat = IF ctl.beat = NotSet THEN NotSet ELSE Older(ctl.beat)
      /\ IF ctl.lease = NoLease THEN ctl'.lease = NoLease
         ELSE /\ ctl'.lease # NoLease /\ ctl'.lease.limit = ctl.lease.limit
              /\ ctl'.lease.idle = Older(ctl.lease.idle)
  BY <1>1, AgesTies
<1>4. ctl.estop # "active" /\ dev'.dead > Lag /\ dev.dead <= Noticed
  <2>1. ctl.estop # "active" /\ dev'.dead > Lag
    BY <1>3 DEF Overdue
  <2>2. ~(dev.dead > Noticed)
    BY <2>1, WaitedNoticed
  <2>3. Noticed \in Nat /\ dev.dead \in Nat
    BY NoticedType, DeadType
  <2> QED BY <2>1, <2>2, <2>3
<1>5. dev.dead \in Nat /\ Lag \in Nat /\ Timeout \in Nat /\ clock.upsets \in Nat
  BY DeadType, Bounds, CommandAssumption, SessionAssumption, <1>1 DEF Clock
<1>6. ~dev.alive /\ dev'.dead = dev.dead + 1
  <2>1. dev \in MachineType
    BY DEF IInv, Held, DevInv
  <2>2. CASE dev.alive
    <3>1. dev'.dead = dev.dead
      BY <2>1, <2>2 DEF Tick, MachineType
    <3> QED BY <1>4, <1>5, <2>2, <3>1 DEF Departed
  <2>3. CASE ~dev.alive
    <3>1. ~(dev.dead > Noticed)
      BY <1>4, WaitedNoticed, <1>5, NoticedType
    <3>2. dev' = [dev EXCEPT !.dead = IF @ > Noticed THEN @ ELSE @ + 1]
      BY <2>3 DEF Tick
    <3> QED BY <2>1, <2>3, <3>1, <3>2 DEF MachineType
  <2> QED BY <2>2, <2>3
<1>7. clock.upsets >= 1
  BY <1>6 DEF Departed
<1>8. Gone' = Gone /\ Settled' = Settled /\ Settled = Gone /\ ~Engaged
  BY <1>1 DEF Gone, Settled, Engaged
<1>9. Cardinality(Gone) \in Nat
  BY Countings
<1>10. ctl.lease # NoLease => /\ ctl.lease.idle \in Age /\ ctl.lease.limit \in Age
                              /\ Cardinality(Gone) >= 1
  <2>1. SUFFICES ASSUME ctl.lease # NoLease
        PROVE  ctl.lease.idle \in Age /\ ctl.lease.limit \in Age /\ Cardinality(Gone) >= 1
    OBVIOUS
  <2>2. ctl.lease.idle \in Age /\ ctl.lease.limit \in Age
    BY <2>1, HolderType DEF Lease
  <2>3. ctl.lease.op.cmd \in Gone
    BY <2>1, HolderType DEF Tied, LeaseHeld, Gone
  <2>4. Gone \in SUBSET Commands /\ {} \in SUBSET Commands /\ {} \subseteq Gone /\ {} # Gone
    BY <2>3 DEF Gone
  <2>5. Cardinality({}) \in Nat /\ Cardinality({}) + 1 <= Cardinality(Gone)
    BY <2>4, SetSizes
  <2> QED BY <1>9, <2>2, <2>5
<1>11. ctl.beat # NotSet => ctl.beat \in Age
  BY DEF IInv, Owned, CommandsType
<1>12. /\ ctl'.lease # NoLease => ctl'.lease.idle \in Nat
       /\ ctl'.beat # NotSet => ctl'.beat \in Nat
  <2>1. ctl'.lease # NoLease => ctl'.lease.idle \in Nat
    BY <1>3, <1>10, OlderType, AgeType
  <2>2. ctl'.beat # NotSet => ctl'.beat \in Nat
    BY <1>3, <1>11, OlderType, AgeType
  <2> QED BY <2>1, <2>2
<1>13. CASE dev.dead = Lag
  <2>1. Watched'
    BY <1>2, <1>6, <1>13 DEF Watched
  <2>2. Cost(0, 0, 0) \in Nat /\ Lag <= Cost(0, 0, 0) /\ 0 \in Nat
    BY Costs
  <2>3. 0 < clock'.upsets
    BY <1>2, <1>5, <1>7
  <2>4. dev'.dead = Lag + 1 /\ dev'.dead <= Cost(0, 0, 0) + 1
    BY <1>5, <1>6, <1>13, <2>2
  <2>5. CASE ctl'.lease # NoLease
    <3>1. 2 * 0 + 0 + 1 <= Cardinality(Gone')
      BY <1>3, <1>8, <1>9, <1>10, <2>5
    <3> DEFINE idle == ctl'.lease.idle
    <3>2. idle \in Nat
      BY <1>12, <2>5
    <3> HIDE DEF idle
    <3>3. dev'.dead <= Cost(0, 0, 0) + Timeout + 1 + idle
      BY <1>5, <2>2, <2>4, <3>2
    <3>4. Spends(0, 0, 0)'
      BY <2>3, <2>5, <3>1, <3>3 DEF Spends, Cost, idle
    <3> QED BY <2>1, <2>2, <3>4
  <2>6. CASE ctl'.lease = NoLease /\ ctl'.beat # NotSet
    <3>1. 2 * 0 + 0 <= Cardinality(Gone')
      BY <1>8, <1>9
    <3>2. ctl'.beat \in Nat
      BY <1>12, <2>6
    <3>3. dev'.dead <= Cost(0, 0, 0) + 1 + ctl'.beat
      BY <1>5, <2>2, <2>4, <3>2
    <3>4. Spends(0, 0, 0)'
      BY <2>3, <2>6, <3>1, <3>3 DEF Spends, Cost
    <3> QED BY <2>1, <2>2, <3>4
  <2>7. CASE ctl'.lease = NoLease /\ ctl'.beat = NotSet
    <3>1. 2 * 0 + 0 <= Cardinality(Settled')
      BY <1>8, <1>9
    <3>2. Spends(0, 0, 0)'
      BY <1>2, <2>3, <2>4, <2>7, <3>1 DEF Spends, Cost
    <3> QED BY <2>1, <2>2, <3>2
  <2> QED BY <2>5, <2>6, <2>7
<1>14. CASE dev.dead # Lag
  <2>1. dev.dead > Lag /\ Overdue
    BY <1>4, <1>5, <1>6, <1>14 DEF Overdue
  <2>2. /\ ctl.lease # NoLease => ctl.lease.idle < ctl.lease.limit
        /\ ctl.beat # NotSet => ctl.beat < Timeout
    BY <1>1, <2>1 DEF Waited, Watched
  <2>3. ctl.lease # NoLease => /\ ctl'.lease.idle = ctl.lease.idle + 1
                               /\ ctl'.lease.idle <= ctl'.lease.limit
    <3> DEFINE idle == ctl.lease.idle
               limit == ctl.lease.limit
    <3>1. SUFFICES ASSUME ctl.lease # NoLease
          PROVE  ctl'.lease.idle = idle + 1 /\ ctl'.lease.idle <= ctl'.lease.limit
      OBVIOUS
    <3>2. idle \in Age /\ limit \in Age /\ idle < limit
      BY <1>10, <2>2, <3>1
    <3>3. ctl'.lease.idle = Older(idle) /\ ctl'.lease.limit = limit
      BY <1>3, <3>1
    <3> HIDE DEF idle, limit
    <3>4. Older(idle) = idle + 1 /\ idle + 1 <= limit
      BY <3>2, AgeType DEF Older, Age
    <3> QED BY <3>3, <3>4
  <2>4. ctl.beat # NotSet => ctl'.beat = ctl.beat + 1 /\ ctl'.beat <= Timeout
    <3>1. Timeout < MaxAge
      BY CommandAssumption DEF MaxAge
    <3> QED BY <1>3, <1>5, <1>11, <2>2, <3>1, AgeType DEF Older, Age
  <2>5. ctl'.beat # NotSet <=> ctl.beat # NotSet
    BY <1>3, <1>11, OlderType, AgeType
  <2>6. Watched'
    BY <1>2, <1>3, <2>3, <2>4, <2>5 DEF Watched
  <2>7. PICK j \in Nat : \E d, f \in Nat : Spends(j, d, f)
    BY <2>1 DEF Waited
  <2>8. PICK d \in Nat : \E f \in Nat : Spends(j, d, f)
    BY <2>7
  <2>9. PICK f \in Nat : Spends(j, d, f)
    BY <2>8
  <2>10. f < clock'.upsets /\ Cost(j, d, f) \in Nat
    BY <1>2, <2>9, Costs DEF Spends
  <2>11. CASE /\ ctl.lease # NoLease /\ 2 * j + d + 1 <= Cardinality(Gone)
              /\ dev.dead <= Cost(j, d, f) + Timeout + 1 + ctl.lease.idle
    <3> DEFINE idle == ctl.lease.idle
    <3>1. idle \in Nat /\ ctl'.lease.idle = idle + 1 /\ dev.dead <= Cost(j, d, f) + Timeout + 1 + idle
      BY <1>10, <2>3, <2>11, AgeType
    <3> HIDE DEF idle
    <3>2. dev'.dead <= Cost(j, d, f) + Timeout + 1 + (idle + 1)
      BY <1>5, <1>6, <2>10, <3>1
    <3>3. dev'.dead <= Cost(j, d, f) + Timeout + 1 + ctl'.lease.idle
      BY <3>1, <3>2
    <3>4. ctl'.lease # NoLease /\ 2 * j + d + 1 <= Cardinality(Gone')
      BY <1>3, <1>8, <2>11
    <3>5. Spends(j, d, f)'
      BY <2>10, <3>3, <3>4 DEF Spends, Cost
    <3> QED BY <2>6, <3>5
  <2>12. CASE /\ ctl.lease = NoLease /\ ctl.beat # NotSet /\ 2 * j + d <= Cardinality(Gone)
              /\ dev.dead <= Cost(j, d, f) + 1 + ctl.beat
    <3>1. ctl.beat \in Nat /\ ctl'.beat = ctl.beat + 1
      BY <1>11, <2>4, <2>12, AgeType
    <3>2. dev'.dead <= Cost(j, d, f) + 1 + ctl'.beat
      BY <1>5, <1>6, <2>10, <2>12, <3>1
    <3>3. ctl'.lease = NoLease /\ ctl'.beat # NotSet /\ 2 * j + d <= Cardinality(Gone')
      BY <1>3, <1>8, <2>5, <2>12
    <3>4. Spends(j, d, f)'
      BY <2>10, <3>2, <3>3 DEF Spends, Cost
    <3> QED BY <2>6, <3>4
  <2>13. CASE /\ ctl.lease = NoLease /\ ctl.beat = NotSet /\ 2 * j + d <= Cardinality(Gone)
              /\ dev.dead <= Cost(j, d, f)
    <3>1. dev'.dead <= Cost(j, d, f) + 1
      BY <1>5, <1>6, <2>10, <2>13
    <3>2. ctl'.lease = NoLease /\ ctl'.beat = NotSet /\ 2 * j + d <= Cardinality(Settled')
      BY <1>3, <1>8, <2>5, <2>13
    <3>3. Spends(j, d, f)'
      BY <1>2, <2>10, <3>1, <3>2 DEF Spends, Cost
    <3> QED BY <2>6, <3>3
  <2> QED BY <1>1, <1>8, <2>9, <2>11, <2>12, <2>13 DEF Spends
<1> QED BY <1>13, <1>14

LEMMA InitWaited == Init => Waited
BY Bounds DEF Init, InitMachine, Waited, Overdue

LEMMA CommandTied ==
  ASSUME IInv, Tied, clock \in Clock, NEW s \in Commands, Issue(s) \/ Command(s)
  PROVE  Tied'
<1>1. /\ {"admission"} \in SUBSET (Label \ {"write ctrl-x"})
      /\ {"prepare"} \in SUBSET (Label \ {"write ctrl-x"})
      /\ {"write"} \in SUBSET (Label \ {"write ctrl-x"})
      /\ {"wait"} \in SUBSET (Label \ {"write ctrl-x"})
      /\ {"end"} \in SUBSET (Label \ {"write ctrl-x"})
  BY DEF Label
<1>2. /\ {"prepare", "write", "done"} \in SUBSET (Label \ {"new", "admission"})
      /\ {"write", "end"} \in SUBSET (Label \ {"new", "admission"})
      /\ {"wait", "done"} \in SUBSET (Label \ {"new", "admission"})
      /\ {"end", "done"} \in SUBSET (Label \ {"new", "admission"})
      /\ {"prepare", "end"} \in SUBSET (Label \ {"new", "admission"})
      /\ {"end"} \in SUBSET (Label \ {"new", "admission"})
      /\ {"done"} \in SUBSET (Label \ {"new", "admission"})
  BY DEF Label
<1>3. LeaseHeld
  BY DEF Tied
<1>4. CASE Admit(s)
  <2>1. Moves(s, {"admission"}, {"prepare", "write", "done"}) /\ (Stays(s) \/ Begins(s))
    BY <1>4, AdmitMoves
  <2> QED BY <1>1, <1>2, <2>1, MovesTied
<1>5. CASE PrepareLine(s)
  <2>1. Moves(s, {"prepare"}, {"write", "end"}) /\ (Stays(s) \/ Begins(s))
    BY <1>5, PrepareLineMoves
  <2> QED BY <1>1, <1>2, <2>1, MovesTied
<1>6. CASE WriteLine(s)
  <2>1. Moves(s, {"write"}, {"wait", "done"}) /\ Stays(s)
    BY <1>6, WriteLineMoves
  <2> QED BY <1>1, <1>2, <2>1, MovesTied
<1>7. CASE WriteLineFails(s)
  <2>1. Moves(s, {"write"}, {"end", "done"}) /\ Drops(s)
    BY <1>3, <1>7, WriteLineFailsMoves
  <2> QED BY <1>1, <1>2, <2>1, MovesTied
<1>8. CASE TakeOK(s)
  <2>1. Moves(s, {"wait"}, {"prepare", "end"}) /\ Drops(s)
    BY <1>3, <1>8, TakeOKMoves
  <2> QED BY <1>1, <1>2, <2>1, MovesTied
<1>9. CASE TakeFailure(s)
  <2>1. Moves(s, {"wait"}, {"end"}) /\ Drops(s)
    BY <1>3, <1>9, TakeFailureMoves
  <2> QED BY <1>1, <1>2, <2>1, MovesTied
<1>10. CASE EndSession(s)
  <2>1. Moves(s, {"end"}, {"done"}) /\ Stays(s)
    BY <1>3, <1>10, EndSessionMoves
  <2> QED BY <1>1, <1>2, <2>1, MovesTied
<1> QED BY <1>4, <1>5, <1>6, <1>7, <1>8, <1>9, <1>10, IssueTied, AdmitResetTied, WriteResetTied
        DEF Command

LEMMA StutterWaited ==
  ASSUME Tied, Departed, Waited, UNCHANGED vars
  PROVE  Tied' /\ Departed' /\ Waited'
<1>1. UNCHANGED <<ctl, cmd, rx, dev, clock>>
  BY DEF vars
<1>2. Tied'
  BY <1>1 DEF Tied, Ties, LeaseHeld, Op
<1>3. Departed'
  BY <1>1 DEF Departed
<1>4. Waited'
  <2>1. Gone' = Gone /\ Settled' = Settled /\ Engaged' = Engaged
    BY <1>1 DEF Gone, Settled, Engaged
  <2>2. Overdue' = Overdue /\ Watched' = Watched
    BY <1>1 DEF Overdue, Watched
  <2>3. \A j, d, f \in Nat : Spends(j, d, f)' = Spends(j, d, f)
    BY <1>1, <2>1 DEF Spends, Cost
  <2> QED BY <2>2, <2>3 DEF Waited
<1> QED BY <1>2, <1>3, <1>4

WatchInv == IInv /\ Tied /\ Departed /\ Waited

LEMMA WatchStep == WatchInv /\ [Next]_vars => WatchInv'
<1> SUFFICES ASSUME IInv, Tied, Departed, Waited, [Next]_vars PROVE WatchInv'
  BY DEF WatchInv
<1>1. IInv' /\ clock \in Clock /\ clock' \in Clock
  BY StepHolds, ClockStep DEF Departed
<1>2. CASE UNCHANGED vars
  BY <1>1, <1>2, StutterWaited DEF WatchInv
<1>3. ASSUME NEW s \in Commands, Issue(s) \/ Command(s) PROVE WatchInv'
  BY <1>1, <1>3, CommandTied, CommandDeparted, CommandWaited DEF WatchInv
<1>4. CASE Monitor
  BY <1>1, <1>4, MonitorTied, MonitorDeparted, MonitorWaited DEF WatchInv
<1>5. CASE Bridge
  BY <1>1, <1>5, BridgeTied, BridgeDeparted, SilentWaited DEF WatchInv
<1>6. CASE Machine \/ Dies \/ RaisesAlarm50
  BY <1>1, <1>6, MachineTied, MachineDeparted, SilentWaited DEF WatchInv
<1>7. CASE Tick
  BY <1>1, <1>7, TickTied, TickDeparted, TickWaited DEF WatchInv
<1> QED BY <1>2, <1>3, <1>4, <1>5, <1>6, <1>7 DEF Next

\* A machine that dies is noticed within the sum of the limits that commands may hold
\* the watchdog up for: whatever is issued, prepared, reset, cancelled or cannot be
\* written on the dead machine, and however late its last lines are read, each silent
\* command delays the emergency stop by one lease and one heartbeat at most.
THEOREM DeathNoticed == Spec => []DeadNoticedInTime
<1>1. Init => WatchInv
  BY InitHolds, InitTied, InitDeparted, InitWaited DEF WatchInv
<1>2. WatchInv => DeadNoticedInTime
  BY WaitedNoticed DEF WatchInv
<1> QED BY <1>1, <1>2, WatchStep, PTL DEF Spec
=============================================================================
