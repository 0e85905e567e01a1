--------------------- MODULE ControllerReadiness_proofs ---------------------
(***************************************************************************)
(* The machine at rest: what readiness Normal promises about it, and what  *)
(* readiness is regained from, for every value of the constants.           *)
(*                                                                         *)
(* Nothing that the controller reads is about the machine as it is, only   *)
(* about what it sent some time ago.  So the invariant (Resting) follows   *)
(* what is on its way: the line from the runner to the machine, its ok from *)
(* the machine through the event queue and the session back to the runner  *)
(* (RunAnswered, OneAck); a report of Idle, which is only as good as the   *)
(* events behind it (IdleIsOld); the startup banner that answers a Stop's  *)
(* Ctrl-X and comes behind every ok of the stopped run (BannerIsLast); and *)
(* the alarm that a verification would overlook but the bridge still has to *)
(* read (VerifierTold, StopTold).                                          *)
(*                                                                         *)
(* The proof asks of every step first what it does to the machine and to   *)
(* the queue (Flow), and where each thing that the invariant speaks of can *)
(* have come from (the lemmas ...From, ...Arrives): each part then has few *)
(* cases.                                                                  *)
(***************************************************************************)
EXTENDS ControllerMachine_proofs

-----------------------------------------------------------------------------
(* What a step does to the events on their way to the bridge. *)

\* The queue keeps its events, apart from the age of a banner; loses its first;
\* or gets new ones, one of each of these kinds, behind those it has.
Keeps == /\ DOMAIN rx' = DOMAIN rx
         /\ \A i \in DOMAIN rx : /\ rx'[i].kind = rx[i].kind /\ rx'[i].gen = rx[i].gen
                                 /\ rx'[i].new => rx[i].new
Loses == /\ \A i \in DOMAIN rx' : i + 1 \in DOMAIN rx /\ rx'[i] = rx[i + 1]
         /\ \A i \in DOMAIN rx : i # 1 => i - 1 \in DOMAIN rx'
Added == DOMAIN rx' \ DOMAIN rx
Grows(kinds) ==
  /\ \A i \in DOMAIN rx : i \in DOMAIN rx' /\ rx'[i] = rx[i]
  /\ \A i \in Added : /\ rx'[i].kind \in kinds /\ rx'[i].gen = port
                      /\ \A j \in DOMAIN rx : j < i
                      /\ \A j \in Added : rx'[j].kind = rx'[i].kind => j = i
  /\ port # 0 => \A k \in kinds : \E i \in Added : rx'[i].kind = k

LEMMA Joined ==
  ASSUME NEW S, NEW s \in Seq(S), NEW t \in Seq(S), NEW u, u = s \o t
  PROVE  /\ Len(u) = Len(s) + Len(t)
         /\ \A i \in 1..(Len(s) + Len(t)) : u[i] = IF i <= Len(s) THEN s[i] ELSE t[i - Len(s)]
OBVIOUS

LEMMA SaysGrows ==
  ASSUME rx \in Seq(RxEvent), port \in {0} \cup Generation, NEW kinds \in Seq(RxKind), Says(kinds),
         \A i, j \in DOMAIN kinds : kinds[i] = kinds[j] => i = j
  PROVE  Grows({kinds[i] : i \in DOMAIN kinds})
<1>1. CASE port = 0
  BY <1>1 DEF Says, Grows, Added
<1>2. CASE port # 0
  <2> DEFINE h == Heard(kinds, port)
  <2>1. /\ h = [i \in 1..Len(kinds) |-> [kind |-> kinds[i], gen |-> port, new |-> TRUE]]
        /\ Len(kinds) \in Nat /\ DOMAIN kinds = 1..Len(kinds)
    BY DEF Heard
  <2>2. h \in Seq(RxEvent) /\ Len(h) = Len(kinds)
    BY <1>2, HeardType
  <2>3. \A i \in 1..Len(kinds) : h[i].kind = kinds[i] /\ h[i].gen = port
    BY <2>1
  <2> HIDE DEF h
  <2>4. rx' = rx \o h
    BY <1>2 DEF Says, h
  <2>5. /\ Len(rx') = Len(rx) + Len(kinds)
        /\ \A i \in 1..(Len(rx) + Len(kinds)) :
             rx'[i] = IF i <= Len(rx) THEN rx[i] ELSE h[i - Len(rx)]
    <3>1. /\ Len(rx') = Len(rx) + Len(h)
          /\ \A i \in 1..(Len(rx) + Len(h)) :
               rx'[i] = IF i <= Len(rx) THEN rx[i] ELSE h[i - Len(rx)]
      BY ONLY rx \in Seq(RxEvent), <2>2, <2>4, Joined
    <3> QED BY <2>2, <3>1
  <2>6. /\ DOMAIN rx = 1..Len(rx) /\ Len(rx) \in Nat /\ DOMAIN rx' = 1..(Len(rx) + Len(kinds))
    <3>1. rx' \in Seq(RxEvent)
      BY <2>2, <2>4, ConcatProperties
    <3> QED BY <2>1, <2>5, <3>1
  <2>7. \A i \in DOMAIN rx : i \in DOMAIN rx' /\ rx'[i] = rx[i]
    BY <2>1, <2>5, <2>6
  <2>8. \A i \in Added : /\ i \in Int /\ i - Len(rx) \in 1..Len(kinds)
                         /\ rx'[i] = h[i - Len(rx)] /\ \A j \in DOMAIN rx : j < i
    <3>1. Added = (Len(rx) + 1)..(Len(rx) + Len(kinds))
      BY <2>1, <2>6 DEF Added
    <3>2. \A i \in Added : i \in Int /\ i - Len(rx) \in 1..Len(kinds)
      BY <2>1, <2>6, <3>1
    <3>3. \A i \in Added : i \in 1..(Len(rx) + Len(kinds)) /\ ~(i <= Len(rx))
      BY <2>1, <2>6, <3>1
    <3>4. \A i \in Added : \A j \in DOMAIN rx : j < i
      BY <2>1, <2>6, <3>1
    <3> QED BY <2>5, <3>2, <3>3, <3>4
  <2>9. \A i \in Added : /\ rx'[i].kind = kinds[i - Len(rx)] /\ rx'[i].gen = port
                         /\ i - Len(rx) \in DOMAIN kinds
    <3> TAKE i \in Added
    <3>1. i - Len(rx) \in 1..Len(kinds) /\ rx'[i] = h[i - Len(rx)]
      BY <2>8
    <3> QED BY <2>1, <2>3, <3>1
  <2>10. \A i, j \in Added : rx'[j].kind = rx'[i].kind => j = i
    <3> TAKE i, j \in Added
    <3> HAVE rx'[j].kind = rx'[i].kind
    <3>1. i - Len(rx) = j - Len(rx)
      BY <2>9
    <3> QED BY <2>6, <2>8, <3>1
  <2>11. ASSUME NEW k \in DOMAIN kinds
        PROVE  \E i \in Added : rx'[i].kind = kinds[k]
    <3> DEFINE i == Len(rx) + k
    <3>1. k \in 1..Len(kinds)
      BY <2>1, <2>11
    <3>2. i \in 1..(Len(rx) + Len(kinds)) /\ i \notin 1..Len(rx) /\ i - Len(rx) = k
      BY <2>1, <2>6, <3>1
    <3>3. i \in Added
      BY <2>6, <3>2 DEF Added
    <3> HIDE DEF i
    <3> QED BY <2>9, <3>2, <3>3
  <2> DEFINE K == {kinds[i] : i \in DOMAIN kinds}
  <2>12. /\ \A i \in Added : rx'[i].kind \in K
         /\ \A k \in K : \E i \in Added : rx'[i].kind = k
    BY <2>9, <2>11
  <2> HIDE DEF K
  <2>13. Grows(K)
    BY <2>7, <2>8, <2>9, <2>10, <2>12 DEF Grows
  <2> QED BY <2>13 DEF K
<1> QED BY <1>1, <1>2

LEMMA Grown ==
  ASSUME rx \in Seq(RxEvent), port \in {0} \cup Generation
  PROVE  /\ Says(<<>>) => Grows({})
         /\ \A k \in RxKind : Says(<<k>>) => Grows({k})
         /\ Says(<<"alarm3", "banner">>) => Grows({"alarm3", "banner"})
<1>1. ASSUME Says(<<>>) PROVE Grows({})
  <2>1. {<<>>[i] : i \in DOMAIN <<>>} = {} /\ <<>> \in Seq(RxKind)
    OBVIOUS
  <2>2. Grows({<<>>[i] : i \in DOMAIN <<>>})
    BY <1>1, <2>1, SaysGrows
  <2> QED BY <2>1, <2>2
<1>2. ASSUME NEW k \in RxKind, Says(<<k>>) PROVE Grows({k})
  <2> DEFINE s == <<k>>
  <2>1. s \in Seq(RxKind) /\ DOMAIN s = {1} /\ s[1] = k
    OBVIOUS
  <2> HIDE DEF s
  <2>2. {s[i] : i \in DOMAIN s} = {k}
    BY <2>1
  <2>3. Grows({s[i] : i \in DOMAIN s})
    BY <1>2, <2>1, SaysGrows DEF s
  <2> QED BY <2>2, <2>3
<1>3. ASSUME Says(<<"alarm3", "banner">>) PROVE Grows({"alarm3", "banner"})
  <2> DEFINE s == <<"alarm3", "banner">>
  <2>1. s \in Seq(RxKind) /\ DOMAIN s = {1, 2} /\ s[1] = "alarm3" /\ s[2] = "banner"
    BY DEF RxKind
  <2> HIDE DEF s
  <2>2. {s[i] : i \in DOMAIN s} = {"alarm3", "banner"}
    BY <2>1
  <2>3. Grows({s[i] : i \in DOMAIN s})
    BY <1>3, <2>1, SaysGrows DEF s
  <2> QED BY <2>2, <2>3
<1> QED BY <1>1, <1>2, <1>3

LEMMA AppendGrows ==
  ASSUME rx \in Seq(RxEvent), NEW k,
         rx' = Append(rx, [kind |-> k, gen |-> port, new |-> TRUE])
  PROVE  Grows({k})
<1> DEFINE e == [kind |-> k, gen |-> port, new |-> TRUE]
<1>1. e.kind = k /\ e.gen = port
  OBVIOUS
<1> HIDE DEF e
<1>2. rx' = Append(rx, e) /\ rx \in Seq(RxEvent \cup {e})
  BY DEF e
<1>3. /\ Len(rx) \in Nat /\ DOMAIN rx = 1..Len(rx) /\ DOMAIN rx' = 1..(Len(rx) + 1)
      /\ \A i \in 1..Len(rx) : rx'[i] = rx[i]
      /\ rx'[Len(rx) + 1] = e
  BY <1>2
<1>4. Added = {Len(rx) + 1}
  BY <1>3 DEF Added
<1> QED BY <1>1, <1>3, <1>4 DEF Grows

LEMMA TakenLoses ==
  ASSUME rx \in Seq(RxEvent), rx # <<>>, rx' = Tail(rx)
  PROVE  Loses /\ Head(rx) = rx[1] /\ 1 \in DOMAIN rx
<1>1. /\ Len(rx) \in Nat /\ Len(rx) # 0 /\ DOMAIN rx = 1..Len(rx)
      /\ Len(rx') = Len(rx) - 1 /\ DOMAIN rx' = 1..(Len(rx) - 1)
      /\ \A i \in 1..(Len(rx) - 1) : rx'[i] = rx[i + 1]
      /\ Head(rx) = rx[1]
  OBVIOUS
<1> QED BY <1>1 DEF Loses

LEMMA MarkedKeeps ==
  ASSUME rx \in Seq(RxEvent), rx' = [i \in DOMAIN rx |-> [rx[i] EXCEPT !.new = FALSE]]
  PROVE  Keeps /\ \A i \in DOMAIN rx' : ~rx'[i].new
<1>1. \A i \in DOMAIN rx : rx[i] \in RxEvent
  OBVIOUS
<1>2. \A e \in RxEvent : LET f == [e EXCEPT !.new = FALSE]
                         IN  f.kind = e.kind /\ f.gen = e.gen /\ f.new = FALSE
  BY DEF RxEvent
<1>3. DOMAIN rx' = DOMAIN rx
  OBVIOUS
<1>4. \A i \in DOMAIN rx : rx'[i] = [rx[i] EXCEPT !.new = FALSE]
  OBVIOUS
<1> QED BY <1>1, <1>2, <1>3, <1>4 DEF Keeps

-----------------------------------------------------------------------------
(* What a step does to the machine. *)

SameMotion == dev'.motion = dev.motion /\ dev'.alarm = dev.alarm
Accepts == /\ dev.lines > 0 /\ dev'.lines = dev.lines - 1 /\ ~dev'.alarm
           /\ Grows({"ok"})
Rejects == /\ dev.lines > 0 /\ dev'.lines = dev.lines - 1 /\ SameMotion
           /\ Grows({"error"})
Halts   == ~dev'.motion /\ dev'.lines = dev.lines /\ dev'.alarm = dev.alarm /\ Grows({})
Alarms  == /\ ~dev'.motion /\ dev'.lines = dev.lines
           /\ Grows({"alarm"}) \/ Grows({"alarm50"})
Resets  == /\ ~dev'.motion /\ dev'.lines = 0
           /\ \/ ~dev'.alarm /\ Grows({"banner"})
              \/ Grows({"alarm3", "banner"})
Reports == UNCHANGED dev /\ Grows({StatusOf(dev)})
Reacted == dev'.lines = dev.lines /\ SameMotion /\ Grows({})
Loads   == /\ dev'.lines = dev.lines + 1 /\ SameMotion /\ Grows({})
           /\ \E r \in RunID : LineWritten(r) /\ Sends(r)
Flow ==
  \/ UNCHANGED <<port, opened, dev>> /\ Keeps
  \/ UNCHANGED <<port, opened, dev>> /\ Loses /\ BridgeReads /\ BridgeStep
  \/ OpenPort
  \/ port' = 0 /\ UNCHANGED <<opened, dev>> /\ Grows({"disconnected"})
  \/ /\ UNCHANGED <<port, opened>>
     /\ Accepts \/ Rejects \/ Halts \/ Alarms \/ Resets \/ Reports \/ Reacted \/ Loads

LEMMA MachineFlows ==
  ASSUME TypeInv, Machine
  PROVE  Accepts \/ Rejects \/ Halts \/ Alarms \/ Resets
<1> dev \in DeviceType /\ rx \in Seq(RxEvent) /\ port \in {0} \cup Generation
  BY BoundsAssumption DEF TypeInv, LinkOK, Generation
<1>1. {"ok", "error", "alarm", "alarm50", "banner"} \subseteq RxKind
  BY DEF RxKind
<1>2. CASE MachineAccepts
  BY <1>1, <1>2, Grown DEF MachineAccepts, Accepts, DeviceType
<1>3. CASE MachineRejects
  BY <1>1, <1>3, Grown DEF MachineRejects, Rejects, SameMotion, DeviceType
<1>4. CASE MachineFinishes
  <2>1. Grows({})
    BY <1>4 DEF MachineFinishes, Grows, Added
  <2> QED BY <1>4, <2>1 DEF MachineFinishes, Halts, DeviceType
<1>5. CASE MachineUpset
  <2>1. AtRest.lines = 0 /\ AtRest.motion = FALSE /\ AtRest.alarm = FALSE
    BY DEF AtRest
  <2>2. CASE dev' = AtRest /\ Says(<<"banner">>)
    BY <1>1, <2>1, <2>2, Grown DEF Resets
  <2>3. ASSUME NEW k \in {"alarm", "alarm50"}, Says(<<k>>),
               dev' = [AtRest EXCEPT !.alarm = TRUE, !.lines = dev.lines]
        PROVE  Alarms
    <3>1. Grows({k})
      BY <1>1, <2>3, Grown
    <3>2. ~dev'.motion /\ dev'.lines = dev.lines
      BY <2>3 DEF AtRest
    <3> QED BY <3>1, <3>2 DEF Alarms
  <2> QED BY <1>5, <2>2, <2>3 DEF MachineUpset
<1> QED BY <1>2, <1>3, <1>4, <1>5 DEF Machine

LEMMA LandsFlows ==
  ASSUME TypeInv, Reserved, NEW p \in Writers, Lands(p)
  PROVE  Resets \/ Reports \/ Reacted \/ Loads
<1> dev \in DeviceType /\ rx \in Seq(RxEvent) /\ port \in {0} \cup Generation
  BY BoundsAssumption DEF TypeInv, LinkOK, Generation
<1>1. "banner" \in RxKind /\ StatusOf(dev) \in RxKind
  BY DEF RxKind, StatusOf
<1>2. Owns(p)
  BY LandsOwns
<1>3. PICK msg \in Messages :
        /\ (\E x \in Reactions(dev, msg) : dev' = x.dev /\ Says(x.says))
        /\ msg = "line" => \E r \in RunID : p = Runner(r) /\ LineWritten(r)
  BY DEF Lands, Delivered
<1>4. PICK x \in Reactions(dev, msg) : dev' = x.dev /\ Says(x.says)
  BY <1>3
<1>5. CASE msg = "line"
  <2>1. x.dev = [dev EXCEPT !.lines = @ + 1] /\ x.says = <<>>
    BY <1>4, <1>5 DEF Reactions
  <2>2. dev'.lines = dev.lines + 1 /\ SameMotion
    BY <1>4, <2>1 DEF DeviceType, SameMotion
  <2>3. Grows({})
    BY <1>4, <2>1, Grown
  <2>4. PICK r \in RunID : p = Runner(r) /\ LineWritten(r)
    BY <1>3, <1>5
  <2>5. Sends(r)
    BY <1>2, <2>4 DEF LineWritten, Sends
  <2> QED BY <2>2, <2>3, <2>4, <2>5 DEF Loads
<1>6. CASE msg \in {"hold", "resume"}
  <2>1. \/ x.dev = [dev EXCEPT !.held = ~dev.alarm] /\ x.says = <<>>
        \/ x.dev = [dev EXCEPT !.held = FALSE] /\ x.says = <<>>
    <3>1. CASE msg = "hold"
      BY <1>4, <3>1 DEF Reactions
    <3>2. CASE msg = "resume"
      BY <1>4, <3>2 DEF Reactions
    <3> QED BY <1>6, <3>1, <3>2
  <2>2. dev'.lines = dev.lines /\ SameMotion
    BY <1>4, <2>1 DEF DeviceType, SameMotion
  <2> QED BY <1>4, <2>1, <2>2, Grown DEF Reacted
<1>7. CASE msg = "poll"
  <2>1. x.dev = dev /\ x.says = <<StatusOf(dev)>>
    BY <1>4, <1>7 DEF Reactions
  <2> QED BY <1>1, <1>4, <2>1, Grown DEF Reports
<1>8. CASE msg = "reset"
  <2>1. AtRest.lines = 0 /\ AtRest.motion = FALSE /\ AtRest.alarm = FALSE
    BY DEF AtRest
  <2>2. \A b : /\ [AtRest EXCEPT !.alarm = b].lines = 0
               /\ [AtRest EXCEPT !.alarm = b].motion = FALSE
    BY DEF AtRest
  <2>3. \/ x.dev = AtRest /\ x.says = <<"banner">>
        \/ \E b \in BOOLEAN : /\ x.dev = [AtRest EXCEPT !.alarm = b]
                              /\ x.says = <<"alarm3", "banner">>
    BY <1>4, <1>8 DEF Reactions
  <2> QED BY <1>1, <1>4, <2>1, <2>2, <2>3, Grown DEF Resets
<1> QED BY <1>5, <1>6, <1>7, <1>8 DEF Messages

LEMMA Flows ==
  ASSUME RInv, Loaded, [Next]_vars
  PROVE  Flow
<1> TypeInv /\ Reserved
  BY DEF RInv, IInv, Serial
<1> rx \in Seq(RxEvent)
  BY DEF TypeInv, LinkOK
<1>1. CASE UNCHANGED <<port, opened, rx, dev>>
  BY <1>1 DEF Flow, Keeps
<1>2. CASE Machine
  BY <1>2, MachineFlows DEF Machine, Flow
<1>3. CASE LosesPort
  BY <1>3, AppendGrows DEF LosesPort, Flow
<1>4. ASSUME NEW p \in Writers, Lands(p)
      PROVE  Flow
  BY <1>4, LandsFlows DEF Lands, Delivered, Flow
<1>5. CASE BridgeStep /\ BridgeReads /\ UNCHANGED <<port, opened, dev>>
  BY <1>5, TakenLoses DEF BridgeReads, Flow
<1>6. ASSUME NEW r \in RunID, StopMarksReset(r)
      PROVE  Flow
  <2>1. Keeps
    <3>1. CASE rx' = rx
      BY <3>1 DEF Keeps
    <3>2. CASE rx' = [i \in DOMAIN rx |-> [rx[i] EXCEPT !.new = FALSE]]
      BY <3>2, MarkedKeeps
    <3> QED BY <1>6, <3>1, <3>2 DEF StopMarksReset
  <2> QED BY <1>6, <2>1 DEF StopMarksReset, Flow
<1> QED BY <1>1, <1>2, <1>3, <1>4, <1>5, <1>6, DoesDeeds DEF Deeds, Flow

-----------------------------------------------------------------------------
(* Where a run, a connection, a Stop and a report come from. *)

LEMMA GivenRun ==
  ASSUME ctl \in Controller, NEW r \in RunID, StartProgram(r)
  PROVE  /\ ctl.run.id = 0 /\ ctl'.run.id = r /\ ~ctl'.run.work /\ ctl'.status = "running"
         /\ ctl.ready = "normal" /\ ctl'.ready = "normal"
         /\ ctl'.gen = ctl.gen /\ ctl'.stop = ctl.stop /\ ctl'.machine = ctl.machine
         /\ ctl'.alarmed = ctl.alarmed
<1>1. ctl' = StartRun(ctl, r) /\ ctl.run.id = 0 /\ ctl.ready = "normal"
  BY DEF StartProgram, Admitted, Eligible, ProgramActive
<1>2. /\ StartRun(ctl, r).run = [NoRun EXCEPT !.id = r, !.gen = ctl.gen]
      /\ StartRun(ctl, r).status = "running" /\ StartRun(ctl, r).ready = ctl.ready
      /\ StartRun(ctl, r).gen = ctl.gen /\ StartRun(ctl, r).stop = ctl.stop
      /\ StartRun(ctl, r).machine = ctl.machine /\ StartRun(ctl, r).alarmed = ctl.alarmed
  BY DEF StartRun, Controller
<1>3. [NoRun EXCEPT !.id = r, !.gen = ctl.gen].id = r
      /\ [NoRun EXCEPT !.id = r, !.gen = ctl.gen].work = FALSE
  BY DEF NoRun
<1> QED BY <1>1, <1>2, <1>3

LEMMA GivenDone ==
  ASSUME ctl \in Controller, NEW r \in RunID, RunnerFinish(r)
  PROVE  \/ UNCHANGED ctl
         \/ /\ CanFinishProgram(ctl, r) /\ ctl'.run.id = 0 /\ ctl'.status = "completed"
            /\ ctl'.ready = ctl.ready /\ ctl'.gen = ctl.gen /\ ctl'.stop = ctl.stop
            /\ ctl'.machine = ctl.machine /\ ctl'.alarmed = ctl.alarmed
<1>1. FinishProgramSuccess(ctl).run = NoRun /\ NoRun.id = 0
  BY DEF FinishProgramSuccess, Controller, NoRun
<1> QED BY <1>1 DEF RunnerFinish, FinishProgramSuccess, Controller

LEMMA GivenStop ==
  ASSUME ctl \in Controller, NEW r \in RunID, StopProgram(r)
  PROVE  /\ ctl.stop.run = 0 /\ ctl.run.id = r /\ ctl'.run.id = r
         /\ ctl'.run.work = ctl.run.work
         /\ ctl'.status = "stopping" /\ ctl'.ready = "stopping"
         /\ ctl'.stop.run = r /\ ~ctl'.stop.reset /\ ~ctl'.stop.banner
         /\ ctl'.gen = ctl.gen /\ ctl'.machine = ctl.machine /\ ctl'.alarmed = ctl.alarmed
<1>1. ctl.run.id = r /\ ctl.stop.run = 0 /\ ctl' = BeginStop(ctl)
  BY DEF StopProgram
<1> DEFINE s == [NoStop EXCEPT !.run = ctl.run.id, !.gen = ctl.run.gen]
<1>2. s.run = ctl.run.id /\ s.reset = FALSE /\ s.banner = FALSE
  BY DEF NoStop
<1> HIDE DEF s
<1>3. BeginStop(ctl).run.id = ctl.run.id /\ BeginStop(ctl).run.work = ctl.run.work
  BY DEF BeginStop, Controller, RunType
<1>4. /\ BeginStop(ctl).stop = s
      /\ BeginStop(ctl).status = "stopping" /\ BeginStop(ctl).ready = "stopping"
      /\ BeginStop(ctl).gen = ctl.gen /\ BeginStop(ctl).machine = ctl.machine
      /\ BeginStop(ctl).alarmed = ctl.alarmed
  BY DEF BeginStop, Controller, s
<1> QED BY <1>1, <1>2, <1>3, <1>4

LEMMA GivenMark ==
  ASSUME ctl \in Controller, NEW r \in RunID, StopMarksReset(r)
  PROVE  /\ ctl'.run = ctl.run /\ ctl'.status = ctl.status /\ ctl'.ready = ctl.ready
         /\ ctl'.gen = ctl.gen /\ ctl'.machine = ctl.machine /\ ctl'.alarmed = ctl.alarmed
         /\ ctl'.stop.run = ctl.stop.run /\ ctl'.stop.banner = ctl.stop.banner
         /\ ctl.stop.reset => ctl'.stop.reset
         /\ ctl'.stop.invalid = ctl.stop.invalid
         /\ StopCurrent(ctl, r) =>
              ctl'.stop.reset /\ rx' = [i \in DOMAIN rx |-> [rx[i] EXCEPT !.new = FALSE]]
<1>1. CASE StopCurrent(ctl, r)
  BY <1>1 DEF StopMarksReset, MarkStopResetWriteIssued, Controller, StopType
<1>2. CASE ~StopCurrent(ctl, r)
  BY <1>2 DEF StopMarksReset, EndReservation, EndRealtimeWrite, Controller
<1> QED BY <1>1, <1>2

LEMMA GivenRest ==
  ASSUME ctl \in Controller, NEW r \in RunID, StopFinishes(r)
  PROVE  \/ UNCHANGED ctl
         \/ /\ MayFinishStop(ctl, r) /\ ctl'.run.id = 0 /\ ctl'.status = "stopped"
            /\ ctl'.ready = "normal" /\ ctl'.stop.run = 0 /\ ctl'.gen = ctl.gen
            /\ ctl'.machine = ctl.machine /\ ctl'.alarmed = ctl.alarmed
<1>1. FinishProgramStop(ctl).run = NoRun /\ NoRun.id = 0
      /\ FinishProgramStop(ctl).stop = NoStop /\ NoStop.run = 0
  BY DEF FinishProgramStop, Controller, NoRun, NoStop
<1> QED BY <1>1 DEF StopFinishes, FinishProgramStop, Controller

LEMMA GivenLink ==
  ASSUME TypeInv, CommitConnect
  PROVE  \/ UNCHANGED ctl
         \/ /\ ctl'.gen = opened /\ ctl'.run = ctl.run /\ ctl'.status = ctl.status
            /\ ctl'.stop = ctl.stop /\ ctl'.machine = ctl.machine
            /\ ctl'.ready = IF ctl.ready = "normal" THEN "normal" ELSE "verifying"
<1> DEFINE d == FinishConnectAttempt(ctl)
<1>1. /\ d \in Controller /\ d.run = ctl.run /\ d.status = ctl.status /\ d.stop = ctl.stop
      /\ d.machine = ctl.machine /\ d.ready = ctl.ready
  BY FinishConnectAttemptType DEF FinishConnectAttempt, Controller, TypeInv
<1> HIDE DEF d
<1>2. LET e == CommitConnection(ctl, opened)
      IN  /\ e.gen = opened /\ e.run = d.run /\ e.status = d.status /\ e.stop = d.stop
          /\ e.machine = d.machine
          /\ e.ready = IF d.ready = "normal" THEN d.ready ELSE "verifying"
  <2>1. CommitConnection(ctl, opened) =
          [d EXCEPT !.conn = "connected", !.estop = "clear", !.gen = opened,
                    !.polling = opened, !.alarmed = FALSE,
                    !.ready = IF d.ready = "normal" THEN d.ready ELSE "verifying"]
    BY DEF CommitConnection, d
  <2> DEFINE x == IF d.ready = "normal" THEN d.ready ELSE "verifying"
  <2>2. CommitConnection(ctl, opened) =
          [d EXCEPT !.conn = "connected", !.estop = "clear", !.gen = opened,
                    !.polling = opened, !.alarmed = FALSE, !.ready = x]
    BY <2>1
  <2>3. x = IF d.ready = "normal" THEN d.ready ELSE "verifying"
    OBVIOUS
  <2> HIDE DEF x
  <2> QED BY <1>1, <2>2, <2>3 DEF Controller
<1> QED BY <1>1, <1>2 DEF CommitConnect

LEMMA HeardLine ==
  ASSUME NEW c \in Controller, NEW ev
  PROVE  NoteInput(c, ev).machine = c.machine /\ NoteInput(c, ev).ready = c.ready
<1>1. \A is3, recent : /\ NoteAlarm(c, is3).machine = c.machine /\ NoteAlarm(c, is3).ready = c.ready
                       /\ NoteResetBanner(c, recent).machine = c.machine
                       /\ NoteResetBanner(c, recent).ready = c.ready
  BY DEF NoteAlarm, NoteResetBanner, Controller
<1> QED BY <1>1 DEF NoteInput

LEMMA HeardStatus ==
  ASSUME NEW c \in Controller, NEW state \in MachineState
  PROVE  NoteStatusReport(c, state).ready = c.ready
<1> DEFINE d == IF state = "Alarm" THEN NoteAlarm(c, FALSE) ELSE c
           e == [d EXCEPT !.machine = state]
<1>1. d.ready = c.ready /\ d \in Controller
  <2>1. NoteAlarm(c, FALSE).ready = c.ready
    BY DEF NoteAlarm, Controller
  <2> QED BY <2>1, NoteAlarmType
<1> HIDE DEF d
<1>2. e.ready = d.ready /\ e \in Controller
  BY <1>1 DEF Controller
<1> HIDE DEF e
<1>3. NoteStatusResponse(e, state).ready = e.ready
  BY <1>2 DEF NoteStatusResponse, Controller
<1> QED BY <1>1, <1>2, <1>3 DEF NoteStatusReport, d, e

LEMMA HeardPause ==
  ASSUME NEW c \in Controller, NEW i
  PROVE  LET ds == {BeginPauseTransition(c, Client(i)), EndPauseTransition(c, Client(i)),
                    CommitPause(c, i)}
         IN  \A d \in ds : d.machine = c.machine /\ d.ready = c.ready /\ d.stop = c.stop
<1>1. LET d == BeginPauseTransition(c, Client(i))
      IN  d.machine = c.machine /\ d.ready = c.ready /\ d.stop = c.stop
  BY DEF BeginPauseTransition, Controller
<1> DEFINE d == EndPauseTransition(c, Client(i))
<1>2. d.machine = c.machine /\ d.ready = c.ready /\ d.stop = c.stop
  BY DEF EndPauseTransition, Controller
<1>3. d \in Controller
  BY EndPauseTransitionType
<1> HIDE DEF d
<1>4. LET e == [d EXCEPT !.status = "paused"]
      IN  e.machine = d.machine /\ e.ready = d.ready /\ e.stop = d.stop
  BY <1>3 DEF Controller
<1>5. CommitPause(c, i) \in {c, d, [d EXCEPT !.status = "paused"]}
  BY DEF CommitPause, d
<1> QED BY <1>1, <1>2, <1>4, <1>5 DEF d

\* What a critical section that hears from the machine leaves alone.
LEMMA HeardFields ==
  ASSUME IInv, Hears
  PROVE  /\ ctl'.machine = ctl.machine \/ BridgeStatus
         /\ ctl'.ready = ctl.ready \/ \E g \in Generation : VerifierConcludes(g)
         /\ ctl'.stop = ctl.stop \/ BridgeLine \/ BridgeStatus
<1> ctl \in Controller
  BY DEF IInv, TypeInv
<1>1. CASE BridgeLine
  BY <1>1, HeardLine DEF BridgeLine
<1>2. CASE BridgeStatus
  <2>1. NextEvent.kind \in MachineState
    BY <1>2 DEF BridgeStatus, IsStatus, MachineState
  <2> QED BY <1>2, <2>1, HeardStatus DEF BridgeStatus
<1>3. ASSUME NEW g \in Generation, VerifierConcludes(g)
      PROVE  ctl'.machine = ctl.machine /\ ctl'.stop = ctl.stop
  BY <1>3 DEF VerifierConcludes, ConcludeVerification, Controller
<1>4. ASSUME NEW i \in 1..MaxClients, BeginPause(i) \/ PauseReturns(i)
      PROVE  ctl'.machine = ctl.machine /\ ctl'.stop = ctl.stop /\ ctl'.ready = ctl.ready
  BY <1>4, HeardPause DEF BeginPause, PauseReturns
<1> QED BY <1>1, <1>2, <1>3, <1>4 DEF Hears

LEMMA GenFrom ==
  ASSUME IInv, [Next]_vars
  PROVE  ctl'.gen \in {ctl.gen, 0} \/ CommitConnect
<1> ctl \in Controller
  BY DEF IInv, TypeInv
<1>1. CASE Calm(ctl, ctl')
  BY <1>1 DEF Calm
<1>2. CASE Gives
  BY <1>2, GivenRun, GivenDone, GivenStop, GivenMark, GivenRest DEF Gives
<1> QED BY <1>1, <1>2, CtlTurns DEF Turns, Steady

LEMMA ExecutingFrom ==
  ASSUME IInv, [Next]_vars, ctl'.status \in Executing
  PROVE  \/ ctl.status \in Executing /\ ctl'.run.id = ctl.run.id
         \/ \E r \in RunID : StartProgram(r) /\ ctl'.run.id = r
<1> ctl \in Controller /\ TypeInv
  BY DEF IInv, TypeInv
<1>1. CASE Calm(ctl, ctl')
  BY <1>1 DEF Calm
<1>2. CASE Gives
  BY <1>2, GivenRun, GivenDone, GivenStop, GivenMark, GivenRest, GivenLink DEF Gives, Executing
<1> QED BY <1>1, <1>2, CtlTurns DEF Turns, Steady

LEMMA EaseFrom ==
  ASSUME IInv, [Next]_vars, AtEase(ctl')
  PROVE  \/ AtEase(ctl) \/ CommitConnect
         \/ \E r \in RunID : RunnerFinish(r) /\ CanFinishProgram(ctl, r)
         \/ \E r \in RunID : StopFinishes(r) /\ MayFinishStop(ctl, r)
<1> ctl \in Controller /\ TypeInv
  BY DEF IInv, TypeInv
<1>1. CASE Calm(ctl, ctl')
  BY <1>1 DEF Calm
<1>2. CASE Gives
  <2>1. ASSUME NEW r \in RunID, StopProgram(r) PROVE AtEase(ctl)
    BY <2>1, GivenStop DEF AtEase, RunID
  <2>2. ASSUME NEW r \in RunID, StartProgram(r) \/ StopMarksReset(r) PROVE AtEase(ctl)
    BY <2>2, GivenRun, GivenMark DEF AtEase
  <2>3. ASSUME NEW r \in RunID, RunnerFinish(r) PROVE AtEase(ctl) \/ CanFinishProgram(ctl, r)
    BY <2>3, GivenDone DEF AtEase
  <2>4. ASSUME NEW r \in RunID, StopFinishes(r) PROVE AtEase(ctl) \/ MayFinishStop(ctl, r)
    BY <2>4, GivenRest DEF AtEase
  <2> QED BY <1>2, <2>1, <2>2, <2>3, <2>4 DEF Gives
<1> QED BY <1>1, <1>2, CtlTurns DEF Turns, Steady

LEMMA StopFrom ==
  ASSUME IInv, [Next]_vars, NEW r \in RunID, ctl'.stop.run = r
  PROVE  \/ StopProgram(r) /\ ~ctl'.stop.banner
         \/ /\ ctl.stop.run = r
            /\ ctl.stop.reset => ctl'.stop.reset
            /\ ctl.stop.invalid => ctl'.stop.invalid
            /\ ctl'.stop.banner = ctl.stop.banner \/ BridgeLine \/ BridgeStatus
<1> ctl \in Controller /\ TypeInv /\ r # 0
  BY DEF IInv, TypeInv, RunID
<1>1. CASE Steady(ctl, ctl')
  BY <1>1 DEF Steady, Calm
<1>2. CASE Calm(ctl, ctl') /\ Hears
  BY <1>2, HeardFields DEF Calm
<1>3. CASE Gives
  <2>1. ASSUME NEW q \in RunID, StopProgram(q)
        PROVE  StopProgram(r) /\ ~ctl'.stop.banner
    BY <2>1, GivenStop
  <2>2. ASSUME NEW q \in RunID, StartProgram(q) \/ RunnerFinish(q) PROVE ctl'.stop = ctl.stop
    BY <2>2, GivenRun, GivenDone
  <2>3. ASSUME NEW q \in RunID, StopMarksReset(q)
        PROVE  /\ ctl'.stop.run = ctl.stop.run /\ ctl'.stop.banner = ctl.stop.banner
               /\ ctl.stop.reset => ctl'.stop.reset
               /\ ctl'.stop.invalid = ctl.stop.invalid
    BY <2>3, GivenMark
  <2>4. ASSUME NEW q \in RunID, StopFinishes(q) PROVE ctl'.stop = ctl.stop
    BY <2>4, GivenRest
  <2>5. CommitConnect => ctl'.stop = ctl.stop
    BY GivenLink
  <2> QED BY <1>3, <2>1, <2>2, <2>3, <2>4, <2>5 DEF Gives
<1> QED BY <1>1, <1>2, <1>3, CtlTurns DEF Turns

LEMMA ReadyFrom ==
  ASSUME IInv, [Next]_vars, ctl.ready # "normal", ctl'.ready = "normal"
  PROVE  \/ \E g \in Generation : VerifierConcludes(g)
         \/ \E r \in RunID : StopFinishes(r) /\ MayFinishStop(ctl, r)
<1> ctl \in Controller /\ TypeInv
  BY DEF IInv, TypeInv
<1>1. CASE Steady(ctl, ctl')
  BY <1>1 DEF Steady
<1>2. CASE Calm(ctl, ctl') /\ Hears
  BY <1>2, HeardFields
<1>3. CASE Gives
  BY <1>3, GivenRun, GivenDone, GivenStop, GivenMark, GivenRest, GivenLink DEF Gives
<1> QED BY <1>1, <1>2, <1>3, CtlTurns DEF Turns

LEMMA ReportFrom ==
  ASSUME IInv, [Next]_vars
  PROVE  ctl'.machine \in {ctl.machine, ""} \/ BridgeStatus
<1> ctl \in Controller /\ TypeInv
  BY DEF IInv, TypeInv
<1>1. CASE Steady(ctl, ctl')
  BY <1>1 DEF Steady
<1>2. CASE Calm(ctl, ctl') /\ Hears
  BY <1>2, HeardFields
<1>3. CASE Gives
  BY <1>3, GivenRun, GivenDone, GivenStop, GivenMark, GivenRest, GivenLink DEF Gives
<1> QED BY <1>1, <1>2, <1>3, CtlTurns DEF Turns

LEMMA AlarmedFrom ==
  ASSUME IInv, [Next]_vars, ~CommitConnect, ctl'.gen = ctl.gen, ctl.alarmed
  PROVE  ctl'.alarmed
<1> ctl \in Controller /\ TypeInv
  BY DEF IInv, TypeInv
<1>1. CASE Calm(ctl, ctl')
  BY <1>1 DEF Calm
<1>2. CASE Gives
  BY <1>2, GivenRun, GivenDone, GivenStop, GivenMark, GivenRest DEF Gives
<1> QED BY <1>1, <1>2, CtlTurns DEF Turns, Steady

-----------------------------------------------------------------------------
(* The goroutines that await a fresh report, and what they have heard. *)

Awaits == {"pollAdmit", "pollWrite", "waitIdle"}

LEMMA PollGoes ==
  ASSUME PcOK, NEW p \in Procs, NEW l, l \notin Awaits,
         PollAdmitted(p) \/ PollWritten(p) \/ PollWriteFails(p, l)
  PROVE  /\ pc[p] \in Awaits /\ pc'[p] \in {"waitIdle", "pollWrite", l}
         /\ UNCHANGED <<chan, fresh>>
<1>1. \A k : Goto(p, k) => pc'[p] = k
  BY GotoHere
<1>2. CASE PollAdmitted(p)
  BY <1>1, <1>2 DEF PollAdmitted, Awaits, runVars
<1>3. CASE PollWritten(p)
  BY <1>1, <1>3 DEF PollWritten, Awaits, runVars
<1>4. CASE PollWriteFails(p, l)
  BY <1>1, <1>4 DEF PollWriteFails, Awaits, runVars
<1> QED BY <1>2, <1>3, <1>4

\* A report processed by the bridge is what makes a wait fresh.
LEMMA FreshFrom ==
  ASSUME IInv, [Next]_vars
  PROVE  fresh' \subseteq fresh \/ BridgeStatus
<1>1. \A p : TakeBaseline(p) => fresh' \subseteq fresh
  BY DEF TakeBaseline
<1>2. ASSUME NEW p, NEW l, PollAdmitted(p) \/ PollWritten(p) \/ PollWriteFails(p, l)
      PROVE  UNCHANGED fresh
  BY <1>2 DEF PollAdmitted, PollWritten, PollWriteFails
<1>3. ASSUME NEW r \in RunID, StartProgram(r) \/ RunnerStep(r)
      PROVE  fresh' \subseteq fresh
  <2>1. CASE \/ StartProgram(r) \/ RunnerGate(r) \/ RunnerAdmit(r) \/ RunnerUnblocked(r)
             \/ LineWritten(r) \/ LineWriteFails(r) \/ RunnerResponse(r) \/ RunnerCancelled(r)
    BY <2>1 DEF StartProgram, RunnerGate, RunnerAdmit, RunnerUnblocked, LineWritten,
                LineWriteFails, RunnerResponse, RunnerCancelled
  <2>2. CASE \/ BeginProgramDraining(r) \/ DrainGate(r) \/ DrainIdle(r) \/ DrainResponse(r)
             \/ DrainCheck(r) \/ RunnerFinish(r) \/ RunnerFail(r)
    BY <2>2 DEF BeginProgramDraining, DrainGate, DrainIdle, DrainResponse, DrainCheck,
                RunnerFinish, RunnerFail
  <2>3. CASE DrainBaseline(r)
    BY <1>1, <2>3 DEF DrainBaseline
  <2>4. CASE DrainPoll(r)
    BY <1>2, <2>4 DEF DrainPoll
  <2> QED BY <1>3, <2>1, <2>2, <2>3, <2>4 DEF RunnerStep
<1>4. ASSUME NEW r \in RunID, StopProgram(r) \/ StopStep(r) \/ PendingStopWriteReturns(r)
      PROVE  fresh' \subseteq fresh
  <2>1. CASE \/ StopProgram(r) \/ StopAcquires(r) \/ StopCannotAcquire(r) \/ StopHoldWritten(r)
             \/ StopMarksReset(r) \/ StopResetWritten(r) \/ StopWriteTimesOut(r)
             \/ PendingStopWriteReturns(r)
    BY <2>1 DEF StopProgram, StopAcquires, StopCannotAcquire, StopHoldWritten, StopMarksReset,
                StopResetWritten, StopWriteTimesOut, PendingStopWriteReturns
  <2>2. CASE StopVerifies(r) \/ StopBanner(r) \/ StopIdle(r) \/ StopFinishes(r) \/ StopFails(r)
    BY <2>2 DEF StopVerifies, StopBanner, StopIdle, StopFinishes, StopFails
  <2>3. CASE StopBaseline(r)
    BY <1>1, <2>3 DEF StopBaseline
  <2>4. CASE StopPoll(r)
    BY <1>2, <2>4 DEF StopPoll
  <2> QED BY <1>4, <2>1, <2>2, <2>3, <2>4 DEF StopStep
<1>5. ASSUME NEW i \in 1..MaxClients,
             \/ BeginPause(i) \/ BeginResume(i) \/ ClientStep(i)
             \/ \E a \in Actions : BeginAction(i, a)
             \/ ActionStep(i)
      PROVE  UNCHANGED fresh
  <2>1. CASE ClientStep(i)
    BY <2>1 DEF ClientStep, PauseAdmit, HoldWritten, HoldWriteFails, PauseReturns,
                ResumeAdmit, ResumeWritten, ResumeWriteFails, ResumeReturns
  <2>2. CASE BeginPause(i) \/ BeginResume(i) \/ \E a \in Actions : BeginAction(i, a)
    BY <2>2 DEF BeginPause, BeginResume, BeginAction
  <2>3. CASE ActionStep(i)
    BY <2>3 DEF ActionStep, ActionAdmit, ActionReturns
  <2> QED BY <1>5, <2>1, <2>2, <2>3
<1>6. ASSUME NEW g \in Generation, BeginStatusPoll(g) \/ EndStatusPoll(g) \/ VerifierStep(g)
      PROVE  fresh' \subseteq fresh
  <2>1. CASE BeginStatusPoll(g) \/ EndStatusPoll(g) \/ VerifierIdle(g) \/ VerifierConcludes(g)
    BY <2>1 DEF BeginStatusPoll, EndStatusPoll, VerifierIdle, VerifierConcludes
  <2>2. CASE VerifierBaseline(g)
    BY <1>1, <2>2 DEF VerifierBaseline
  <2>3. CASE VerifierPoll(g)
    BY <1>2, <2>3 DEF VerifierPoll
  <2> QED BY <1>6, <2>1, <2>2, <2>3 DEF VerifierStep
<1>7. CASE Connect \/ ConnectorStep
  BY <1>7 DEF Connect, ConnectorStep, OpenPort, OpenFails, NoteOpen, Validated, ValidationFails,
              CommitConnect, SuppressCandidate, CloseCandidate, AbandonConnect
<1>8. CASE Disconnect \/ CloserStep
  BY <1>8 DEF Disconnect, CloserStep, DisconnectStopsPolling, DisconnectDrains,
              DisconnectCloses, DisconnectFails, DisconnectReleases, DisconnectClears
<1>9. CASE BridgeStep \/ WatchdogEStop
  BY <1>9 DEF BridgeStep, BridgeDiscards, BridgeEStop, BridgeLine, BridgeFailsRun,
              BridgeIgnoresDisconnect, BridgeDisconnected, BridgeClears, WatchdogEStop
<1>10. CASE Machine \/ PortDrops \/ \E p \in Writers : WriteStalls(p)
  BY <1>10 DEF Machine, PortDrops, WriteStalls
<1>11. CASE UNCHANGED vars
  BY <1>11 DEF vars
<1> QED BY <1>3, <1>4, <1>5, <1>6, <1>7, <1>8, <1>9, <1>10, <1>11 DEF Next

-----------------------------------------------------------------------------
(* The responses of a run's session. *)

\* The bridge delivers the first event of the queue to the session of the run.
Hands(r, x) == /\ BridgeLine /\ ctl.run.id = r
               /\ rx # <<>> /\ Head(rx).gen = ctl.gen
               /\ x = "ok" => Head(rx).kind = "ok"
               /\ chan'[r] = Append(chan[r], x)
Responds(r) == /\ RunnerResponse(r) \/ DrainResponse(r)
               /\ chan[r] # <<>> /\ chan'[r] = Tail(chan[r])

LEMMA ChanFrom ==
  ASSUME IInv, [Next]_vars, NEW r \in RunID
  PROVE  chan'[r] = chan[r] \/ Responds(r) \/ \E x \in {"ok", "fail"} : Hands(r, x)
<1> chan \in [RunID -> Seq({"ok", "fail"})] /\ LinkOK
  BY DEF IInv, TypeInv, RunsOK
<1>1. ASSUME NEW p, NEW l, PollAdmitted(p) \/ PollWritten(p) \/ PollWriteFails(p, l)
      PROVE  UNCHANGED chan
  BY <1>1 DEF PollAdmitted, PollWritten, PollWriteFails, runVars
<1>2. ASSUME NEW q \in RunID, StartProgram(q) \/ RunnerStep(q)
      PROVE  chan'[r] = chan[r] \/ Responds(r)
  <2>1. CASE \/ StartProgram(q) \/ RunnerGate(q) \/ RunnerAdmit(q) \/ RunnerUnblocked(q)
             \/ LineWritten(q) \/ LineWriteFails(q) \/ RunnerCancelled(q)
    BY <2>1 DEF StartProgram, RunnerGate, RunnerAdmit, RunnerUnblocked, LineWritten,
                LineWriteFails, RunnerCancelled, runVars
  <2>2. CASE \/ BeginProgramDraining(q) \/ DrainGate(q) \/ DrainIdle(q) \/ DrainBaseline(q)
             \/ DrainCheck(q) \/ RunnerFinish(q) \/ RunnerFail(q)
    BY <2>2 DEF BeginProgramDraining, DrainGate, DrainIdle, DrainBaseline, DrainCheck,
                RunnerFinish, RunnerFail, runVars
  <2>3. CASE RunnerResponse(q) \/ DrainResponse(q)
    <3>1. chan[q] # <<>> /\ chan' = [chan EXCEPT ![q] = Tail(@)]
      BY <2>3 DEF RunnerResponse, DrainResponse
    <3>2. CASE q = r
      BY <2>3, <3>1, <3>2 DEF Responds
    <3>3. CASE q # r
      BY <3>1, <3>3
    <3> QED BY <3>2, <3>3
  <2>4. CASE DrainPoll(q)
    BY <1>1, <2>4 DEF DrainPoll, runVars
  <2> QED BY <1>2, <2>1, <2>2, <2>3, <2>4 DEF RunnerStep
<1>3. ASSUME NEW q \in RunID, StopProgram(q) \/ StopStep(q) \/ PendingStopWriteReturns(q)
      PROVE  UNCHANGED chan
  <2>1. CASE \/ StopProgram(q) \/ StopAcquires(q) \/ StopCannotAcquire(q) \/ StopHoldWritten(q)
             \/ StopMarksReset(q) \/ StopResetWritten(q) \/ StopWriteTimesOut(q)
             \/ PendingStopWriteReturns(q)
    BY <2>1 DEF StopProgram, StopAcquires, StopCannotAcquire, StopHoldWritten, StopMarksReset,
                StopResetWritten, StopWriteTimesOut, PendingStopWriteReturns, runVars
  <2>2. CASE StopVerifies(q) \/ StopBanner(q) \/ StopIdle(q) \/ StopFinishes(q) \/ StopFails(q)
             \/ StopBaseline(q)
    BY <2>2 DEF StopVerifies, StopBanner, StopIdle, StopFinishes, StopFails, StopBaseline, runVars
  <2>3. CASE StopPoll(q)
    BY <1>1, <2>3 DEF StopPoll, runVars
  <2> QED BY <1>3, <2>1, <2>2, <2>3 DEF StopStep
<1>4. ASSUME NEW i \in 1..MaxClients,
             \/ BeginPause(i) \/ BeginResume(i) \/ ClientStep(i)
             \/ \E a \in Actions : BeginAction(i, a)
             \/ ActionStep(i)
      PROVE  UNCHANGED chan
  <2>1. CASE ClientStep(i)
    BY <2>1 DEF ClientStep, PauseAdmit, HoldWritten, HoldWriteFails, PauseReturns,
                ResumeAdmit, ResumeWritten, ResumeWriteFails, ResumeReturns, runVars
  <2>2. CASE BeginPause(i) \/ BeginResume(i) \/ \E a \in Actions : BeginAction(i, a)
    BY <2>2 DEF BeginPause, BeginResume, BeginAction, runVars
  <2>3. CASE ActionStep(i)
    BY <2>3 DEF ActionStep, ActionAdmit, ActionReturns, runVars
  <2> QED BY <1>4, <2>1, <2>2, <2>3
<1>5. ASSUME NEW g \in Generation, BeginStatusPoll(g) \/ EndStatusPoll(g) \/ VerifierStep(g)
      PROVE  UNCHANGED chan
  <2>1. CASE BeginStatusPoll(g) \/ EndStatusPoll(g) \/ VerifierIdle(g) \/ VerifierConcludes(g)
             \/ VerifierBaseline(g)
    BY <2>1 DEF BeginStatusPoll, EndStatusPoll, VerifierIdle, VerifierConcludes,
                VerifierBaseline, runVars
  <2>2. CASE VerifierPoll(g)
    BY <1>1, <2>2 DEF VerifierPoll, runVars
  <2> QED BY <1>5, <2>1, <2>2 DEF VerifierStep
<1>6. CASE Connect \/ ConnectorStep
  BY <1>6 DEF Connect, ConnectorStep, OpenPort, OpenFails, NoteOpen, Validated, ValidationFails,
              CommitConnect, SuppressCandidate, CloseCandidate, AbandonConnect, runVars
<1>7. CASE Disconnect \/ CloserStep
  BY <1>7 DEF Disconnect, CloserStep, DisconnectStopsPolling, DisconnectDrains,
              DisconnectCloses, DisconnectFails, DisconnectReleases, DisconnectClears, runVars
<1>8. CASE BridgeLine
  <2> DEFINE ev == Head(rx)
             x == IF IsFailure(ev) THEN "fail" ELSE "ok"
             q == ctl.run.id
  <2>1. ev \in RxEvent /\ rx # <<>> /\ ev.gen = ctl.gen
    BY <1>8, NextEventType DEF BridgeLine, BridgeAccepts, BridgeReads, NextEvent
  <2>2. \/ UNCHANGED chan
        \/ /\ ev.kind # "banner" /\ chan' = [chan EXCEPT ![q] = Append(@, x)]
    BY <1>8 DEF BridgeLine, NextEvent
  <2>3. ev.kind # "disconnected" /\ ev.kind \notin {"Idle", "Run", "Hold", "Alarm"}
    BY <1>8 DEF BridgeLine, BridgeAccepts, IsInput, IsStatus, NextEvent
  <2>4. x \in {"ok", "fail"} /\ (ev.kind # "banner" /\ x = "ok" => ev.kind = "ok")
    BY <2>1, <2>3 DEF IsFailure, IsAlarm, RxEvent, RxKind
  <2> HIDE DEF x, ev
  <2>5. CASE q = r
    <3>1. chan'[r] = chan[r] \/ (ev.kind # "banner" /\ chan'[r] = Append(chan[r], x))
      BY <2>2, <2>5
    <3> QED BY <1>8, <2>1, <2>4, <2>5, <3>1 DEF Hands, ev
  <2>6. CASE q # r
    BY <2>2, <2>6
  <2> QED BY <2>5, <2>6
<1>9. CASE BridgeStep \/ WatchdogEStop
  BY <1>8, <1>9 DEF BridgeStep, BridgeDiscards, BridgeEStop, BridgeStatus, BridgeFailsRun,
              BridgeIgnoresDisconnect, BridgeDisconnected, BridgeClears, WatchdogEStop, runVars
<1>10. CASE Machine \/ PortDrops \/ \E p \in Writers : WriteStalls(p)
  BY <1>10 DEF Machine, PortDrops, WriteStalls, runVars
<1>11. CASE UNCHANGED vars
  BY <1>11 DEF vars
<1> QED BY <1>2, <1>3, <1>4, <1>5, <1>6, <1>7, <1>9, <1>10, <1>11 DEF Next

\* A runner comes to a label where nothing of its program is unanswered from another
\* one or from the ok of its line.
Settled == {"gate", "admit", "blocked", "write", "drain", "drainGate", "baseline",
            "pollAdmit", "pollWrite", "waitIdle", "check", "finish"}

LEMMA RunnerSettles ==
  ASSUME PcOK, NEW r \in RunID, StartProgram(r) \/ RunnerStep(r)
  PROVE  LET p == Runner(r) IN
         /\ pc'[p] # "off"
         /\ pc'[p] \in Settled => \/ StartProgram(r) \/ pc[p] \in Settled
                                  \/ RunnerResponse(r) /\ Head(chan[r]) = "ok"
         /\ pc'[p] \in {"check", "finish"} => pc[p] = "check"
                \/ (pc[p] = "waitIdle" /\ FreshReport(p, "Idle"))
         /\ pc'[p] \in Awaits => pc[p] \in Awaits \/ p \notin fresh'
<1> DEFINE p == Runner(r)
<1> p \in Procs
  BY Identities
<1>1. \A l : Goto(p, l) => pc'[p] = l
  BY GotoHere
<1> HIDE DEF p
<1>2. CASE StartProgram(r)
  BY <1>1, <1>2 DEF p, StartProgram, Awaits
<1>3. CASE RunnerGate(r) \/ RunnerAdmit(r) \/ RunnerUnblocked(r)
  BY <1>1, <1>3 DEF p, RunnerGate, RunnerAdmit, RunnerUnblocked, Settled, Awaits
<1>4. CASE LineWritten(r) \/ LineWriteFails(r) \/ RunnerCancelled(r)
  BY <1>1, <1>4 DEF p, LineWritten, LineWriteFails, RunnerCancelled, Settled, Awaits
<1>5. CASE RunnerResponse(r)
  <2>1. \/ Head(chan[r]) = "ok" /\ pc'[p] \in {"gate", "drain"}
        \/ pc'[p] = "fail"
    BY <1>1, <1>5 DEF p, RunnerResponse, AfterLine
  <2> QED BY <1>5, <2>1 DEF p, Settled, Awaits
<1>6. CASE BeginProgramDraining(r) \/ DrainGate(r)
  BY <1>1, <1>6 DEF p, BeginProgramDraining, DrainGate, Settled, Awaits
<1>7. CASE DrainBaseline(r)
  <2>1. \/ pc'[p] = "pollAdmit" /\ p \notin fresh'
        \/ pc'[p] = "fail"
    BY <1>1, <1>7 DEF p, DrainBaseline, TakeBaseline
  <2> QED BY <1>7, <2>1 DEF p, DrainBaseline, Settled, Awaits
<1>8. CASE DrainPoll(r)
  <2>1. CASE PollAdmitted(p) \/ PollWritten(p) \/ PollWriteFails(p, "fail")
    <3>1. pc[p] \in Awaits /\ pc'[p] \in {"waitIdle", "pollWrite", "fail"}
      BY <2>1, PollGoes DEF Awaits
    <3> QED BY <3>1 DEF p, Settled, Awaits
  <2>2. CASE Goto(p, "fail")
    BY <1>1, <2>2 DEF p, Settled, Awaits
  <2> QED BY <1>8, <2>1, <2>2 DEF p, DrainPoll
<1>9. CASE DrainIdle(r) \/ DrainCheck(r)
  BY <1>1, <1>9 DEF p, DrainIdle, DrainCheck, Settled, Awaits
<1>10. CASE DrainResponse(r)
  BY <1>1, <1>10 DEF p, DrainResponse, Settled, Awaits
<1>11. CASE RunnerFinish(r) \/ RunnerFail(r)
  BY <1>1, <1>11 DEF p, RunnerFinish, RunnerFail, Settled, Awaits
<1> QED BY <1>2, <1>3, <1>4, <1>5, <1>6, <1>7, <1>8, <1>9, <1>10, <1>11 DEF RunnerStep, p

-----------------------------------------------------------------------------
(* The machine drained, still, and quiet. *)

Linked == port # 0 /\ ctl.gen = port

\* The ok of a line, on its way to the bridge.
Ack(i) == rx[i].kind = "ok" /\ rx[i].gen = port
Drained == dev.lines = 0 /\ \A i \in DOMAIN rx : ~Ack(i)
\* Nothing that a program sent moves the machine, waits in it, is unanswered by it or
\* is on its way to it.
Quiet == ~dev.motion /\ Drained /\ \A r \in RunID : ~Sends(r)

SamePort == port' = port /\ port # 0
Silent == \A r \in RunID : ~Sends(r)

LEMMA FlowsHere ==
  ASSUME Flow, SamePort
  PROVE  \/ UNCHANGED dev /\ Keeps
         \/ UNCHANGED dev /\ Loses /\ BridgeReads /\ BridgeStep
         \/ Accepts \/ Rejects \/ Halts \/ Alarms \/ Resets \/ Reports \/ Reacted \/ Loads
BY DEF Flow, SamePort, OpenPort

LEMMA NothingLoads == Silent => ~Loads
BY DEF Silent, Loads

\* What a report can say.
LEMMA StatusSays ==
  /\ StatusOf(dev) \in {"Alarm", "Hold", "Run", "Idle"}
  /\ dev.alarm => StatusOf(dev) = "Alarm"
  /\ dev.motion => StatusOf(dev) # "Idle"
BY DEF StatusOf

NoAcks == \A i \in DOMAIN rx : ~Ack(i)

LEMMA NoAcksStay ==
  ASSUME Flow, SamePort, NoAcks, ~Accepts
  PROVE  NoAcks'
<1>1. CASE Keeps
  BY <1>1 DEF Keeps, NoAcks, Ack, SamePort
<1>2. CASE Loses
  BY <1>2 DEF Loses, NoAcks, Ack, SamePort
<1>3. ASSUME NEW K, Grows(K), "ok" \notin K
      PROVE  NoAcks'
  BY <1>3 DEF Grows, Added, NoAcks, Ack, SamePort
<1>4. CASE Rejects \/ Halts \/ Alarms \/ Resets \/ Reacted \/ Loads
  BY <1>3, <1>4 DEF Rejects, Halts, Alarms, Resets, Reacted, Loads
<1>5. CASE Reports
  BY <1>3, <1>5, StatusSays DEF Reports
<1> QED BY <1>1, <1>2, <1>4, <1>5, FlowsHere

LEMMA EmptyStays ==
  ASSUME Flow, SamePort, ~Loads, dev.lines = 0
  PROVE  dev'.lines = 0 /\ (~dev.motion => ~dev'.motion)
BY FlowsHere DEF Accepts, Rejects, Halts, Alarms, Resets, Reports, Reacted, SameMotion

LEMMA DrainedStays ==
  ASSUME Flow, SamePort, ~Loads, Drained
  PROVE  Drained'
<1>1. ~Accepts
  BY DEF Accepts, Drained
<1> QED BY <1>1, EmptyStays, NoAcksStay DEF Drained, NoAcks

-----------------------------------------------------------------------------
(* What follows an Idle report in the queue. *)

\* Behind every Idle report of this connection comes an event of one of these kinds.
Followed(kinds) ==
  \A i \in DOMAIN rx : rx[i].kind = "Idle" /\ rx[i].gen = port =>
    \E j \in DOMAIN rx : j > i /\ rx[j].kind \in kinds /\ rx[j].gen = port

LEMMA FollowedStays ==
  ASSUME rx \in Seq(RxEvent), rx' \in Seq(RxEvent), SamePort, NEW kinds, Followed(kinds),
         \/ Keeps \/ Loses
         \/ \E K : Grows(K) /\ "Idle" \notin K
  PROVE  Followed(kinds)'
<1> DOMAIN rx \subseteq Int /\ DOMAIN rx' \subseteq Int
  OBVIOUS
<1>1. CASE Keeps
  BY <1>1 DEF Keeps, Followed, SamePort
<1>2. CASE Loses
  <2> SUFFICES ASSUME NEW i \in DOMAIN rx', rx'[i].kind = "Idle", rx'[i].gen = port'
               PROVE  \E j \in DOMAIN rx' : j > i /\ rx'[j].kind \in kinds /\ rx'[j].gen = port'
    BY DEF Followed
  <2>1. i + 1 \in DOMAIN rx /\ rx'[i] = rx[i + 1] /\ i \in Int
    BY <1>2 DEF Loses
  <2>2. PICK j \in DOMAIN rx : j > i + 1 /\ rx[j].kind \in kinds /\ rx[j].gen = port
    BY <2>1 DEF Followed, SamePort
  <2>3. j \in Int /\ i >= 1
    OBVIOUS
  <2>4. j - 1 \in DOMAIN rx' /\ rx'[j - 1] = rx[(j - 1) + 1] /\ (j - 1) + 1 = j /\ j - 1 > i
    BY <1>2, <2>1, <2>2, <2>3 DEF Loses
  <2> QED BY <2>2, <2>4 DEF SamePort
<1>3. ASSUME NEW K, Grows(K), "Idle" \notin K
      PROVE  Followed(kinds)'
  BY <1>3 DEF Grows, Added, Followed, SamePort
<1> QED BY <1>1, <1>2, <1>3

LEMMA FollowedNow ==
  ASSUME rx \in Seq(RxEvent), SamePort, NEW kinds, NEW K, Grows(K), "Idle" \notin K,
         K \cap kinds # {}
  PROVE  Followed(kinds)'
<1>1. PICK k \in K : k \in kinds
  OBVIOUS
<1>2. PICK j \in Added : rx'[j].kind = k /\ rx'[j].gen = port /\ \A i \in DOMAIN rx : i < j
  BY <1>1 DEF Grows, SamePort
<1>3. j \in DOMAIN rx'
  BY DEF Added
<1>4. \A i \in DOMAIN rx' : rx'[i].kind = "Idle" => i \in DOMAIN rx /\ i \in Int
  BY DEF Grows, Added
<1>5. j \in Int => \A i \in DOMAIN rx : j > i
  BY <1>2
<1> QED BY <1>1, <1>2, <1>3, <1>4, <1>5 DEF Followed, SamePort

AlarmKinds == {"alarm", "alarm3", "alarm50"}
\* A moving machine reports Idle no more: behind an Idle it is still to acknowledge the
\* line that set it in motion.  A locked one has told so behind every Idle.
IdleIsOld == /\ port # 0 /\ dev.motion => Followed({"ok"})
             /\ port # 0 /\ dev.alarm => Followed(AlarmKinds)

LEMMA IdleIsOldNext ==
  ASSUME TypeInv, TypeInv', Flow, IdleIsOld
  PROVE  IdleIsOld'
<1> rx \in Seq(RxEvent) /\ rx' \in Seq(RxEvent)
  BY DEF TypeInv, LinkOK
<1>1. CASE port' = 0
  BY <1>1 DEF IdleIsOld
<1>2. CASE OpenPort
  BY <1>2 DEF OpenPort, IdleIsOld, AtRest
<1>3. CASE port' # 0 /\ ~OpenPort
  <2>1. SamePort
    BY <1>3 DEF Flow, SamePort
  <2> DEFINE kept == Keeps \/ Loses \/ \E K : Grows(K) /\ "Idle" \notin K
  <2>2. kept => \A kinds : Followed(kinds) => Followed(kinds)'
    BY <2>1, FollowedStays
  <2>3. \A k \in {"ok"} \cup AlarmKinds : Grows({k}) => kept
    BY DEF AlarmKinds
  <2>4. Grows({}) \/ Grows({"error"}) \/ Grows({"banner"}) \/ Grows({"alarm3", "banner"})
        \/ (Grows({StatusOf(dev)}) /\ (dev.motion \/ dev.alarm)) => kept
    BY StatusSays
  <2> HIDE DEF kept
  <2>5. ASSUME dev'.motion
        PROVE  Followed({"ok"})'
    <3>1. CASE Accepts
      <4>1. Grows({"ok"}) /\ {"ok"} \cap {"ok"} # {} /\ "Idle" \notin {"ok"}
        BY <3>1 DEF Accepts
      <4> QED BY <2>1, <4>1, FollowedNow
    <3>2. CASE ~Accepts
      <4>1. dev.motion /\ kept
        BY <2>1, <2>4, <2>5, <3>2, FlowsHere DEF Rejects, Halts, Alarms, Resets, Reports, Reacted,
           Loads, SameMotion, kept
      <4> QED BY <2>1, <2>2, <4>1 DEF IdleIsOld, SamePort
    <3> QED BY <3>1, <3>2
  <2>6. ASSUME dev'.alarm
        PROVE  Followed(AlarmKinds)'
    <3>1. CASE \E k \in AlarmKinds : Grows({k}) \/ Grows({k, "banner"})
      <4>1. PICK k \in AlarmKinds : Grows({k}) \/ Grows({k, "banner"})
        BY <3>1
      <4>2. k # "Idle" /\ {k} \cap AlarmKinds # {} /\ {k, "banner"} \cap AlarmKinds # {}
        BY DEF AlarmKinds
      <4> QED BY <2>1, <4>1, <4>2, FollowedNow
    <3>2. CASE ~\E k \in AlarmKinds : Grows({k}) \/ Grows({k, "banner"})
      <4>1. ~Alarms /\ ~Resets /\ ~Accepts
        BY <2>6, <3>2 DEF Alarms, Resets, Accepts, AlarmKinds
      <4>2. dev.alarm /\ kept
        BY <2>1, <2>4, <2>6, <4>1, FlowsHere DEF Rejects, Halts, Reports, Reacted,
           Loads, SameMotion, kept
      <4> QED BY <2>1, <2>2, <4>2 DEF IdleIsOld, SamePort
    <3> QED BY <3>1, <3>2
  <2> QED BY <2>5, <2>6 DEF IdleIsOld
<1> QED BY <1>1, <1>2, <1>3

-----------------------------------------------------------------------------
(* An alarm is told. *)

AlarmComing == \E i \in DOMAIN rx : IsAlarm(rx[i]) /\ rx[i].gen = port

LEMMA AlarmTold ==
  ASSUME rx \in Seq(RxEvent), Flow, SamePort, ~dev.alarm \/ AlarmComing
  PROVE  \/ ~dev'.alarm
         \/ AlarmComing'
         \/ /\ BridgeStep /\ BridgeReads /\ UNCHANGED dev
            /\ IsAlarm(NextEvent) /\ NextEvent.gen = port
<1>1. \A K : Grows(K) /\ AlarmComing => AlarmComing'
  BY DEF Grows, AlarmComing, IsAlarm, SamePort
<1>2. \A K : Grows(K) /\ K \cap AlarmKinds # {} => AlarmComing'
  <2>1. ASSUME NEW K, Grows(K), NEW k \in K, k \in AlarmKinds
        PROVE  AlarmComing'
    <3>1. PICK j \in Added : rx'[j].kind = k /\ rx'[j].gen = port
      BY <2>1 DEF Grows, SamePort
    <3> QED BY <2>1, <3>1 DEF AlarmComing, IsAlarm, AlarmKinds, SamePort, Added
  <2> QED BY <2>1
<1>3. CASE UNCHANGED dev /\ Keeps
  BY <1>3 DEF Keeps, AlarmComing, IsAlarm, SamePort
<1>4. CASE UNCHANGED dev /\ Loses /\ BridgeReads /\ BridgeStep
  <2>1. CASE ~AlarmComing
    BY <1>4, <2>1
  <2>2. CASE AlarmComing
    <3>1. PICK i \in DOMAIN rx : IsAlarm(rx[i]) /\ rx[i].gen = port
      BY <2>2 DEF AlarmComing
    <3>2. CASE i = 1
      BY <1>4, <3>1, <3>2, TakenLoses DEF BridgeReads, NextEvent
    <3>3. CASE i # 1
      <4>1. i - 1 \in DOMAIN rx' /\ rx'[i - 1] = rx[(i - 1) + 1] /\ i \in Int
        BY <1>4, <3>3 DEF Loses
      <4>2. (i - 1) + 1 = i
        BY <4>1
      <4> QED BY <3>1, <4>1, <4>2 DEF AlarmComing, IsAlarm, SamePort
    <3> QED BY <3>2, <3>3
  <2> QED BY <2>1, <2>2
<1>5. CASE Alarms
  <2>1. {"alarm"} \cap AlarmKinds # {} /\ {"alarm50"} \cap AlarmKinds # {}
    BY DEF AlarmKinds
  <2> QED BY <1>2, <1>5, <2>1 DEF Alarms
<1>6. CASE Resets
  <2>1. {"alarm3", "banner"} \cap AlarmKinds # {}
    BY DEF AlarmKinds
  <2> QED BY <1>2, <1>6, <2>1 DEF Resets
<1>7. CASE Accepts
  BY <1>7 DEF Accepts
<1>8. CASE Rejects \/ Halts \/ Reports \/ Reacted \/ Loads
  BY <1>1, <1>8 DEF Rejects, Halts, Reports, Reacted, Loads, SameMotion
<1> QED BY <1>3, <1>4, <1>5, <1>6, <1>7, <1>8, FlowsHere

-----------------------------------------------------------------------------
(* Who gets where. *)

\* A line is on its way from the moment the runner submits it.
LEMMA SendsFrom ==
  ASSUME RInv, [Next]_vars, Passes, NEW r \in RunID, Sends(r)'
  PROVE  \/ Sends(r)
         \/ /\ pc[Runner(r)] = "admit" /\ MayWriteLine(ctl, r)
            /\ ctl' = [Reserve(ctl, Runner(r)) EXCEPT !.run.work = TRUE]
<1> DEFINE p == Runner(r)
<1> PcOK /\ p \in Procs /\ p \in Writers
  BY Identities DEF RInv, IInv, TypeInv
<1>1. pc'[p] = "write" /\ Owns(p)'
  BY DEF Sends
<1>2. CASE pc'[p] = pc[p]
  BY <1>1, <1>2 DEF Passes, Sends
<1>3. CASE pc'[p] # pc[p]
  BY <1>1, <1>3, Stands, WhoActs, RunnerArrives
<1> QED BY <1>2, <1>3

\* While a connection is attempted none is current.
Attempting == pc[Connector] # "idle" => ctl.gen = 0

LEMMA ConnectorArrives ==
  ASSUME PcOK, Connect \/ ConnectorStep
  PROVE  /\ pc'[Connector] \in {"opened", "validate", "commit"} =>
              OpenPort \/ pc[Connector] \in {"opened", "validate", "commit"}
         /\ CommitConnect => pc'[Connector] = "idle" \/ UNCHANGED ctl
         /\ Connect => ~IsConnected(ctl)
         /\ ConnectorStep => pc[Connector] # "idle"
<1> Connector \in Procs
  BY Identities
<1>1. \A l : Goto(Connector, l) => pc'[Connector] = l
  BY GotoHere
<1>2. CASE Connect
  BY <1>1, <1>2 DEF Connect, Admitted, CommitConnect, ConnectorStep, OpenPort, OpenFails,
     NoteOpen, Validated, ValidationFails, SuppressCandidate, CloseCandidate, AbandonConnect
<1>3. CASE CommitConnect
  <2>1. pc'[Connector] \in {"close", "idle"} /\ (pc'[Connector] = "idle" \/ UNCHANGED ctl)
    <3>1. CASE ctl.attemptErr
      BY <1>1, <1>3, <3>1 DEF CommitConnect
    <3>2. CASE ~ctl.attemptErr
      <4>1. Connector # Poller(opened) /\ Connector # Verifier(opened)
        BY DEF Connector, Poller, Verifier
      <4> QED BY <1>3, <3>2, <4>1 DEF CommitConnect, PcOK
    <3> QED BY <3>1, <3>2
  <2> QED BY <1>3, <2>1 DEF Connect, CommitConnect
<1>4. CASE ConnectorStep /\ ~CommitConnect
  BY <1>1, <1>4 DEF Connect, ConnectorStep, OpenPort, OpenFails, NoteOpen, Validated,
     ValidationFails, SuppressCandidate, CloseCandidate, AbandonConnect
<1> QED BY <1>2, <1>3, <1>4

LEMMA AttemptingNext ==
  ASSUME IInv, Attempting, [Next]_vars
  PROVE  Attempting'
<1> PcOK /\ Connector \in Procs /\ Safe
  BY Identities DEF IInv, TypeInv
<1> SUFFICES ASSUME pc'[Connector] # "idle" PROVE ctl'.gen = 0
  BY DEF Attempting
<1>1. CASE CommitConnect
  BY <1>1, ConnectorArrives DEF ConnectorStep, Attempting
<1>2. CASE ~CommitConnect
  <2>1. ctl.gen = 0
    <3>1. CASE pc[Connector] # "idle"
      BY <3>1 DEF Attempting
    <3>2. CASE pc[Connector] = "idle"
      <4>1. Connect \/ ConnectorStep
        BY <3>2, Stands, WhoActs
      <4> QED BY <3>2, <4>1, ConnectorArrives DEF Safe, LifecycleOwned
    <3> QED BY <3>1, <3>2
  <2> QED BY <1>2, <2>1, GenFrom
<1> QED BY <1>1, <1>2

\* Without a commit a connection to the open port is what it was.
LEMMA LinkFrom ==
  ASSUME IInv, Attempting, Flow, [Next]_vars, Linked'
  PROVE  \/ CommitConnect
         \/ Linked /\ SamePort /\ ctl'.gen = ctl.gen /\ ~CommitConnect
<1>1. CASE CommitConnect
  BY <1>1
<1>2. CASE ~CommitConnect
  <2>1. ctl'.gen = ctl.gen /\ ctl.gen # 0 /\ port' # 0
    BY <1>2, GenFrom DEF Linked
  <2>2. ~OpenPort
    BY <2>1 DEF OpenPort, Attempting
  <2> QED BY <1>2, <2>1, <2>2 DEF Flow, Linked, SamePort
<1> QED BY <1>1, <1>2

\* No run, no Stop and no program status while a connection is committed.
LEMMA CommitsIdle ==
  ASSUME IInv, CommitConnect
  PROVE  /\ RunOver /\ ctl'.run = ctl.run /\ ctl'.status = ctl.status /\ ctl'.stop = ctl.stop
         /\ ctl.transition = "connecting" /\ UNCHANGED <<port, opened, rx, dev>>
<1>1. pc[Connector] = "commit"
  BY DEF CommitConnect
<1>2. ctl.transition = "connecting" /\ ctl \in Controller /\ TypeInv /\ Safe
  BY <1>1 DEF IInv, TypeInv, Safe, LifecycleOwned
<1> QED BY <1>2, GivenLink, TransitionHasNoRun DEF CommitConnect, linkVars

LEMMA StopperArrives ==
  ASSUME PcOK, NEW r \in RunID, StopProgram(r) \/ StopStep(r)
  PROVE  LET p == Stopper(r) IN
         /\ pc'[p] = "reset" => StopMarksReset(r) /\ StopCurrent(ctl, r)
         /\ pc'[p] = "verify" => /\ pc[p] = "reset" /\ Delivered(p, "reset")
         /\ pc'[p] = "banner" => pc[p] = "verify"
         /\ pc'[p] = "baseline" => pc[p] = "banner" /\ ctl.stop.banner
         /\ pc'[p] \in Awaits => pc[p] \in Awaits \/ (pc[p] = "baseline" /\ p \notin fresh')
         /\ pc'[p] = "finish" => pc[p] = "waitIdle" /\ FreshReport(p, "Idle")
<1> DEFINE p == Stopper(r)
<1> p \in Procs
  BY Identities
<1>1. \A l : Goto(p, l) => pc'[p] = l
  BY GotoHere
<1> HIDE DEF p
<1>2. CASE StopProgram(r) \/ StopAcquires(r) \/ StopCannotAcquire(r)
  BY <1>1, <1>2 DEF p, StopProgram, StopAcquires, StopCannotAcquire, Awaits
<1>3. CASE StopHoldWritten(r) \/ StopWriteTimesOut(r)
  BY <1>1, <1>3 DEF p, StopHoldWritten, StopWriteTimesOut, Awaits
<1>4. CASE StopMarksReset(r)
  <2>1. \/ pc'[p] \in {"reset", "resetErr"} /\ StopCurrent(ctl, r)
        \/ pc'[p] = "done"
    BY <1>1, <1>4 DEF p, StopMarksReset
  <2> QED BY <1>4, <2>1 DEF p, Awaits
<1>5. CASE StopResetWritten(r)
  <2>1. \/ pc'[p] = "verify" /\ pc[p] = "reset" /\ Delivered(p, "reset")
        \/ pc'[p] = "fail"
    BY <1>1, <1>5 DEF p, StopResetWritten
  <2> QED BY <1>5, <2>1 DEF p, Awaits
<1>6. CASE StopVerifies(r) \/ StopBanner(r)
  BY <1>1, <1>6 DEF p, StopVerifies, StopBanner, Awaits
<1>7. CASE StopBaseline(r)
  <2>1. \/ pc'[p] = "pollAdmit" /\ p \notin fresh'
        \/ pc'[p] = "fail"
    BY <1>1, <1>7 DEF p, StopBaseline, TakeBaseline
  <2> QED BY <1>7, <2>1 DEF p, StopBaseline, Awaits
<1>8. CASE StopPoll(r)
  <2>1. CASE PollAdmitted(p) \/ PollWritten(p) \/ PollWriteFails(p, "fail")
    <3>1. pc[p] \in Awaits /\ pc'[p] \in {"waitIdle", "pollWrite", "fail"}
      BY <2>1, PollGoes DEF Awaits
    <3> QED BY <3>1 DEF p, Awaits
  <2>2. CASE Goto(p, "fail")
    BY <1>1, <2>2 DEF p, Awaits
  <2> QED BY <1>8, <2>1, <2>2 DEF p, StopPoll
<1>9. CASE StopIdle(r) \/ StopFinishes(r) \/ StopFails(r)
  BY <1>1, <1>9 DEF p, StopIdle, StopFinishes, StopFails, Awaits
<1> QED BY <1>2, <1>3, <1>4, <1>5, <1>6, <1>7, <1>8, <1>9 DEF StopStep, p

LEMMA VerifierArrives ==
  ASSUME PcOK, NEW g \in Generation, VerifierStep(g)
  PROVE  LET p == Verifier(g) IN
         /\ pc'[p] \in Awaits => pc[p] \in Awaits \/ p \notin fresh'
         /\ pc'[p] = "verified" => pc[p] = "waitIdle" /\ FreshReport(p, "Idle")
<1> DEFINE p == Verifier(g)
<1> p \in Procs
  BY Identities
<1>1. \A l : Goto(p, l) => pc'[p] = l
  BY GotoHere
<1> HIDE DEF p
<1>2. CASE VerifierBaseline(g)
  <2>1. \/ pc'[p] = "pollAdmit" /\ p \notin fresh'
        \/ pc'[p] = "unverified"
    BY <1>1, <1>2 DEF p, VerifierBaseline, TakeBaseline
  <2> QED BY <2>1 DEF p, Awaits
<1>3. CASE VerifierPoll(g)
  <2>1. CASE PollAdmitted(p) \/ PollWritten(p) \/ PollWriteFails(p, "unverified")
    <3>1. pc[p] \in Awaits /\ pc'[p] \in {"waitIdle", "pollWrite", "unverified"}
      BY <2>1, PollGoes DEF Awaits
    <3> QED BY <3>1 DEF p, Awaits
  <2>2. CASE Goto(p, "unverified")
    BY <1>1, <2>2 DEF p, Awaits
  <2> QED BY <1>3, <2>1, <2>2 DEF p, VerifierPoll
<1>4. CASE VerifierIdle(g) \/ VerifierConcludes(g)
  BY <1>1, <1>4 DEF p, VerifierIdle, VerifierConcludes, Awaits
<1> QED BY <1>2, <1>3, <1>4 DEF VerifierStep, p

-----------------------------------------------------------------------------
(* What the bridge makes of a banner, an alarm and a report. *)

LEMMA NoteAlarmFields ==
  ASSUME NEW c \in Controller, NEW is3
  PROVE  LET d == NoteAlarm(c, is3) IN
         /\ d.stop.run = c.stop.run /\ d.stop.banner = c.stop.banner
         /\ d.stop.reset = c.stop.reset
         /\ d.alarmed \/ (is3 /\ ForgivesAlarm3(c))
         /\ c.stop.run # 0 /\ c.stop.gen = c.gen =>
              d.stop.invalid \/ (is3 /\ ForgivesAlarm3(c))
<1> DEFINE x == c.stop.invalid \/ (c.stop.run # 0 /\ c.stop.gen = c.gen)
<1>1. NoteAlarm(c, is3) = IF is3 /\ ForgivesAlarm3(c)
                          THEN [c EXCEPT !.stop.alarm3 = TRUE]
                          ELSE [c EXCEPT !.alarmed = TRUE, !.stop.invalid = x]
  BY DEF NoteAlarm
<1>2. c.stop.run # 0 /\ c.stop.gen = c.gen => x
  OBVIOUS
<1> HIDE DEF x
<1>3. LET d == [c EXCEPT !.stop.alarm3 = TRUE] IN
      d.stop.run = c.stop.run /\ d.stop.banner = c.stop.banner /\ d.stop.reset = c.stop.reset
  BY DEF Controller, StopType
<1>4. LET d == [c EXCEPT !.alarmed = TRUE, !.stop.invalid = x] IN
      /\ d.stop.run = c.stop.run /\ d.stop.banner = c.stop.banner
      /\ d.stop.reset = c.stop.reset /\ d.alarmed = TRUE /\ d.stop.invalid = x
  BY DEF Controller, StopType
<1> QED BY <1>1, <1>2, <1>3, <1>4

LEMMA NoteBannerFields ==
  ASSUME NEW c \in Controller, NEW recent
  PROVE  LET d == NoteResetBanner(c, recent) IN
         /\ d.stop.banner = c.stop.banner \/ (c.stop.reset /\ recent)
         /\ c.stop.banner => d.stop.banner
BY DEF NoteResetBanner, Controller, StopType

LEMMA ReportFields ==
  ASSUME NEW c \in Controller, NEW state \in MachineState
  PROVE  LET d == NoteStatusReport(c, state) IN
         d.machine = state /\ d.stop.banner = c.stop.banner
<1> DEFINE d == IF state = "Alarm" THEN NoteAlarm(c, FALSE) ELSE c
           e == [d EXCEPT !.machine = state]
<1>1. d.stop.banner = c.stop.banner /\ d \in Controller
  BY NoteAlarmType, NoteAlarmFields
<1> HIDE DEF d
<1>2. e.machine = state /\ e.stop = d.stop /\ e \in Controller
  BY <1>1 DEF Controller
<1> HIDE DEF e
<1>3. /\ NoteStatusResponse(e, state).machine = e.machine
      /\ NoteStatusResponse(e, state).stop = e.stop
  BY <1>2 DEF NoteStatusResponse, Controller
<1> QED BY <1>1, <1>2, <1>3 DEF NoteStatusReport, d, e

\* A banner completes the Stop's reset only if it was read after the reset.
LEMMA BannerFrom ==
  ASSUME IInv, BridgeLine \/ BridgeStatus
  PROVE  /\ ctl.stop.banner => ctl'.stop.banner
         /\ \/ ctl'.stop.banner = ctl.stop.banner
            \/ /\ BridgeReads /\ NextEvent.kind = "banner" /\ NextEvent.new
               /\ NextEvent.gen = ctl.gen /\ ctl.stop.reset
<1> ctl \in Controller
  BY DEF IInv, TypeInv
<1>1. CASE BridgeStatus
  <2>1. NextEvent.kind \in MachineState /\ ctl' = NoteStatusReport(ctl, NextEvent.kind)
    BY <1>1 DEF BridgeStatus, IsStatus, MachineState
  <2> QED BY <2>1, ReportFields
<1>2. CASE BridgeLine
  <2>1. /\ ctl' = NoteInput(ctl, NextEvent) /\ BridgeReads /\ NextEvent.gen = ctl.gen
    BY <1>2 DEF BridgeLine, BridgeAccepts
  <2>2. CASE IsAlarm(NextEvent)
    BY <2>1, <2>2, NoteAlarmFields DEF NoteInput
  <2>3. CASE ~IsAlarm(NextEvent) /\ NextEvent.kind = "banner"
    <3>1. ctl' = NoteResetBanner(ctl, NextEvent.new)
      BY <2>1, <2>3 DEF NoteInput
    <3> QED BY <2>1, <2>3, <3>1, NoteBannerFields
  <2>4. CASE ~IsAlarm(NextEvent) /\ NextEvent.kind # "banner"
    BY <2>1, <2>4 DEF NoteInput
  <2> QED BY <2>2, <2>3, <2>4
<1> QED BY <1>1, <1>2

\* An alarm of the current connection is noted, unless a Stop forgives it.
LEMMA AlarmHeard ==
  ASSUME IInv, Attempting, BridgeStep, BridgeReads, IsAlarm(NextEvent),
         NextEvent.gen = ctl.gen, ctl.gen # 0
  PROVE  /\ ctl'.alarmed \/ ForgivesAlarm3(ctl)
         /\ ctl'.stop.run # 0 /\ ctl.stop.run # 0 /\ ctl.stop.gen = ctl.gen =>
              ctl'.stop.invalid \/ ForgivesAlarm3(ctl)
<1> ctl \in Controller /\ Safe
  BY DEF IInv, TypeInv
<1>1. ctl.transition # "connecting" /\ IsInput(NextEvent) /\ ~IsStatus(NextEvent)
  BY DEF Attempting, Safe, LifecycleOwned, IsAlarm, IsInput, IsStatus
<1>2. CASE BridgeLine
  BY <1>2, NoteAlarmFields DEF BridgeLine, NoteInput
<1>3. CASE BridgeEStop
  <2> DEFINE c == NoteAlarm(ctl, FALSE)
  <2>1. ctl' = EnterEStop(c)
    BY <1>3 DEF BridgeEStop, NoteInput
  <2>2. c \in Controller /\ c.alarmed
    BY NoteAlarmType, NoteAlarmFields
  <2> HIDE DEF c
  <2>3. EnterEStop(c).alarmed = c.alarmed /\ EnterEStop(c).stop = NoStop /\ NoStop.run = 0
    BY <2>2 DEF EnterEStop, Controller, NoStop
  <2> QED BY <2>1, <2>2, <2>3
<1>4. ~BridgeDiscards /\ ~BridgeStatus /\ ~BridgeIgnoresDisconnect /\ ~BridgeDisconnected
  BY <1>1 DEF BridgeDiscards, BridgeStatus, BridgeIgnoresDisconnect, BridgeDisconnected
<1>5. ~BridgeFailsRun /\ ~BridgeClears
  BY DEF BridgeReads, BridgeFailsRun, BridgeClears
<1> QED BY <1>2, <1>3, <1>4, <1>5 DEF BridgeStep

-----------------------------------------------------------------------------
(***************************************************************************)
(* The invariant, part by part.                                            *)
(***************************************************************************)

\* No event is of a generation that is still to be opened.
Earlier == \A i \in DOMAIN rx : rx[i].gen <= opened
\* The current run's runner has started, and one that has not has no responses.
Started == \A r \in RunID : /\ ctl.run.id = r => pc[Runner(r)] # "off"
                            /\ pc[Runner(r)] = "off" => chan[r] = <<>>
\* A connection that is not committed yet leaves its machine alone.
CandidateQuiet == pc[Connector] \in {"opened", "validate", "commit"} /\ port # 0 => Quiet
\* Where the controller assumes that nothing of a program is in the machine, nothing is.
EaseIsRest == Linked /\ AtEase(ctl) => Quiet
Acked(i, r) == i \in DOMAIN chan[r] /\ chan[r][i] = "ok"
NoOks(r) == \A i \in DOMAIN chan[r] : ~Acked(i, r)
\* The line that the runner awaits is in the machine, or its ok is in the queue, or in
\* the session, or the line was rejected: at most one of these.
OneAck(r) ==
  /\ dev.lines <= 1
  /\ dev.lines = 1 => NoOks(r) /\ NoAcks
  /\ \A i \in DOMAIN rx : Ack(i) => NoOks(r) /\ \A j \in DOMAIN rx : Ack(j) => j = i
  /\ \A i, j \in DOMAIN chan[r] : Acked(i, r) /\ Acked(j, r) => i = j
Runs(r) == Linked /\ ctl.run.id = r /\ ctl.status \in Executing
RunAnswered ==
  \A r \in RunID : Runs(r) => /\ pc[Runner(r)] \in Settled => Drained /\ NoOks(r)
                              /\ pc[Runner(r)] = "await" => OneAck(r)
\* A goroutine that waits for a fresh Idle, and that one has come for.
Saw(p) == pc[p] \in Awaits /\ p \in fresh /\ ctl.machine = "Idle"
\* A run that has seen a fresh Idle has come to rest.
DrainIsStill ==
  \A r \in RunID : Runs(r) /\ (pc[Runner(r)] \in {"check", "finish"} \/ Saw(Runner(r)))
    => ~dev.motion
\* The banner that answers a Stop's Ctrl-X comes behind every ok of the stopped run.
BannerIsLast ==
  Linked /\ ctl.stop.run # 0 /\ ctl.stop.reset =>
    \A i \in DOMAIN rx : rx[i].kind = "banner" /\ rx[i].new /\ rx[i].gen = port =>
      dev.lines = 0 /\ \A j \in DOMAIN rx : j > i => ~Ack(j)
BannerDrains == ctl.stop.run # 0 /\ ctl.stop.banner => ctl.stop.reset /\ (Linked => Drained)
Verifying == {"verify", "banner", "baseline", "finish"} \cup Awaits
\* Past its Ctrl-X the coordinator of the current Stop has a machine without lines and
\* without motion, and past the wait for it, the banner.
StopIsStill ==
  \A r \in RunID : ctl.stop.run = r =>
    /\ pc[Stopper(r)] \in {"reset"} \cup Verifying => ctl.stop.reset
    /\ pc[Stopper(r)] \in Verifying => (Linked => dev.lines = 0 /\ ~dev.motion)
    /\ pc[Stopper(r)] \in {"baseline", "finish"} \cup Awaits => ctl.stop.banner
\* A verification that has seen a fresh Idle has no alarm, or will hear of it.
VerifierTold ==
  \A g \in Generation :
    Linked /\ ctl.gen = g /\ (Saw(Verifier(g)) \/ pc[Verifier(g)] = "verified")
      => ~dev.alarm \/ AlarmComing \/ ctl.alarmed
StopTold ==
  \A r \in RunID :
    Linked /\ ctl.stop.run = r /\ (Saw(Stopper(r)) \/ pc[Stopper(r)] = "finish")
      => ~dev.alarm \/ AlarmComing \/ ctl.stop.invalid

Resting == /\ RInv /\ Holding /\ StopHasSent
           /\ Attempting /\ Earlier /\ Started /\ IdleIsOld
           /\ CandidateQuiet /\ EaseIsRest /\ RunAnswered /\ DrainIsStill
           /\ BannerIsLast /\ BannerDrains /\ StopIsStill /\ VerifierTold /\ StopTold

LEMMA RestingParts ==
  ASSUME Resting, [Next]_vars
  PROVE  /\ IInv /\ TypeInv /\ PcOK /\ Safe /\ ctl \in Controller /\ Loaded /\ Flow
         /\ rx \in Seq(RxEvent) /\ DOMAIN rx \subseteq Nat
         /\ chan \in [RunID -> Seq({"ok", "fail"})]
<1>1. RInv /\ Loaded
  BY DEF Resting, Holding
<1>2. rx \in Seq(RxEvent) /\ chan \in [RunID -> Seq({"ok", "fail"})]
  BY <1>1 DEF RInv, IInv, TypeInv, LinkOK, RunsOK
<1> QED BY <1>1, <1>2, Flows DEF RInv, IInv, TypeInv

LEMMA EarlierNext ==
  ASSUME Resting, [Next]_vars
  PROVE  Earlier'
<1> TypeInv /\ Flow /\ rx \in Seq(RxEvent) /\ DOMAIN rx \subseteq Nat
  BY RestingParts
<1>1. port \in {0, opened} /\ opened \in Nat /\ Earlier
  BY BoundsAssumption DEF TypeInv, LinkOK, Resting
<1>2. \A i \in DOMAIN rx : rx[i].gen \in Nat
  <2>1. \A e \in RxEvent : e.gen \in Nat
    BY BoundsAssumption DEF RxEvent, Generation
  <2>2. \A i \in DOMAIN rx : rx[i] \in RxEvent
    OBVIOUS
  <2> QED BY <2>1, <2>2
<1>3. CASE UNCHANGED opened /\ Keeps
  BY <1>1, <1>3 DEF Keeps, Earlier
<1>4. CASE UNCHANGED opened /\ Loses
  BY <1>1, <1>4 DEF Loses, Earlier
<1>5. CASE OpenPort
  BY <1>1, <1>2, <1>5 DEF OpenPort, Earlier
<1>6. ASSUME NEW K, UNCHANGED opened, Grows(K)
      PROVE  Earlier'
  BY <1>1, <1>6 DEF Grows, Added, Earlier
<1> QED BY <1>3, <1>4, <1>5, <1>6
     DEF Flow, Accepts, Rejects, Halts, Alarms, Resets, Reports, Reacted, Loads

LEMMA StartedNext ==
  ASSUME Resting, [Next]_vars
  PROVE  Started'
<1> PcOK /\ ctl \in Controller /\ IInv /\ TypeInv /\ Started
  BY RestingParts DEF Resting
<1> SUFFICES ASSUME NEW r \in RunID
             PROVE  /\ ctl'.run.id = r => pc'[Runner(r)] # "off"
                    /\ pc'[Runner(r)] = "off" => chan'[r] = <<>>
  BY DEF Started
<1> DEFINE p == Runner(r)
<1> p \in Procs /\ r # 0
  BY Identities DEF RunID
<1>1. Acts(p) => pc'[p] # "off"
  BY WhoActs, RunnerSettles
<1>2. pc'[p] = "off" => pc[p] = "off"
  BY <1>1, Stands
<1>3. ctl'.run.id = r => ctl.run.id = r \/ StartProgram(r)
  BY RunHistory, GivenRun DEF RunFrom
<1>4. StartProgram(r) => Acts(p)
  BY DEF Acts
<1>5. ASSUME pc'[p] = "off"
      PROVE  chan'[r] = <<>>
  <2>1. pc[p] = "off" /\ chan[r] = <<>> /\ ctl.run.id # r
    BY <1>2, <1>5 DEF Started
  <2>2. ~Responds(r) /\ \A x : ~Hands(r, x)
    BY <2>1 DEF Responds, Hands
  <2> QED BY <2>1, <2>2, ChanFrom
<1> QED BY <1>1, <1>2, <1>3, <1>4, <1>5 DEF Started

LEMMA QuietStays ==
  ASSUME Flow, SamePort, Quiet, Silent'
  PROVE  Quiet'
<1>1. ~Loads
  BY NothingLoads DEF Quiet, Silent
<1>2. dev.lines = 0
  BY DEF Quiet, Drained
<1> QED BY <1>1, <1>2, EmptyStays, DrainedStays DEF Quiet, Silent

LEMMA CandidateQuietNext ==
  ASSUME Resting, RInv', [Next]_vars
  PROVE  CandidateQuiet'
<1> TypeInv /\ Flow /\ PcOK /\ rx \in Seq(RxEvent) /\ Connector \in Procs
  BY RestingParts, Identities
<1> SUFFICES ASSUME pc'[Connector] \in {"opened", "validate", "commit"}, port' # 0
             PROVE  Quiet'
  BY DEF CandidateQuiet
<1>1. Silent'
  <2>1. ctl'.write = Nobody /\ Reserved'
    BY DEF RInv, IInv, Safe, LifecycleOwned, Serial, Opening
  <2>2. \A r \in RunID : Runner(r) \in Writers /\ Runner(r) # Nobody
    BY Identities DEF Runner, Nobody
  <2> QED BY <2>1, <2>2 DEF Reserved, Silent, Sends
<1>2. CASE OpenPort
  <2>1. dev' = AtRest /\ rx' = rx /\ port' = opened + 1
    BY <1>2 DEF OpenPort
  <2>2. opened \in Nat /\ \A i \in DOMAIN rx : rx[i].gen <= opened
    BY BoundsAssumption DEF TypeInv, LinkOK, Resting, Earlier
  <2>3. \A i \in DOMAIN rx : rx[i].gen # opened + 1
    BY <2>2
  <2> QED BY <1>1, <2>1, <2>3 DEF Quiet, Drained, Ack, AtRest, Silent
<1>3. CASE ~OpenPort
  <2>1. SamePort
    BY <1>3 DEF Flow, SamePort
  <2>2. pc[Connector] \in {"opened", "validate", "commit"}
    BY <1>3, Stands, WhoActs, ConnectorArrives
  <2> QED BY <1>1, <2>1, <2>2, QuietStays DEF Resting, CandidateQuiet, SamePort
<1> QED BY <1>2, <1>3

LEMMA EaseIsRestNext ==
  ASSUME Resting, RInv', Passes, [Next]_vars
  PROVE  EaseIsRest'
<1> /\ TypeInv /\ Flow /\ PcOK /\ IInv /\ Safe /\ ctl \in Controller /\ RInv /\ Attempting
    /\ LinesOwned
  BY RestingParts DEF Resting, Holding
<1> SUFFICES ASSUME Linked', AtEase(ctl')
             PROVE  Quiet'
  BY DEF EaseIsRest
<1>1. CASE CommitConnect
  <2>1. pc[Connector] = "commit" /\ UNCHANGED <<port, rx, dev>>
    BY <1>1, CommitsIdle DEF CommitConnect
  <2>2. SamePort
    BY <2>1 DEF Linked, SamePort
  <2>3. Quiet
    BY <2>1, <2>2 DEF Resting, CandidateQuiet, SamePort
  <2>4. Silent'
    <3> SUFFICES ASSUME NEW r \in RunID, Sends(r)' PROVE FALSE
      BY DEF Silent
    <3>1. ~Sends(r)
      BY <2>3 DEF Quiet
    <3>2. ctl.status = "running"
      BY <3>1, SendsFrom DEF MayWriteLine
    <3> QED BY <1>1, <3>2, CommitsIdle DEF RunOver, Active
  <2> QED BY <2>2, <2>3, <2>4, QuietStays
<1>2. CASE ~CommitConnect
  <2>1. Linked /\ SamePort /\ ctl'.gen = ctl.gen
    BY <1>2, LinkFrom
  <2>2. Quiet
    <3>1. CASE AtEase(ctl)
      BY <2>1, <3>1 DEF Resting, EaseIsRest
    <3>2. ASSUME NEW r \in RunID, RunnerFinish(r), CanFinishProgram(ctl, r)
          PROVE  Quiet
      <4>1. Runs(r) /\ pc[Runner(r)] = "finish" /\ r # 0
        BY <2>1, <3>2 DEF CanFinishProgram, Runs, Executing, RunnerFinish, RunID
      <4>2. Drained /\ ~dev.motion
        BY <4>1 DEF Resting, RunAnswered, DrainIsStill, Settled
      <4>3. \A q \in RunID : Sends(q) => q = r
        BY <4>1 DEF LinesOwned, Runs
      <4> QED BY <4>1, <4>2, <4>3 DEF Quiet, Sends
    <3>3. ASSUME NEW r \in RunID, StopFinishes(r), MayFinishStop(ctl, r)
          PROVE  Quiet
      <4>1. /\ ctl.stop.run = r /\ ctl.run.id = r /\ pc[Stopper(r)] = "finish" /\ r # 0
        BY <3>3 DEF MayFinishStop, StopVerifiable, StopFinishes, RunID
      <4>2. ctl.stop.reset /\ ctl.stop.banner /\ ~dev.motion
        BY <2>1, <4>1 DEF Resting, StopIsStill, Verifying
      <4>3. Drained
        BY <2>1, <4>1, <4>2 DEF Resting, BannerDrains
      <4>4. \A q \in RunID : Sends(q) => q = r
        BY <4>1 DEF LinesOwned
      <4>5. ~Sends(r)
        BY <4>1, <4>2 DEF Resting, StopHasSent
      <4> QED BY <4>2, <4>3, <4>4, <4>5 DEF Quiet
    <3> QED BY <1>2, <3>1, <3>2, <3>3, EaseFrom
  <2>3. Silent'
    <3> SUFFICES ASSUME NEW r \in RunID, Sends(r)' PROVE FALSE
      BY DEF Silent
    <3>1. ~Sends(r) /\ r # 0
      BY <2>2 DEF Quiet, RunID
    <3>2. MayWriteLine(ctl, r) /\ ctl' = [Reserve(ctl, Runner(r)) EXCEPT !.run.work = TRUE]
      BY <3>1, SendsFrom
    <3>3. Reserve(ctl, Runner(r)) \in Controller /\ Reserve(ctl, Runner(r)).run = ctl.run
      BY Identities, ReserveType DEF Reserve, Controller
    <3> DEFINE c == Reserve(ctl, Runner(r))
    <3>4. c \in Controller /\ c.run = ctl.run /\ ctl' = [c EXCEPT !.run.work = TRUE]
      BY <3>2, <3>3
    <3> HIDE DEF c
    <3>5. ctl'.run.work = TRUE /\ ctl'.run.id = ctl.run.id
      BY <3>4 DEF Controller, RunType
    <3> QED BY <3>1, <3>2, <3>5 DEF AtEase, MayWriteLine
  <2> QED BY <2>1, <2>2, <2>3, QuietStays
<1> QED BY <1>1, <1>2

\* The session loses its first response, or gets one more: the ok that was first in the
\* queue, or a failure.
LEMMA RespondsAcked ==
  ASSUME NEW r \in RunID, chan \in [RunID -> Seq({"ok", "fail"})], Responds(r)
  PROVE  /\ \A i \in DOMAIN chan'[r] : /\ i \in Int /\ i + 1 # 1
                                       /\ Acked(i, r)' => Acked(i + 1, r)
         /\ Head(chan[r]) = "ok" => Acked(1, r)
<1> DEFINE s == chan[r]
           t == chan'[r]
<1>1. s \in Seq({"ok", "fail"}) /\ s # <<>> /\ t = Tail(s)
  BY DEF Responds
<1> HIDE DEF s, t
<1>2. /\ Len(s) \in Nat /\ Len(s) # 0 /\ DOMAIN s = 1..Len(s)
      /\ DOMAIN t = 1..(Len(s) - 1) /\ \A i \in 1..(Len(s) - 1) : t[i] = s[i + 1]
      /\ Head(s) = s[1]
  BY <1>1
<1>3. \A i \in DOMAIN t : i \in Int /\ i + 1 # 1 /\ i + 1 \in DOMAIN s /\ t[i] = s[i + 1]
  BY <1>2
<1> QED BY <1>2, <1>3 DEF s, t, Acked

LEMMA HandsAcked ==
  ASSUME NEW r \in RunID, chan \in [RunID -> Seq({"ok", "fail"})], rx \in Seq(RxEvent),
         NEW x \in {"ok", "fail"}, Hands(r, x), Linked
  PROVE  /\ \A i \in DOMAIN chan'[r] : Acked(i, r)' => \/ Acked(i, r)
                                                       \/ x = "ok" /\ i = Len(chan[r]) + 1
         /\ Loses /\ UNCHANGED <<dev, port>> /\ 1 \in DOMAIN rx
         /\ x = "ok" => Ack(1)
<1> DEFINE s == chan[r]
           t == chan'[r]
<1>1. s \in Seq({"ok", "fail"}) /\ t = Append(s, x)
  BY DEF Hands
<1> HIDE DEF s, t
<1>2. /\ Len(s) \in Nat /\ DOMAIN s = 1..Len(s) /\ DOMAIN t = 1..(Len(s) + 1)
      /\ \A i \in 1..Len(s) : t[i] = s[i]
      /\ t[Len(s) + 1] = x
  BY <1>1
<1>3. \A i \in DOMAIN t : (i \in DOMAIN s /\ t[i] = s[i]) \/ i = Len(s) + 1
  BY <1>2
<1>4. \A i \in DOMAIN t : t[i] = "ok" => (i \in DOMAIN s /\ s[i] = "ok") \/ (x = "ok" /\ i = Len(s) + 1)
  BY <1>2, <1>3
<1>5. Loses /\ UNCHANGED <<dev, port>> /\ 1 \in DOMAIN rx /\ Head(rx) = rx[1]
  BY TakenLoses DEF Hands, BridgeLine, BridgeAccepts, BridgeReads
<1>6. x = "ok" => Ack(1)
  BY <1>5 DEF Hands, Ack, Linked
<1> QED BY <1>4, <1>5, <1>6 DEF s, t, Acked

LEMMA RunsFrom ==
  ASSUME Resting, [Next]_vars, NEW r \in RunID, Runs(r)'
  PROVE  /\ Linked /\ SamePort /\ ~CommitConnect
         /\ \/ Runs(r)
            \/ StartProgram(r) /\ ctl.run.id = 0 /\ ctl.ready = "normal"
<1> IInv /\ Flow /\ Attempting /\ ctl \in Controller
  BY RestingParts DEF Resting
<1>1. ~CommitConnect
  BY CommitsIdle DEF RunOver, Runs, Active, Executing
<1>2. Linked /\ SamePort
  BY <1>1, LinkFrom DEF Runs
<1>3. ctl'.run.id = r /\ ctl'.status \in Executing
  BY DEF Runs
<1>4. \/ ctl.status \in Executing /\ ctl.run.id = r
      \/ StartProgram(r) /\ ctl.run.id = 0 /\ ctl.ready = "normal"
  BY <1>3, ExecutingFrom, GivenRun
<1> QED BY <1>1, <1>2, <1>4 DEF Runs

\* While it runs only the run's own runner submits a line, and only to await its ok.
LEMMA RunLoads ==
  ASSUME Resting, NEW r \in RunID, ctl.run.id = r, Loads
  PROVE  LineWritten(r) /\ pc'[Runner(r)] = "await" /\ pc[Runner(r)] = "write"
<1>1. PICK q \in RunID : LineWritten(q) /\ Sends(q)
  BY DEF Loads
<1>2. q = r
  BY <1>1 DEF Resting, Holding, LinesOwned, RunID
<1>3. PcOK /\ Runner(r) \in Procs
  BY Identities DEF Resting, RInv, IInv, TypeInv
<1> QED BY <1>1, <1>2, <1>3, GotoHere DEF LineWritten

LEMMA SettledStays ==
  ASSUME Resting, [Next]_vars, NEW r \in RunID, Runs(r), SamePort,
         pc'[Runner(r)] \in Settled
  PROVE  Drained' /\ NoOks(r)'
<1> /\ PcOK /\ Flow /\ IInv /\ rx \in Seq(RxEvent) /\ ctl \in Controller
    /\ chan \in [RunID -> Seq({"ok", "fail"})] /\ Runner(r) \in Procs
  BY RestingParts, Identities
<1>1. r # 0 /\ ctl.run.id = r /\ Linked
  BY DEF RunID, Runs
<1>2. \/ pc[Runner(r)] \in Settled
      \/ RunnerResponse(r) /\ Head(chan[r]) = "ok"
  <2>1. ~StartProgram(r)
    BY <1>1, GivenRun
  <2> QED BY <2>1, Stands, WhoActs, RunnerSettles
<1>3. CASE pc[Runner(r)] \in Settled
  <2>1. Drained /\ NoOks(r)
    BY <1>3 DEF Resting, RunAnswered
  <2>2. ~Loads
    BY <1>1, RunLoads DEF Settled
  <2>3. Drained'
    BY <2>1, <2>2, DrainedStays
  <2>4. NoOks(r)'
    <3>1. CASE chan'[r] = chan[r]
      BY <2>1, <3>1 DEF NoOks, Acked
    <3>2. CASE Responds(r)
      <4> SUFFICES ASSUME NEW i \in DOMAIN chan'[r], Acked(i, r)' PROVE FALSE
        BY DEF NoOks
      <4>1. Acked(i + 1, r)
        BY <3>2, RespondsAcked
      <4> QED BY <2>1, <4>1 DEF NoOks, Acked
    <3>3. ASSUME NEW x \in {"ok", "fail"}, Hands(r, x)
          PROVE  NoOks(r)'
      <4>1. x # "ok"
        BY <1>1, <2>1, <3>3, HandsAcked DEF Drained
      <4> SUFFICES ASSUME NEW i \in DOMAIN chan'[r], Acked(i, r)' PROVE FALSE
        BY DEF NoOks
      <4>2. Acked(i, r)
        BY <1>1, <3>3, <4>1, HandsAcked
      <4> QED BY <2>1, <4>2 DEF NoOks, Acked
    <3> QED BY <3>1, <3>2, <3>3, ChanFrom
  <2> QED BY <2>3, <2>4
<1>4. CASE RunnerResponse(r) /\ Head(chan[r]) = "ok"
  <2>1. /\ pc[Runner(r)] = "await" /\ UNCHANGED <<rx, dev, port>> /\ Responds(r)
    <3>1. chan[r] # <<>> /\ chan' = [chan EXCEPT ![r] = Tail(@)]
      BY <1>4 DEF RunnerResponse
    <3>2. chan'[r] = Tail(chan[r])
      BY <3>1
    <3> QED BY <1>4, <3>1, <3>2 DEF RunnerResponse, Responds, linkVars
  <2>2. OneAck(r) /\ Acked(1, r) /\ 1 \in DOMAIN chan[r]
    BY <1>4, <2>1, RespondsAcked DEF Resting, RunAnswered, Acked
  <2>3. ~NoOks(r)
    BY <2>2 DEF NoOks
  <2>4. Drained
    <3>1. dev.lines \in Nat
      BY DevType DEF IInv, TypeInv, LinkOK
    <3>2. dev.lines = 0
      BY <2>2, <2>3, <3>1 DEF OneAck
    <3> QED BY <2>2, <2>3, <3>2 DEF OneAck, Drained
  <2>5. NoOks(r)'
    <3> SUFFICES ASSUME NEW i \in DOMAIN chan'[r], Acked(i, r)' PROVE FALSE
      BY DEF NoOks
    <3>1. Acked(i + 1, r) /\ i + 1 # 1
      BY <2>1, RespondsAcked
    <3> QED BY <2>2, <3>1 DEF OneAck, Acked
  <2> QED BY <2>1, <2>4, <2>5 DEF Drained, Ack
<1> QED BY <1>2, <1>3, <1>4

\* A line on its own in the machine: it is answered once.
LEMMA AckMoves ==
  ASSUME Resting, [Next]_vars, NEW r \in RunID, SamePort, OneAck(r), ~Loads,
         chan'[r] = chan[r]
  PROVE  OneAck(r)'
<1> Flow /\ rx \in Seq(RxEvent) /\ DOMAIN rx \subseteq Nat
  BY RestingParts
<1> dev.lines \in Nat
  BY RestingParts, DevType DEF TypeInv, LinkOK
<1>1. \A i : Acked(i, r)' <=> Acked(i, r)
  BY DEF Acked
<1>2. NoOks(r)' <=> NoOks(r)
  BY <1>1 DEF NoOks
<1> DEFINE Once == \A i \in DOMAIN rx : Ack(i) => NoOks(r) /\ \A j \in DOMAIN rx : Ack(j) => j = i
<1>3. ASSUME dev'.lines = dev.lines \/ dev'.lines = 0 \/ (dev.lines > 0 /\ dev'.lines = dev.lines - 1),
             ~Accepts, Once'
      PROVE  OneAck(r)'
  <2>1. dev'.lines <= 1
    BY <1>3 DEF OneAck
  <2>2. dev'.lines = 1 => dev.lines = 1
    BY <1>3 DEF OneAck
  <2>3. dev'.lines = 1 => NoOks(r)' /\ NoAcks'
    BY <1>2, <1>3, <2>2, NoAcksStay DEF OneAck
  <2>4. \A i, j \in DOMAIN chan'[r] : Acked(i, r)' /\ Acked(j, r)' => i = j
    BY <1>1 DEF OneAck
  <2> QED BY <1>3, <2>1, <2>3, <2>4 DEF OneAck
<1>4. Once
  BY DEF OneAck
<1>5. CASE UNCHANGED dev /\ Keeps
  <2>1. Once'
    BY <1>2, <1>4, <1>5 DEF Keeps, Ack, SamePort
  <2>2. ~Accepts
    BY <1>5 DEF Accepts
  <2> QED BY <1>3, <1>5, <2>1, <2>2
<1>6. CASE UNCHANGED dev /\ Loses
  <2>1. \A i \in DOMAIN rx' : i + 1 \in DOMAIN rx /\ (Ack(i)' => Ack(i + 1)) /\ i \in Int
    <3>1. DOMAIN rx' \subseteq Int
      <4>1. rx' \in Seq(RxEvent)
        BY RestingParts, TypeInvNext DEF TypeInv, LinkOK
      <4> QED BY <4>1
    <3> QED BY <1>6, <3>1 DEF Loses, Ack, SamePort
  <2>2. Once'
    BY <1>2, <1>4, <2>1
  <2>3. ~Accepts
    BY <1>6 DEF Accepts
  <2> QED BY <1>3, <1>6, <2>2, <2>3
<1>7. ASSUME NEW K, Grows(K), "ok" \notin K
      PROVE  Once'
  <2>1. \A i \in DOMAIN rx' : Ack(i)' => i \in DOMAIN rx /\ Ack(i)
    BY <1>7 DEF Grows, Added, Ack, SamePort
  <2> QED BY <1>2, <1>4, <2>1
<1>8. CASE Accepts
  <2>1. dev.lines = 1 /\ dev'.lines = 0 /\ Grows({"ok"}) /\ NoOks(r) /\ NoAcks
    BY <1>8 DEF Accepts, OneAck
  <2>2. \A i \in DOMAIN rx' : Ack(i)' => i \in Added /\ rx'[i].kind = "ok"
    BY <2>1 DEF Grows, Added, Ack, NoAcks, SamePort
  <2>3. \A i, j \in Added : rx'[i].kind = "ok" /\ rx'[j].kind = "ok" => i = j
    BY <2>1 DEF Grows
  <2>4. \A i \in DOMAIN rx' : Ack(i)' => NoOks(r)' /\ \A j \in DOMAIN rx' : Ack(j)' => j = i
    BY <1>2, <2>1, <2>2, <2>3
  <2>5. \A i, j \in DOMAIN chan'[r] : Acked(i, r)' /\ Acked(j, r)' => i = j
    BY <1>1 DEF OneAck
  <2> QED BY <2>1, <2>4, <2>5 DEF OneAck
<1>9. CASE ~Accepts /\ (Rejects \/ Halts \/ Alarms \/ Resets \/ Reacted)
  BY <1>3, <1>7, <1>9 DEF Rejects, Halts, Alarms, Resets, Reacted
<1>10. CASE ~Accepts /\ Reports
  BY <1>3, <1>7, <1>10, StatusSays DEF Reports
<1> QED BY <1>5, <1>6, <1>8, <1>9, <1>10, FlowsHere

LEMMA AckHanded ==
  ASSUME Resting, [Next]_vars, NEW r \in RunID, Linked, OneAck(r),
         NEW x \in {"ok", "fail"}, Hands(r, x)
  PROVE  OneAck(r)'
<1> /\ rx \in Seq(RxEvent) /\ DOMAIN rx \subseteq Nat
    /\ chan \in [RunID -> Seq({"ok", "fail"})]
  BY RestingParts
<1> dev.lines \in Nat
  BY RestingParts, DevType DEF TypeInv, LinkOK
<1>1. /\ Loses /\ UNCHANGED <<dev, port>> /\ 1 \in DOMAIN rx
      /\ x = "ok" => Ack(1)
      /\ \A i \in DOMAIN chan'[r] : Acked(i, r)' => \/ Acked(i, r)
                                                    \/ x = "ok" /\ i = Len(chan[r]) + 1
  BY HandsAcked
<1>2. \A i \in DOMAIN rx' : i + 1 \in DOMAIN rx /\ (Ack(i)' => Ack(i + 1)) /\ i \in Int /\ i + 1 # 1
  <2>1. \A i \in DOMAIN rx' : i \in Int /\ i # 0
    <3>1. rx' \in Seq(RxEvent)
      BY RestingParts, TypeInvNext DEF TypeInv, LinkOK
    <3> QED BY <3>1
  <2> QED BY <1>1, <2>1 DEF Loses, Ack
<1>3. CASE x = "ok"
  <2>1. NoOks(r) /\ dev.lines = 0 /\ \A j \in DOMAIN rx : Ack(j) => j = 1
    BY <1>1, <1>3 DEF OneAck, NoAcks
  <2>2. NoAcks'
    BY <1>2, <2>1 DEF NoAcks
  <2>3. \A i \in DOMAIN chan'[r] : Acked(i, r)' => i = Len(chan[r]) + 1
    BY <1>1, <2>1 DEF NoOks, Acked
  <2> QED BY <1>1, <2>1, <2>2, <2>3 DEF OneAck, NoAcks
<1>4. CASE x # "ok"
  <2>1. \A i \in DOMAIN chan'[r] : Acked(i, r)' => Acked(i, r) /\ i \in DOMAIN chan[r]
    BY <1>1, <1>4 DEF Acked
  <2>2. NoOks(r) => NoOks(r)'
    BY <2>1 DEF NoOks
  <2>3. NoAcks => NoAcks'
    BY <1>2 DEF NoAcks
  <2>4. \A i, j \in DOMAIN chan'[r] : Acked(i, r)' /\ Acked(j, r)' => i = j
    BY <2>1 DEF OneAck
  <2>5. \A i \in DOMAIN rx' : Ack(i)' => NoOks(r)' /\ \A j \in DOMAIN rx' : Ack(j)' => j = i
    <3> SUFFICES ASSUME NEW i \in DOMAIN rx', Ack(i)'
                 PROVE  NoOks(r)' /\ \A j \in DOMAIN rx' : Ack(j)' => j = i
      OBVIOUS
    <3>1. NoOks(r) /\ \A j \in DOMAIN rx : Ack(j) => j = i + 1
      BY <1>2 DEF OneAck
    <3>2. \A j \in DOMAIN rx' : Ack(j)' => j + 1 = i + 1
      BY <1>2, <3>1
    <3> QED BY <1>2, <2>2, <3>1, <3>2
  <2> QED BY <1>1, <2>2, <2>3, <2>4, <2>5 DEF OneAck
<1> QED BY <1>3, <1>4

LEMMA RunAnsweredNext ==
  ASSUME Resting, [Next]_vars
  PROVE  RunAnswered'
<1> /\ TypeInv /\ Flow /\ PcOK /\ IInv /\ ctl \in Controller /\ rx \in Seq(RxEvent)
    /\ chan \in [RunID -> Seq({"ok", "fail"})]
  BY RestingParts
<1> SUFFICES ASSUME NEW r \in RunID, Runs(r)'
             PROVE  /\ pc'[Runner(r)] \in Settled => Drained' /\ NoOks(r)'
                    /\ pc'[Runner(r)] = "await" => OneAck(r)'
  BY DEF RunAnswered
<1> DEFINE p == Runner(r)
<1> p \in Procs /\ r # 0
  BY Identities DEF RunID
<1>1. Linked /\ SamePort
  BY RunsFrom
<1>2. CASE StartProgram(r) /\ ctl.run.id = 0 /\ ctl.ready = "normal"
  <2>1. pc[p] = "off" /\ UNCHANGED <<chan, rx, dev, port>>
    BY <1>2 DEF StartProgram, linkVars
  <2>2. Drained
    BY <1>1, <1>2 DEF Resting, EaseIsRest, AtEase, Quiet
  <2>3. chan[r] = <<>>
    BY <2>1 DEF Resting, Started
  <2>4. pc'[p] # "await"
    BY <2>1, <1>2, RunnerArrives DEF LineWritten
  <2> QED BY <2>1, <2>2, <2>3, <2>4 DEF Drained, Ack, NoOks
<1>3. CASE Runs(r)
  <2>1. pc'[p] \in Settled => Drained' /\ NoOks(r)'
    BY <1>1, <1>3, SettledStays
  <2>2. ASSUME pc'[p] = "await"
        PROVE  OneAck(r)'
    <3>1. ctl.run.id = r
      BY <1>3 DEF Runs
    <3>2. CASE LineWritten(r)
      <4>1. pc[p] = "write" /\ Delivered(p, "line") /\ UNCHANGED chan
        BY <3>2 DEF LineWritten, runVars
      <4>2. Drained /\ NoOks(r)
        BY <1>3, <4>1 DEF Resting, RunAnswered, Settled
      <4>3. dev'.lines = 1 /\ Grows({})
        <5>1. PICK x \in Reactions(dev, "line") : dev' = x.dev /\ Says(x.says)
          BY <4>1 DEF Delivered
        <5>2. x.dev = [dev EXCEPT !.lines = @ + 1] /\ x.says = <<>>
          BY <5>1 DEF Reactions
        <5>3. dev \in DeviceType /\ port \in {0} \cup Generation
          BY BoundsAssumption DEF TypeInv, LinkOK, Generation
        <5> QED BY <4>2, <5>1, <5>2, <5>3, Grown DEF DeviceType, Drained
      <4>4. NoAcks'
        BY <1>1, <4>2, <4>3 DEF NoAcks, Drained, Ack, Grows, Added, SamePort
      <4>5. NoOks(r)'
        BY <4>1, <4>2 DEF NoOks, Acked
      <4> QED BY <4>3, <4>4, <4>5 DEF OneAck, NoAcks, NoOks
    <3>3. CASE ~LineWritten(r)
      <4>1. pc[p] = "await" /\ ~Acts(p)
        BY <2>2, <3>3, Stands, WhoActs, RunnerArrives
      <4>2. OneAck(r)
        BY <1>3, <4>1 DEF Resting, RunAnswered
      <4>3. ~Loads
        BY <3>1, <3>3, RunLoads
      <4>4. ~Responds(r)
        BY <4>1 DEF Responds, Acts, RunnerStep
      <4> QED BY <1>1, <4>2, <4>3, <4>4, ChanFrom, AckMoves, AckHanded
    <3> QED BY <3>2, <3>3
  <2> QED BY <2>1, <2>2
<1> QED BY <1>2, <1>3, RunsFrom

\* An Idle that is read now: with nothing in the machine it tells of rest, and a locked
\* machine has told so behind it.
LEMMA IdleHeard ==
  ASSUME Resting, [Next]_vars, BridgeStatus, ctl'.machine = "Idle", Linked
  PROVE  /\ dev' = dev
         /\ Drained => ~dev.motion
         /\ dev.alarm => AlarmComing'
<1> ctl \in Controller /\ rx \in Seq(RxEvent) /\ IdleIsOld
  BY RestingParts DEF Resting
<1>1. /\ rx # <<>> /\ rx' = Tail(rx) /\ UNCHANGED <<dev, port>> /\ NextEvent.gen = ctl.gen
      /\ NextEvent.kind \in MachineState /\ ctl' = NoteStatusReport(ctl, NextEvent.kind)
  BY DEF BridgeStatus, BridgeAccepts, BridgeReads, IsStatus, MachineState
<1>2. NextEvent.kind = "Idle"
  BY <1>1, ReportFields
<1>3. Loses /\ 1 \in DOMAIN rx /\ rx[1].kind = "Idle" /\ rx[1].gen = port
  BY <1>1, <1>2, TakenLoses DEF NextEvent, Linked
<1>4. port # 0
  BY DEF Linked
<1>5. ASSUME dev.motion
      PROVE  ~Drained
  <2>1. PICK j \in DOMAIN rx : j > 1 /\ rx[j].kind \in {"ok"} /\ rx[j].gen = port
    BY <1>3, <1>4, <1>5 DEF IdleIsOld, Followed
  <2> QED BY <2>1 DEF Drained, Ack
<1>6. ASSUME dev.alarm
      PROVE  AlarmComing'
  <2>1. PICK j \in DOMAIN rx : j > 1 /\ rx[j].kind \in AlarmKinds /\ rx[j].gen = port
    BY <1>3, <1>4, <1>6 DEF IdleIsOld, Followed
  <2>2. j \in Int /\ j # 1
    BY <2>1
  <2>3. j - 1 \in DOMAIN rx' /\ rx'[j - 1] = rx[(j - 1) + 1]
    BY <1>3, <2>2 DEF Loses
  <2>4. rx'[j - 1] = rx[j]
    BY <2>2, <2>3
  <2> QED BY <1>1, <2>1, <2>3, <2>4 DEF AlarmComing, IsAlarm, AlarmKinds
<1> QED BY <1>1, <1>5, <1>6

\* Who is seen with a fresh Idle was so already, or the bridge has just read it.
LEMMA SawFrom ==
  ASSUME Resting, [Next]_vars, NEW p, Saw(p)',
         pc'[p] \in Awaits => pc[p] \in Awaits \/ p \notin fresh'
  PROVE  pc[p] \in Awaits /\ (Saw(p) \/ (BridgeStatus /\ ctl'.machine = "Idle"))
<1>1. pc'[p] \in Awaits /\ p \in fresh' /\ ctl'.machine = "Idle" /\ IInv
  BY RestingParts DEF Saw
<1>2. BridgeStatus \/ (p \in fresh /\ ctl.machine = "Idle")
  BY <1>1, FreshFrom, ReportFrom
<1> QED BY <1>1, <1>2 DEF Saw

LEMMA DrainIsStillNext ==
  ASSUME Resting, [Next]_vars
  PROVE  DrainIsStill'
<1> PcOK /\ Flow /\ RunAnswered /\ DrainIsStill
  BY RestingParts DEF Resting
<1> SUFFICES ASSUME NEW r \in RunID, Runs(r)',
                    pc'[Runner(r)] \in {"check", "finish"} \/ Saw(Runner(r))'
             PROVE  ~dev'.motion
  BY DEF DrainIsStill
<1> DEFINE p == Runner(r)
<1> p \in Procs
  BY Identities
<1>1. Linked /\ SamePort
  BY RunsFrom
<1>2. pc'[p] = pc[p] \/ StartProgram(r) \/ RunnerStep(r)
  BY Stands, WhoActs
<1>3. /\ pc'[p] \in {"check", "finish"} => pc[p] \in {"check", "finish"}
                     \/ (pc[p] = "waitIdle" /\ FreshReport(p, "Idle"))
      /\ pc'[p] \in Awaits => pc[p] \in Awaits \/ p \notin fresh'
  BY <1>2, RunnerSettles
<1>4. \/ pc[p] \in {"check", "finish"} \/ Saw(p)
      \/ pc[p] \in Awaits /\ BridgeStatus /\ ctl'.machine = "Idle"
  BY <1>3, SawFrom DEF Saw, FreshReport, Awaits
<1>5. (pc[p] \in Settled /\ pc[p] # "write") \/ pc[p] \in Awaits
  BY <1>4 DEF Saw, Settled
<1>6. pc[p] \in Settled /\ pc[p] # "write" /\ pc[p] # "off"
  BY <1>5 DEF Awaits, Settled
<1>7. Runs(r)
  BY <1>6, RunsFrom DEF StartProgram
<1>8. Drained
  BY <1>6, <1>7 DEF RunAnswered
<1>9. ~dev.motion
  BY <1>1, <1>4, <1>7, <1>8, IdleHeard DEF DrainIsStill
<1>10. ~Loads
  BY <1>6, <1>7, RunLoads DEF Runs
<1> QED BY <1>1, <1>8, <1>9, <1>10, EmptyStays DEF Drained

-----------------------------------------------------------------------------
(* Stop. *)

\* Behind a Stop's Ctrl-X nothing submits a line.
LEMMA StopSilent ==
  ASSUME Resting, ctl.stop.run # 0, ctl.stop.reset
  PROVE  ~Loads
<1> Safe /\ ctl \in Controller /\ StopHasSent /\ LinesOwned
  BY DEF Resting, RInv, IInv, TypeInv, Holding
<1>1. ctl.run.id = ctl.stop.run
  BY DEF Safe, StopOwnsRun
<1> SUFFICES ASSUME NEW q \in RunID, Sends(q) PROVE FALSE
  BY NothingLoads DEF Silent
<1>2. ctl.run.id = q
  BY <1>1 DEF LinesOwned
<1> QED BY <1>1, <1>2 DEF StopHasSent

\* A step within a Stop is no commit of a connection.
LEMMA StopLink ==
  ASSUME Resting, [Next]_vars, Linked', ctl'.stop.run # 0
  PROVE  Linked /\ SamePort /\ ctl'.gen = ctl.gen
<1> IInv /\ Flow /\ Attempting
  BY RestingParts DEF Resting
<1>1. ~CommitConnect
  BY CommitsIdle DEF RunOver
<1> QED BY <1>1, LinkFrom

LEMMA RxNumbers ==
  ASSUME TypeInv'
  PROVE  DOMAIN rx' \subseteq Int
BY DEF TypeInv, LinkOK

LEMMA BannerIsLastNext ==
  ASSUME Resting, RInv', [Next]_vars
  PROVE  BannerIsLast'
<1> IInv /\ TypeInv /\ Flow /\ ctl \in Controller /\ rx \in Seq(RxEvent)
    /\ DOMAIN rx \subseteq Nat /\ BannerIsLast /\ DOMAIN rx' \subseteq Int
  BY RestingParts, RxNumbers DEF Resting, RInv, IInv
<1> SUFFICES ASSUME Linked', ctl'.stop.run # 0, ctl'.stop.reset, NEW i \in DOMAIN rx',
                    rx'[i].kind = "banner", rx'[i].new, rx'[i].gen = port'
             PROVE  dev'.lines = 0 /\ \A j \in DOMAIN rx' : j > i => ~Ack(j)'
  BY DEF BannerIsLast
<1>1. Linked /\ SamePort /\ port' = port
  BY StopLink DEF SamePort
<1> DEFINE r == ctl'.stop.run
<1>2. r \in RunID
  BY DEF RInv, IInv, TypeInv, Controller, StopType, RunID
<1>3. CASE ~(ctl.stop.run = r /\ ctl.stop.reset)
  <2>1. StopMarksReset(r) /\ StopCurrent(ctl, r)
    BY <1>2, <1>3, ResetMarked
  <2>2. rx' = [k \in DOMAIN rx |-> [rx[k] EXCEPT !.new = FALSE]]
    BY <1>2, <2>1, GivenMark
  <2> QED BY <2>2, MarkedKeeps
<1>4. CASE ctl.stop.run = r /\ ctl.stop.reset
  <2> HIDE DEF r
  <2>1. ctl.stop.run # 0 /\ ctl.stop.reset
    BY <1>2, <1>4 DEF RunID
  <2>2. ~Loads
    BY <2>1, StopSilent
  <2>3. \A k \in DOMAIN rx : rx[k].kind = "banner" /\ rx[k].new /\ rx[k].gen = port =>
          dev.lines = 0 /\ \A j \in DOMAIN rx : j > k => ~Ack(j)
    BY <1>1, <2>1 DEF BannerIsLast
  <2>4. CASE UNCHANGED dev /\ Keeps
    BY <1>1, <2>3, <2>4 DEF Keeps, Ack
  <2>5. CASE UNCHANGED dev /\ Loses
    <3>1. i + 1 \in DOMAIN rx /\ rx'[i] = rx[i + 1] /\ i + 1 \in Nat
      BY <2>5 DEF Loses
    <3>2. dev.lines = 0 /\ \A j \in DOMAIN rx : j > i + 1 => ~Ack(j)
      BY <1>1, <2>3, <3>1
    <3>3. ASSUME NEW j \in DOMAIN rx', j > i
          PROVE  ~Ack(j)'
      <4>1. j + 1 \in DOMAIN rx /\ rx'[j] = rx[j + 1] /\ j + 1 \in Nat
        BY <2>5 DEF Loses
      <4>2. i \in Int /\ j \in Int
        OBVIOUS
      <4>3. ~Ack(j + 1)
        BY <3>2, <3>3, <4>1, <4>2
      <4> QED BY <1>1, <4>1, <4>3 DEF Ack
    <3> QED BY <2>5, <3>2, <3>3
  <2>6. ASSUME NEW K, Grows(K), "ok" \notin K,
               dev'.lines = 0 \/ (dev'.lines = dev.lines /\ "banner" \notin K)
        PROVE  dev'.lines = 0 /\ \A j \in DOMAIN rx' : j > i => ~Ack(j)'
    <3>1. \A j \in Added : ~Ack(j)' /\ rx'[j].kind \in K
      BY <2>6 DEF Grows, Ack
    <3>2. CASE i \in DOMAIN rx
      <4>1. dev.lines = 0 /\ \A j \in DOMAIN rx : j > i => ~Ack(j)
        BY <1>1, <2>3, <2>6, <3>2 DEF Grows
      <4>2. ASSUME NEW j \in DOMAIN rx', j > i
            PROVE  ~Ack(j)'
        <5>1. CASE j \in DOMAIN rx
          BY <1>1, <2>6, <4>1, <4>2, <5>1 DEF Grows, Ack
        <5>2. CASE j \notin DOMAIN rx
          BY <3>1, <5>2 DEF Added
        <5> QED BY <5>1, <5>2
      <4> QED BY <2>6, <4>1, <4>2
    <3>3. CASE i \notin DOMAIN rx
      <4>1. i \in Added
        BY <3>3 DEF Added
      <4>2. dev'.lines = 0
        BY <2>6, <3>1, <4>1
      <4>3. ASSUME NEW j \in DOMAIN rx', j > i
            PROVE  j \in Added
        <5>1. ASSUME j \in DOMAIN rx PROVE FALSE
          <6>1. j < i
            BY <2>6, <4>1, <5>1 DEF Grows
          <6> QED BY <4>3, <5>1, <6>1
        <5> QED BY <5>1 DEF Added
      <4> QED BY <3>1, <4>2, <4>3
    <3> QED BY <3>2, <3>3
  <2>7. CASE Accepts \/ Rejects
    <3>1. dev.lines # 0 /\ \E K \in {{"ok"}, {"error"}} : Grows(K)
      BY <2>7 DEF Accepts, Rejects
    <3>2. i \in DOMAIN rx /\ rx'[i] = rx[i]
      BY <3>1 DEF Grows, Added
    <3> QED BY <1>1, <2>3, <3>1, <3>2
  <2>8. CASE Halts \/ Alarms \/ Reacted
    <3>1. dev'.lines = dev.lines /\ \E K \in {{}, {"alarm"}, {"alarm50"}} : Grows(K)
      BY <2>8 DEF Halts, Alarms, Reacted
    <3> QED BY <2>6, <3>1
  <2>9. CASE Reports
    <3>1. dev' = dev /\ Grows({StatusOf(dev)}) /\ StatusOf(dev) \notin {"ok", "banner"}
      BY <2>9, StatusSays DEF Reports
    <3> QED BY <2>6, <3>1
  <2>10. CASE Resets
    <3>1. dev'.lines = 0 /\ \E K \in {{"banner"}, {"alarm3", "banner"}} : Grows(K)
      BY <2>10 DEF Resets
    <3> QED BY <2>6, <3>1
  <2> QED BY <1>1, <2>2, <2>4, <2>5, <2>7, <2>8, <2>9, <2>10, FlowsHere
<1> QED BY <1>3, <1>4

LEMMA BannerDrainsNext ==
  ASSUME Resting, RInv', [Next]_vars
  PROVE  BannerDrains'
<1> IInv /\ Flow /\ ctl \in Controller /\ rx \in Seq(RxEvent) /\ BannerDrains
  BY RestingParts DEF Resting
<1> SUFFICES ASSUME ctl'.stop.run # 0, ctl'.stop.banner
             PROVE  ctl'.stop.reset /\ (Linked' => Drained')
  BY DEF BannerDrains
<1> DEFINE r == ctl'.stop.run
<1>1. r \in RunID /\ r # 0
  BY DEF RInv, IInv, TypeInv, Controller, StopType, RunID
<1>2. /\ ctl.stop.run = r /\ (ctl.stop.reset => ctl'.stop.reset)
      /\ ctl'.stop.banner = ctl.stop.banner \/ BridgeLine \/ BridgeStatus
  BY <1>1, StopFrom
<1>3. ctl.stop.reset /\ (Linked => Drained)
  <2>1. CASE ctl.stop.banner
    BY <1>1, <1>2, <2>1 DEF BannerDrains
  <2>2. CASE ~ctl.stop.banner
    <3>1. /\ BridgeReads /\ NextEvent.kind = "banner" /\ NextEvent.new
          /\ NextEvent.gen = ctl.gen /\ ctl.stop.reset
      BY <1>2, <2>2, BannerFrom
    <3>2. 1 \in DOMAIN rx /\ NextEvent = rx[1]
      BY <3>1, TakenLoses DEF BridgeReads, NextEvent
    <3>3. ASSUME Linked
          PROVE  Drained
      <4>1. dev.lines = 0 /\ \A j \in DOMAIN rx : j > 1 => ~Ack(j)
        BY <1>1, <1>2, <3>1, <3>2, <3>3 DEF Resting, BannerIsLast, Linked
      <4>2. ~Ack(1)
        BY <3>1, <3>2 DEF Ack
      <4>3. \A j \in DOMAIN rx : j = 1 \/ j > 1
        OBVIOUS
      <4> QED BY <4>1, <4>2, <4>3 DEF Drained
    <3> QED BY <3>1, <3>3
  <2> QED BY <2>1, <2>2
<1>4. ASSUME Linked'
      PROVE  Drained'
  <2>1. Linked /\ SamePort
    BY <1>4, StopLink
  <2>2. ~Loads
    BY <1>1, <1>2, <1>3, StopSilent
  <2> QED BY <1>3, <2>1, <2>2, DrainedStays
<1> QED BY <1>2, <1>3, <1>4

\* How the coordinator of the current Stop gets on.
LEMMA StopperGets ==
  ASSUME Resting, [Next]_vars, NEW r \in RunID, ctl.stop.run = r
  PROVE  LET p == Stopper(r) IN
         /\ pc'[p] \in {"reset"} \cup Verifying =>
              \/ pc[p] \in {"reset"} \cup Verifying
              \/ StopMarksReset(r) /\ StopCurrent(ctl, r)
         /\ pc'[p] \in Verifying =>
              pc[p] \in Verifying \/ (pc[p] = "reset" /\ Delivered(p, "reset"))
         /\ pc'[p] \in {"baseline", "finish"} \cup Awaits =>
              pc[p] \in {"baseline", "finish"} \cup Awaits \/ ctl.stop.banner
         /\ pc'[p] \in Awaits => pc[p] \in Awaits \/ p \notin fresh'
         /\ pc'[p] = "finish" => pc[p] = "finish" \/ Saw(p)
<1> DEFINE p == Stopper(r)
<1> PcOK /\ p \in Procs /\ r # 0
  BY RestingParts, Identities DEF RunID
<1>1. pc'[p] = pc[p] \/ StopStep(r)
  BY Stands, WhoActs DEF StopProgram
<1>2. CASE pc'[p] = pc[p]
  BY <1>2
<1>3. CASE StopStep(r)
  <2>1. /\ pc'[p] = "reset" => StopMarksReset(r) /\ StopCurrent(ctl, r)
        /\ pc'[p] = "verify" => pc[p] = "reset" /\ Delivered(p, "reset")
        /\ pc'[p] = "banner" => pc[p] = "verify"
        /\ pc'[p] = "baseline" => pc[p] = "banner" /\ ctl.stop.banner
        /\ pc'[p] \in Awaits => pc[p] \in Awaits \/ (pc[p] = "baseline" /\ p \notin fresh')
        /\ pc'[p] = "finish" => pc[p] = "waitIdle" /\ FreshReport(p, "Idle")
    BY <1>3, StopperArrives
  <2> HIDE DEF p
  <2>2. pc'[p] = "finish" => Saw(p) /\ pc[p] \in Awaits
    BY <2>1 DEF Saw, FreshReport, Awaits
  <2> QED BY <2>1, <2>2 DEF Verifying, p
<1> QED BY <1>1, <1>2, <1>3

LEMMA StopIsStillNext ==
  ASSUME Resting, [Next]_vars
  PROVE  StopIsStill'
<1> IInv /\ Flow /\ PcOK /\ ctl \in Controller /\ StopIsStill /\ dev \in DeviceType
  BY RestingParts DEF Resting, TypeInv, LinkOK
<1> SUFFICES ASSUME NEW r \in RunID, ctl'.stop.run = r
             PROVE  LET p == Stopper(r) IN
                    /\ pc'[p] \in {"reset"} \cup Verifying => ctl'.stop.reset
                    /\ pc'[p] \in Verifying => (Linked' => dev'.lines = 0 /\ ~dev'.motion)
                    /\ pc'[p] \in {"baseline", "finish"} \cup Awaits => ctl'.stop.banner
  BY DEF StopIsStill
<1> DEFINE p == Stopper(r)
<1>1. CASE StopProgram(r)
  <2>1. pc'[p] = "acquire"
    BY <1>1, GotoHere, Identities DEF StopProgram
  <2> QED BY <2>1 DEF Verifying, Awaits
<1>2. CASE ~StopProgram(r)
  <2>1. /\ ctl.stop.run = r /\ r # 0 /\ (ctl.stop.reset => ctl'.stop.reset)
        /\ ctl'.stop.banner = ctl.stop.banner \/ BridgeLine \/ BridgeStatus
    BY <1>2, StopFrom DEF RunID
  <2>2. ctl.stop.banner => ctl'.stop.banner
    BY <2>1, BannerFrom
  <2>3. ASSUME pc'[p] \in {"reset"} \cup Verifying
        PROVE  ctl'.stop.reset
    <3>1. CASE pc[p] \in {"reset"} \cup Verifying
      BY <2>1, <3>1 DEF StopIsStill
    <3>2. CASE StopMarksReset(r) /\ StopCurrent(ctl, r)
      BY <3>2, GivenMark
    <3> QED BY <2>1, <2>3, <3>1, <3>2, StopperGets
  <2>4. ASSUME pc'[p] \in Verifying, Linked'
        PROVE  dev'.lines = 0 /\ ~dev'.motion
    <3>1. Linked /\ SamePort
      BY <2>1, <2>4, StopLink
    <3>2. CASE pc[p] \in Verifying
      <4>1. ctl.stop.reset /\ dev.lines = 0 /\ ~dev.motion
        BY <2>1, <3>1, <3>2 DEF StopIsStill
      <4>2. ~Loads
        BY <2>1, <4>1, StopSilent
      <4> QED BY <3>1, <4>1, <4>2, EmptyStays
    <3>3. CASE Delivered(p, "reset")
      <4>1. PICK x \in Reactions(dev, "reset") : dev' = x.dev
        BY <3>3 DEF Delivered
      <4>2. "reset" \in Messages
        BY DEF Messages
      <4> QED BY <4>1, <4>2, Reacts
    <3> QED BY <2>1, <2>4, <3>2, <3>3, StopperGets
  <2>5. ASSUME pc'[p] \in {"baseline", "finish"} \cup Awaits
        PROVE  ctl'.stop.banner
    <3>1. ctl.stop.banner
      BY <2>1, <2>5, StopperGets DEF StopIsStill
    <3> QED BY <2>2, <3>1
  <2> QED BY <2>3, <2>4, <2>5
<1> QED BY <1>1, <1>2

-----------------------------------------------------------------------------
(* The alarm that a verification would overlook. *)

\* On the same connection an alarm that the bridge has read is noted, and
\* invalidates a Stop that has its banner.
LEMMA AlarmNoted ==
  ASSUME Resting, [Next]_vars, Linked, BridgeStep, BridgeReads, IsAlarm(NextEvent),
         NextEvent.gen = port, ~ForgivesAlarm3(ctl)
  PROVE  ctl'.alarmed /\ (ctl'.stop.run # 0 /\ ctl.stop.run # 0 => ctl'.stop.invalid)
<1> IInv /\ Attempting /\ Safe
  BY RestingParts DEF Resting
<1>1. ctl.gen = port /\ ctl.gen # 0
  BY DEF Linked
<1>2. ctl.stop.run # 0 => ctl.stop.gen = ctl.gen
  BY DEF Safe, StopOwnsRun
<1> QED BY <1>1, <1>2, AlarmHeard

LEMMA VerifierToldNext ==
  ASSUME Resting, [Next]_vars
  PROVE  VerifierTold'
<1> /\ IInv /\ Safe /\ TypeInv /\ Flow /\ PcOK /\ ctl \in Controller /\ rx \in Seq(RxEvent)
    /\ Attempting /\ VerifierTold /\ EaseIsRest
  BY RestingParts DEF Resting
<1> SUFFICES ASSUME NEW g \in Generation, Linked', ctl'.gen = g,
                    Saw(Verifier(g))' \/ pc'[Verifier(g)] = "verified"
             PROVE  ~dev'.alarm \/ AlarmComing' \/ ctl'.alarmed
  BY DEF VerifierTold
<1> DEFINE p == Verifier(g)
<1> p \in Procs
  BY Identities
<1>1. pc'[p] \in Awaits \/ pc'[p] = "verified"
  BY DEF Saw
<1>2. ~CommitConnect
  <2> SUFFICES ASSUME CommitConnect PROVE FALSE
    OBVIOUS
  <2>1. ctl' # ctl
    <3>1. pc[Connector] = "commit"
      BY DEF CommitConnect
    <3> QED BY <3>1 DEF Attempting, Generation
  <2>2. /\ pc' = [pc EXCEPT ![Connector] = "idle", ![Poller(opened)] = "idle",
                            ![Verifier(opened)] =
                               IF ctl.ready = "normal" THEN "off" ELSE "baseline"]
        /\ ctl'.gen = opened
    BY <2>1, GivenLink DEF CommitConnect
  <2>3. pc'[p] \in {"off", "baseline"}
    BY <2>2 DEF PcOK
  <2> QED BY <1>1, <2>3 DEF Awaits
<1>3. Linked /\ SamePort /\ ctl.gen = g /\ ctl'.gen = ctl.gen
  BY <1>2, LinkFrom
<1>4. /\ pc'[p] = "verified" => pc[p] = "verified" \/ Saw(p)
      /\ pc'[p] \in Awaits => pc[p] \in Awaits \/ p \notin fresh'
  <2>1. CASE pc'[p] = pc[p]
    BY <2>1
  <2>2. CASE VerifierStep(g)
    <3>1. /\ pc'[p] \in Awaits => pc[p] \in Awaits \/ p \notin fresh'
          /\ pc'[p] = "verified" => pc[p] = "waitIdle" /\ FreshReport(p, "Idle")
      BY <2>2, VerifierArrives
    <3> HIDE DEF p
    <3> QED BY <3>1 DEF Saw, FreshReport, Awaits
  <2> QED BY <1>2, <2>1, <2>2, Stands, WhoActs
<1>5. \/ pc[p] = "verified" \/ Saw(p)
      \/ pc[p] \in Awaits /\ BridgeStatus /\ ctl'.machine = "Idle"
  <2> HIDE DEF p
  <2> QED BY <1>4, SawFrom DEF Saw, p
<1>6. pc[p] # "off"
  BY <1>5 DEF Saw, Awaits
<1>7. ctl.run.id = 0 /\ ctl.stop.run = 0
  BY <1>3, <1>6, NoRunIsOver DEF Safe, LifecycleOwned, RunOver
<1>8. CASE BridgeStatus /\ ctl'.machine = "Idle"
  BY <1>3, <1>8, IdleHeard
<1>9. CASE pc[p] = "verified" \/ Saw(p)
  <2>1. ~dev.alarm \/ AlarmComing \/ ctl.alarmed
    BY <1>3, <1>9 DEF VerifierTold
  <2>2. CASE ctl.alarmed
    BY <1>2, <1>3, <2>2, AlarmedFrom
  <2>3. CASE ~dev.alarm \/ AlarmComing
    <3>1. CASE BridgeStep /\ BridgeReads /\ IsAlarm(NextEvent) /\ NextEvent.gen = port
      BY <1>3, <1>7, <3>1, AlarmNoted DEF ForgivesAlarm3
    <3> QED BY <1>3, <2>3, <3>1, AlarmTold
  <2> QED BY <2>1, <2>2, <2>3
<1> QED BY <1>5, <1>8, <1>9

LEMMA StopToldNext ==
  ASSUME Resting, [Next]_vars
  PROVE  StopTold'
<1> /\ IInv /\ Safe /\ TypeInv /\ Flow /\ PcOK /\ ctl \in Controller /\ rx \in Seq(RxEvent)
    /\ StopTold /\ StopIsStill
  BY RestingParts DEF Resting
<1> SUFFICES ASSUME NEW r \in RunID, Linked', ctl'.stop.run = r,
                    Saw(Stopper(r))' \/ pc'[Stopper(r)] = "finish"
             PROVE  ~dev'.alarm \/ AlarmComing' \/ ctl'.stop.invalid
  BY DEF StopTold
<1> DEFINE p == Stopper(r)
<1> p \in Procs /\ r # 0
  BY Identities DEF RunID
<1>1. pc'[p] \in Awaits \/ pc'[p] = "finish"
  BY DEF Saw
<1>2. ~StopProgram(r)
  <2>1. StopProgram(r) => pc'[p] = "acquire"
    BY GotoHere DEF StopProgram
  <2> QED BY <1>1, <2>1 DEF Awaits
<1>3. Linked /\ SamePort
  BY StopLink
<1>4. ctl.stop.run = r /\ (ctl.stop.invalid => ctl'.stop.invalid)
  BY <1>2, StopFrom
<1>5. \/ pc[p] = "finish" \/ Saw(p)
      \/ pc[p] \in Awaits /\ BridgeStatus /\ ctl'.machine = "Idle"
  <2>1. /\ pc'[p] \in Awaits => pc[p] \in Awaits \/ p \notin fresh'
        /\ pc'[p] = "finish" => pc[p] = "finish" \/ Saw(p)
    BY <1>4, StopperGets
  <2> HIDE DEF p
  <2> QED BY <2>1, SawFrom DEF Saw, p
<1>6. CASE BridgeStatus /\ ctl'.machine = "Idle"
  BY <1>3, <1>6, IdleHeard
<1>7. CASE pc[p] = "finish" \/ Saw(p)
  <2>1. ~dev.alarm \/ AlarmComing \/ ctl.stop.invalid
    BY <1>3, <1>4, <1>7 DEF StopTold
  <2>2. CASE ctl.stop.invalid
    BY <1>4, <2>2
  <2>3. CASE ~dev.alarm \/ AlarmComing
    <3>1. CASE BridgeStep /\ BridgeReads /\ IsAlarm(NextEvent) /\ NextEvent.gen = port
      <4>1. ctl.stop.banner
        BY <1>4, <1>7 DEF StopIsStill, Saw
      <4> QED BY <1>3, <1>4, <3>1, <4>1, AlarmNoted DEF ForgivesAlarm3
    <3> QED BY <1>3, <2>3, <3>1, AlarmTold
  <2> QED BY <2>1, <2>2, <2>3
<1> QED BY <1>5, <1>6, <1>7

-----------------------------------------------------------------------------
(* The invariant, and what follows from it. *)

LEMMA RestingInit == Init => Resting
<1> SUFFICES ASSUME Init PROVE Resting
  OBVIOUS
<1>1. RInv /\ Holding
  BY IInvInit, SerialInit, HoldingInit DEF RInv
<1>2. ctl.run.id = 0 /\ ctl.stop.run = 0 /\ port = 0 /\ ctl.gen = 0
  <2>1. /\ InitController.run = NoRun /\ InitController.stop = NoStop
        /\ InitController.gen = 0 /\ NoRun.id = 0 /\ NoStop.run = 0
    BY DEF InitController, NoRun, NoStop
  <2> QED BY <2>1 DEF Init
<1>3. \A r \in RunID : r # 0 /\ chan[r] = <<>>
  BY DEF Init, RunID
<1>4. DOMAIN rx = {}
  BY DEF Init
<1>5. ~Linked
  BY <1>2 DEF Linked
<1>6. StopHasSent /\ Attempting /\ Earlier /\ Started /\ IdleIsOld /\ CandidateQuiet
  BY <1>2, <1>3, <1>4 DEF StopHasSent, Attempting, Earlier, Started, IdleIsOld, CandidateQuiet
<1>7. EaseIsRest /\ RunAnswered /\ DrainIsStill /\ BannerIsLast /\ VerifierTold /\ StopTold
  BY <1>5 DEF EaseIsRest, RunAnswered, DrainIsStill, Runs, BannerIsLast, VerifierTold, StopTold
<1>8. BannerDrains /\ StopIsStill
  BY <1>2, <1>3 DEF BannerDrains, StopIsStill
<1> QED BY <1>1, <1>6, <1>7, <1>8 DEF Resting

LEMMA RestingNext ==
  ASSUME Resting, Serialisable, [Next]_vars
  PROVE  Resting'
<1>1. RInv /\ Holding /\ StopHasSent /\ Attempting /\ IInv /\ Flow
  BY RestingParts DEF Resting
<1>2. RInv' /\ Passes
  BY <1>1, RInvNext
<1>3. Holding' /\ StopHasSent' /\ Attempting'
  BY <1>1, <1>2, HoldingNext, StopHasSentNext, AttemptingNext
<1>4. IdleIsOld'
  BY <1>1, <1>2, IdleIsOldNext DEF RInv, IInv, Resting
<1>5. Earlier' /\ Started' /\ CandidateQuiet' /\ EaseIsRest' /\ RunAnswered' /\ DrainIsStill'
  BY <1>2, EarlierNext, StartedNext, CandidateQuietNext, EaseIsRestNext, RunAnsweredNext,
     DrainIsStillNext
<1>6. BannerIsLast' /\ BannerDrains' /\ StopIsStill' /\ VerifierTold' /\ StopTold'
  BY <1>2, BannerIsLastNext, BannerDrainsNext, StopIsStillNext, VerifierToldNext, StopToldNext
<1> QED BY <1>2, <1>3, <1>4, <1>5, <1>6 DEF Resting

LEMMA RestingAlways == Serialisable => (Spec => []Resting)
<1> SUFFICES ASSUME Serialisable PROVE Spec => []Resting
  OBVIOUS
<1>1. Resting /\ [Next]_vars => Resting'
  BY RestingNext
<1> QED BY RestingInit, <1>1, PTL DEF Spec

\* When readiness is normal and no program is active, nothing that a program
\* submitted moves the connected machine or waits in it: however the last run ended
\* (completed, stopped, failed, cut off by a disconnect or an emergency stop), what it
\* left behind costs the readiness, and a Stop or a verification that gives it back has
\* seen the machine at rest.
THEOREM NormalIsAtRest == Serialisable => (Spec => []NormalMeansAtRest)
<1> SUFFICES ASSUME Serialisable PROVE Spec => []NormalMeansAtRest
  OBVIOUS
<1>1. Resting => NormalMeansAtRest
  <2> SUFFICES ASSUME Resting, ctl.ready = "normal", ~ProgramActive(ctl),
                      IsConnected(ctl), port = ctl.gen
               PROVE  ~dev.motion /\ dev.lines = 0
    BY DEF NormalMeansAtRest
  <2>1. Linked
    BY DEF Resting, RInv, IInv, Safe, LifecycleOwned, Linked
  <2>2. AtEase(ctl)
    BY DEF AtEase, ProgramActive
  <2> QED BY <2>1, <2>2 DEF Resting, EaseIsRest, Quiet, Drained
<1> QED BY <1>1, RestingAlways, PTL

\* Readiness is regained only from a machine at rest with nothing queued, and from a
\* locked one only while the line that says so is still on its way: the fresh Idle that
\* finishProgramStop and verifyReadinessAfterConnect conclude from was sent behind the
\* last ok, and an alarm behind that Idle overrules it as soon as the bridge has read it.
THEOREM ReadinessIsRegained == Serialisable => (Spec => ReadinessRegained)
<1> SUFFICES ASSUME Serialisable PROVE Spec => ReadinessRegained
  OBVIOUS
<1> DEFINE Sound == dev.lines = 0 /\ ~dev.motion
                    /\ (dev.alarm => \E i \in DOMAIN rx : IsAlarm(rx[i]))
<1>1. ASSUME Resting, [Next]_vars, ctl.ready # "normal", ctl'.ready = "normal",
             port = ctl.gen
      PROVE  Sound
  <2> IInv /\ Safe /\ ctl \in Controller
    BY <1>1, RestingParts
  <2>1. ASSUME NEW g \in Generation, VerifierConcludes(g)
        PROVE  Sound
    <3>1. /\ ctl.gen = g /\ ctl.ready = "verifying" /\ pc[Verifier(g)] = "verified"
          /\ ~ctl.alarmed
      BY <1>1, <2>1 DEF VerifierConcludes, ConcludeVerification, Controller
    <3>2. Linked
      BY <1>1, <3>1 DEF Linked, Generation
    <3>3. AtEase(ctl)
      BY <3>1 DEF AtEase, Safe, LifecycleOwned
    <3>4. dev.lines = 0 /\ ~dev.motion
      BY <1>1, <3>2, <3>3 DEF Resting, EaseIsRest, Quiet, Drained
    <3>5. ~dev.alarm \/ AlarmComing
      BY <1>1, <3>1, <3>2 DEF Resting, VerifierTold
    <3> QED BY <3>4, <3>5 DEF AlarmComing
  <2>2. ASSUME NEW r \in RunID, StopFinishes(r), MayFinishStop(ctl, r)
        PROVE  Sound
    <3>1. /\ ctl.stop.run = r /\ IsConnected(ctl) /\ ~ctl.stop.invalid
          /\ pc[Stopper(r)] = "finish"
      BY <2>2 DEF StopFinishes, MayFinishStop, StopVerifiable
    <3>2. Linked
      BY <1>1, <3>1 DEF Linked, Safe, LifecycleOwned
    <3>3. dev.lines = 0 /\ ~dev.motion
      BY <1>1, <3>1, <3>2 DEF Resting, StopIsStill, Verifying
    <3>4. ~dev.alarm \/ AlarmComing
      BY <1>1, <3>1, <3>2 DEF Resting, StopTold
    <3> QED BY <3>3, <3>4 DEF AlarmComing
  <2> QED BY <1>1, <2>1, <2>2, ReadyFrom
<1> HIDE DEF Sound
<1>2. Resting /\ [Next]_vars =>
        [ctl.ready # "normal" /\ ctl'.ready = "normal" /\ port = ctl.gen => Sound]_vars
  BY <1>1
<1>3. Spec => [][ctl.ready # "normal" /\ ctl'.ready = "normal" /\ port = ctl.gen => Sound]_vars
  BY <1>2, RestingAlways, PTL DEF Spec
<1> QED BY <1>3, PTL DEF ReadinessRegained, Sound
=============================================================================
