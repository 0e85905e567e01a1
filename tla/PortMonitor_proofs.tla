-------------------------- MODULE PortMonitor_proofs --------------------------
(***************************************************************************)
(* What holds of the serial transport and the connection lifecycle for any *)
(* number of generations, machines, queue places, stray lines and upsets.  *)
(*                                                                         *)
(* The system touches the transport in a dozen ways only (TransportStep),  *)
(* so what concerns the transport alone (its types, Ends) is proved once   *)
(* for each of those and not for each action.  Roles says who is inside    *)
(* connect and Disconnect, and that the end of a generation which is just  *)
(* opened, a candidate or committed cannot be lost; Asked follows the      *)
(* startup lines from the wire to the queue of the attempt.                *)
(***************************************************************************)
EXTENDS PortMonitor, TLAPS, SequenceTheorems, FiniteSetTheorems, WellFoundedInduction

-----------------------------------------------------------------------------
(* Sequences of events. *)

LEMMA Bounds ==
  /\ MaxGen \in Nat \ {0} /\ MaxEvents \in Nat \ {0} /\ MaxQueue \in Nat \ {0}
  /\ MaxStray \in Nat /\ MaxUpsets \in Nat /\ MaxRequests \in Nat
BY TransportAssumption, HandshakeAssumption, MonitorAssumption

LEMMA EventTyped ==
  ASSUME NEW kind \in {"connected", "tx", "rx", "error", "disconnected"},
         NEW g \in Generation, NEW text \in Texts
  PROVE  Event(kind, g, text) \in EventType
BY DEF Event, EventType

\* Marking the lines of a queue as old changes nothing else.
LEMMA Marked ==
  ASSUME NEW s \in Seq(EventType)
  PROVE  /\ MarkOld(s) \in Seq(EventType) /\ Len(MarkOld(s)) = Len(s)
         /\ DOMAIN MarkOld(s) = DOMAIN s
         /\ \A i \in DOMAIN s : /\ MarkOld(s)[i].kind = s[i].kind /\ MarkOld(s)[i].gen = s[i].gen
                                /\ MarkOld(s)[i].text = s[i].text
                                /\ MarkOld(s)[i].old = (s[i].old \/ s[i].kind = "rx")
<1> DEFINE t == MarkOld(s)
<1>1. Len(s) \in Nat /\ DOMAIN s = 1..Len(s)
  BY LenProperties
<1>2. \A i \in DOMAIN s : s[i] \in EventType
  BY <1>1, ElementOfSeq
<1>3. DOMAIN t = DOMAIN s /\ \A i \in DOMAIN s : t[i] = [s[i] EXCEPT !.old = s[i].old \/ s[i].kind = "rx"]
  BY DEF MarkOld
<1>4. \A i \in DOMAIN s :
        /\ t[i] \in EventType
        /\ t[i].kind = s[i].kind /\ t[i].gen = s[i].gen /\ t[i].text = s[i].text
        /\ t[i].old = (s[i].old \/ s[i].kind = "rx")
  BY <1>2, <1>3 DEF EventType
<1>5. t \in [1..Len(s) -> EventType]
  BY <1>1, <1>4 DEF MarkOld
<1> HIDE DEF t
<1>6. t \in Seq(EventType) /\ Len(t) = Len(s)
  BY <1>1, <1>5
<1> QED BY <1>1, <1>3, <1>4, <1>6 DEF t

LEMMA LessThan == \A x, y \in Nat : <<x, y>> \in OpToRel(<, Nat) <=> x < y
BY SMT DEF OpToRel

LEMMA Smallest ==
  ASSUME NEW S \in SUBSET Nat, S # {}
  PROVE  (CHOOSE g \in S : \A h \in S : g <= h) \in S
<1>1. \E x \in S : \A y \in S : ~(<<y, x>> \in OpToRel(<, Nat))
  BY NatLessThanWellFounded, WFMin
<1>2. PICK x \in S : \A y \in S : ~(<<y, x>> \in OpToRel(<, Nat))
  BY <1>1
<1>3. \A y \in S : ~(y < x)
  BY <1>2, LessThan
<1>4. \E g \in S : \A h \in S : g <= h
  BY <1>3
<1> QED BY <1>4

-----------------------------------------------------------------------------
(* The transport: what any step of the system does to it. *)

\* The bridge takes an event; the query marks every line read so far as old; a
\* write puts its event on the channel.
Taken == events # <<>> /\ events' = Tail(events) /\ UNCHANGED <<port, opening, closing, reader>>
MarkedOld ==
  /\ events' = MarkOld(events)
  /\ reader' = [g \in Generation |-> [reader[g] EXCEPT !.old = reader[g].at = "line"]]
  /\ UNCHANGED <<port, opening, closing>>
Written(g) == Sends(Event("tx", g, "other")) /\ UNCHANGED <<port, opening, closing, reader>>

Keeps ==
  \/ UNCHANGED transportVars
  \/ OpenReturns \/ CloseReturns \/ MarkedOld
  \/ \E g \in Generation :
       \/ OpenPort(g) \/ ReaderStep(g) \/ LosesPort(g) \/ Written(g)
       \/ \E text \in Texts : Reads(g, text)
TransportStep == Keeps \/ CloseTakes \/ Taken

LEMMA ReaderTyped ==
  ASSUME TransportType, NEW g \in Generation, NEW at \in {"off", "reading", "line", "error", "end"},
         Reader(g, at)
  PROVE  /\ reader' \in [Generation -> ReaderType]
         /\ reader'[g].at = at /\ reader'[g].text = "other"
         /\ \A h \in Generation \ {g} : reader'[h] = reader[h]
<1> DEFINE r == [Off EXCEPT !.at = at]
<1>1. r \in ReaderType /\ r.at = at /\ r.text = "other"
  BY DEF Off, ReaderType, Texts
<1>2. reader' = [reader EXCEPT ![g] = r]
  BY DEF Reader
<1> HIDE DEF r
<1> QED BY <1>1, <1>2 DEF TransportType

LEMMA SendsTyped ==
  ASSUME TransportType, NEW e \in EventType, Sends(e)
  PROVE  /\ events' \in Seq(EventType) /\ Len(events') <= MaxEvents
         /\ Len(events') = Len(events) + 1 /\ events'[Len(events) + 1] = e
         /\ \A i \in 1..Len(events) : events'[i] = events[i]
         /\ Len(events) \in Nat /\ DOMAIN events = 1..Len(events)
         /\ DOMAIN events' = 1..Len(events')
<1>1. events \in Seq(EventType) /\ events' = Append(events, e) /\ Len(events) < MaxEvents
  BY DEF TransportType, Sends, Room
<1>2. Len(events) \in Nat /\ DOMAIN events = 1..Len(events)
  BY <1>1, LenProperties
<1>3. DOMAIN events' = 1..Len(events')
  BY <1>1, AppendProperties, LenProperties
<1> QED BY <1>1, <1>2, <1>3, AppendProperties, Bounds

LEMMA TakenTyped ==
  ASSUME TransportType, Taken
  PROVE  /\ events' \in Seq(EventType) /\ Len(events') <= MaxEvents
         /\ Len(events') = Len(events) - 1 /\ Len(events) \in Nat \ {0}
         /\ \A i \in 1..Len(events') : events'[i] = events[i + 1]
         /\ DOMAIN events = 1..Len(events) /\ DOMAIN events' = 1..Len(events')
         /\ Head(events) \in EventType /\ Head(events) = events[1]
<1>1. events \in Seq(EventType) /\ events # <<>> /\ events' = Tail(events) /\ Len(events) <= MaxEvents
  BY DEF TransportType, Taken
<1>2. Len(events) \in Nat \ {0} /\ DOMAIN events = 1..Len(events)
  BY <1>1, LenProperties, EmptySeq
<1>3. events' \in Seq(EventType) /\ Len(events') = Len(events) - 1 /\ Head(events) \in EventType
      /\ \A i \in 1..Len(events') : events'[i] = events[i + 1]
  BY <1>1, HeadTailProperties
<1>4. DOMAIN events' = 1..Len(events')
  BY <1>3, LenProperties
<1> QED BY <1>1, <1>2, <1>3, <1>4, Bounds

LEMMA MarkedTyped ==
  ASSUME TransportType, MarkedOld
  PROVE  /\ events' \in Seq(EventType) /\ Len(events') = Len(events) /\ DOMAIN events' = DOMAIN events
         /\ \A i \in DOMAIN events : /\ events'[i].kind = events[i].kind
                                     /\ events'[i].gen = events[i].gen
                                     /\ events'[i].text = events[i].text
                                     /\ events'[i].old = (events[i].old \/ events[i].kind = "rx")
         /\ reader' \in [Generation -> ReaderType]
         /\ \A g \in Generation : /\ reader'[g].at = reader[g].at /\ reader'[g].text = reader[g].text
                                  /\ reader'[g].old = (reader[g].at = "line")
<1>1. events \in Seq(EventType) /\ reader \in [Generation -> ReaderType]
  BY DEF TransportType
<1>2. \A g \in Generation : /\ reader'[g] \in ReaderType
                            /\ reader'[g].at = reader[g].at /\ reader'[g].text = reader[g].text
                            /\ reader'[g].old = (reader[g].at = "line")
  BY <1>1 DEF MarkedOld, ReaderType
<1>3. reader' \in [Generation -> ReaderType]
  BY <1>2 DEF MarkedOld
<1>4. events' = MarkOld(events)
  BY DEF MarkedOld
<1>5. /\ events' \in Seq(EventType) /\ Len(events') = Len(events) /\ DOMAIN events' = DOMAIN events
      /\ \A i \in DOMAIN events : /\ events'[i].kind = events[i].kind
                                  /\ events'[i].gen = events[i].gen
                                  /\ events'[i].text = events[i].text
                                  /\ events'[i].old = (events[i].old \/ events[i].kind = "rx")
  BY <1>1, <1>4, Marked
<1> QED BY <1>2, <1>3, <1>5

LEMMA TransportTyped ==
  ASSUME TransportType, TransportStep
  PROVE  TransportType'
<1> USE Bounds DEF Generation
<1>1. CASE UNCHANGED transportVars
  BY <1>1 DEF transportVars, TransportType
<1>2. CASE OpenReturns
  <2>1. opening \in Generation
    BY <1>2 DEF OpenReturns, TransportType
  <2>2. Event("connected", opening, "other") \in EventType
    BY <2>1, EventTyped DEF Texts
  <2> QED BY <1>2, <2>2, SendsTyped DEF OpenReturns, TransportType
<1>3. CASE CloseTakes
  BY <1>3 DEF CloseTakes, TransportType
<1>4. CASE CloseReturns
  <2>1. closing \in Generation
    BY <1>4 DEF CloseReturns, TransportType
  <2>2. Event("disconnected", closing, "other") \in EventType
    BY <2>1, EventTyped DEF Texts
  <2> QED BY <1>4, <2>2, SendsTyped DEF CloseReturns, TransportType
<1>5. CASE Taken
  BY <1>5, TakenTyped DEF Taken, TransportType
<1>6. CASE MarkedOld
  BY <1>6, MarkedTyped DEF MarkedOld, TransportType
<1>7. ASSUME NEW g \in Generation, OpenPort(g) PROVE TransportType'
  BY <1>7, ReaderTyped DEF OpenPort, TransportType
<1>8. ASSUME NEW g \in Generation, ReaderStep(g) PROVE TransportType'
  <2>1. CASE SendsLine(g)
    <3>1. reader[g] \in ReaderType
      BY DEF TransportType
    <3>2. [Event("rx", g, reader[g].text) EXCEPT !.old = reader[g].old] \in EventType
      BY <3>1 DEF Event, EventType, ReaderType
    <3> QED BY <2>1, <3>2, SendsTyped, ReaderTyped DEF SendsLine, TransportType
  <2>2. CASE SeesClosed(g)
    BY <2>2, ReaderTyped DEF SeesClosed, TransportType
  <2>3. CASE SendsEnd(g)
    <3>1. Event("error", g, "other") \in EventType /\ Event("disconnected", g, "other") \in EventType
      BY EventTyped DEF Texts
    <3> QED BY <2>3, <3>1, SendsTyped, ReaderTyped DEF SendsEnd, TransportType
  <2> QED BY <1>8, <2>1, <2>2, <2>3 DEF ReaderStep
<1>9. ASSUME NEW g \in Generation, LosesPort(g) PROVE TransportType'
  BY <1>9, ReaderTyped DEF LosesPort, TransportType
<1>10. ASSUME NEW g \in Generation, Written(g) PROVE TransportType'
  <2>1. Event("tx", g, "other") \in EventType
    BY EventTyped DEF Texts
  <2> QED BY <1>10, <2>1, SendsTyped DEF Written, TransportType
<1>11. ASSUME NEW g \in Generation, NEW text \in Texts, Reads(g, text) PROVE TransportType'
  <2>1. [at |-> "line", text |-> text, old |-> FALSE] \in ReaderType
    BY DEF ReaderType
  <2> QED BY <1>11, <2>1 DEF Reads, TransportType
<1> QED BY <1>1, <1>2, <1>3, <1>4, <1>5, <1>6, <1>7, <1>8, <1>9, <1>10, <1>11 DEF TransportStep, Keeps

-----------------------------------------------------------------------------
(* The inductive invariant. *)

ControlType ==
  [conn : {"disconnected", "connecting", "connected"},
   transition : {"stable", "connecting", "disconnecting"},
   candidate : 0..MaxGen, err : BOOLEAN, early : SUBSET Generation, queue : Seq(EventType),
   gen : 0..MaxGen, suppress : 0..MaxGen, settings : SUBSET {"setting", "stray"},
   name : Machines \cup {Nobody}]
ShakeType ==
  [at : {"idle", "open", "opening", "opened", "banner", "quiet", "query", "write", "settings",
         "commit", "suppress", "close", "closing", "end"},
   by : {Nobody, "monitor", "user"}, machine : Machines \cup {Nobody}, gen : 0..MaxGen,
   got : SUBSET {"setting", "stray"}]
DevType == [stage : {"off", "boot", "startup", "still", "asked", "answered", "mute"},
            left : 0..MaxStray]
MonitorType == [at : {"scan", "consider", "try", "connect", "wait", "off"},
                machine : Machines \cup {Nobody}, cancel : BOOLEAN]
PolicyType == [seen : SUBSET Machines, suppressed : Machines \cup {Nobody},
               retry : Machines \cup {Nobody}, due : BOOLEAN]
UserType == [at : {"idle", "join", "close", "closing", "clear"},
             machine : Machines \cup {Nobody}, asked : 0..MaxRequests]
PollerType == [gen : 0..MaxGen, at : {"idle", "write"}, stop : BOOLEAN]

\* What the bridge diverts to an attempt.
QueueKinds(c) == \A i \in DOMAIN c.queue : c.queue[i].kind \in {"rx", "error", "disconnected"}

Types ==
  /\ TransportType
  /\ ctl \in ControlType /\ Len(ctl.queue) <= MaxQueue /\ QueueKinds(ctl)
  /\ shake \in ShakeType /\ dev \in [Generation -> DevType]
  /\ plugged \subseteq Machines /\ upsets \in 0..MaxUpsets
  /\ mon \in MonitorType /\ policy \in PolicyType /\ user \in UserType
  /\ bridge \in 0..MaxGen /\ poller \in PollerType
  /\ poller.at = "write" => poller.gen # 0

\* The end of generation g is among the events, or on its way there.
Ended(g) == \E i \in DOMAIN events : events[i].kind = "disconnected" /\ events[i].gen = g
Ending(g) == reader[g].at \in {"error", "end"}

\* A generation whose end is queued is over: no port, no close under way, no
\* reader; at most one of these brings the end about; its events are in order.
Ends ==
  /\ \A g \in Generation :
       /\ Ended(g) => port # g /\ closing # g /\ reader[g].at = "off"
       /\ port = g => closing # g
       /\ Ending(g) => port # g /\ closing # g
  /\ \A i, j \in DOMAIN events :
       events[i].kind = "disconnected" /\ events[i].gen = events[j].gen =>
         /\ events[j].kind = "disconnected" => i = j
         /\ events[j].kind \in {"rx", "error"} => j < i

\* The stages of an attempt before and while it holds a candidate, and what is left
\* to tell of a generation: it is open, or its end is on its way.
Unaware == {"idle", "open", "opening", "opened"}
Held == {"banner", "quiet", "query", "write", "settings", "commit"}
News(g) == port = g \/ Ending(g) \/ Ended(g)

\* One caller is inside connect or Disconnect; a generation that is opened or a
\* candidate is not the one whose end is to be suppressed; an end the bridge took
\* before the controller knew of the generation is among the early ones, where the
\* attempt will look it up, and one it took from a candidate has left an error that
\* the commit will see.
Roles ==
  /\ shake.at # "idle" <=> ctl.transition = "connecting"
  /\ user.at # "idle" <=> ctl.transition = "disconnecting"
  /\ ctl.conn = "connected" => ctl.transition # "connecting" /\ ctl.gen # 0
  /\ shake.at # "opening" => opening = 0
  /\ shake.at = "opening" => opening # 0 /\ port = opening /\ opening # ctl.suppress
  /\ shake.at \in Unaware => ctl.candidate = 0
  /\ shake.at = "opened" => /\ shake.gen # 0 /\ shake.gen # ctl.suppress
                            /\ shake.gen \in ctl.early \/ News(shake.gen)
  /\ shake.at \in Held => /\ ctl.candidate # 0 /\ ctl.candidate # ctl.suppress
                          /\ ctl.err \/ News(ctl.candidate)
  /\ ctl.conn = "connected" /\ ctl.transition = "stable" =>
       \/ bridge = ctl.gen
       \/ ctl.gen # ctl.suppress /\ News(ctl.gen)

\* Only lines have a text; a line counted as new is none of the startup output.
Plain(e) == e.kind # "rx" => e.text = "other"
Fresh(e, g) == e.gen = g /\ ~e.old => e.text # "stray"
LineClean(g) == reader[g].at = "line" => reader[g].old \/ reader[g].text # "stray"
EventsClean(g) == \A i \in DOMAIN events : Fresh(events[i], g)

\* Before the query the machine falls silent, and all that was read so far is
\* marked old: what the attempt then accepts answers its query.
Asked ==
  /\ \A i \in DOMAIN events : Plain(events[i])
  /\ \A i \in DOMAIN ctl.queue : Plain(ctl.queue[i])
  /\ shake.got \subseteq {"setting"}
  /\ shake.at \in {"query", "write", "settings"} =>
       dev[ctl.candidate].stage \notin {"boot", "startup"}
  /\ shake.at \in {"write", "settings"} =>
       /\ EventsClean(ctl.candidate) /\ LineClean(ctl.candidate)
       /\ \A i \in DOMAIN ctl.queue : Fresh(ctl.queue[i], ctl.candidate)
  /\ shake.at = "commit" => shake.got = {"setting"}
  /\ ctl.conn = "connected" => ctl.settings = {"setting"}

IInv == Types /\ Ends /\ Roles /\ Asked

-----------------------------------------------------------------------------
(* Types: the attempt to connect. *)

LEMMA TypesRest ==
  ASSUME Types, TransportStep,
         ctl' \in ControlType, Len(ctl'.queue) <= MaxQueue, QueueKinds(ctl'),
         shake' \in ShakeType, dev' \in [Generation -> DevType],
         plugged' \subseteq Machines, upsets' \in 0..MaxUpsets,
         UNCHANGED monitorVars
  PROVE  Types'
BY TransportTyped DEF Types, monitorVars

\* What the system's own variables keep when a step leaves them alone.
LEMMA Elsewhere ==
  ASSUME Types
  PROVE  /\ TransportType
         /\ ctl \in ControlType /\ Len(ctl.queue) <= MaxQueue /\ ctl.queue \in Seq(EventType)
         /\ QueueKinds(ctl)
         /\ shake \in ShakeType /\ dev \in [Generation -> DevType]
         /\ plugged \subseteq Machines /\ upsets \in 0..MaxUpsets
BY DEF Types, ControlType

LEMMA AtType ==
  ASSUME Types, NEW at \in {"open", "opening", "banner", "quiet", "query", "write", "settings",
                            "commit", "suppress", "close", "closing", "end"}, At(at)
  PROVE  shake' \in ShakeType /\ shake' = [shake EXCEPT !.at = at]
BY DEF Types, At, ShakeType

LEMMA UpsetType ==
  ASSUME Types, NEW kind, Upset(kind)
  PROVE  upsets' \in 0..MaxUpsets
BY Bounds DEF Types, Upset

LEMMA UnusedOpened ==
  ASSUME Unused # {}
  PROVE  (CHOOSE g \in Unused : \A h \in Unused : g <= h) \in Generation
<1>1. Unused \in SUBSET Nat /\ Unused \subseteq Generation
  BY Bounds DEF Unused, Generation
<1> QED BY <1>1, Smallest

LEMMA OpensTypes ==
  ASSUME Types, Opens, UNCHANGED monitorVars
  PROVE  TransportStep /\ Types'
<1>1. PICK g \in Generation : OpenPort(g) /\ dev' = [dev EXCEPT ![g] = [stage |-> "boot", left |-> MaxStray]]
  BY UnusedOpened DEF Opens
<1>2. TransportStep
  BY <1>1 DEF TransportStep, Keeps
<1>3. dev' \in [Generation -> DevType]
  BY <1>1, Elsewhere, Bounds DEF DevType
<1>4. shake' \in ShakeType /\ UNCHANGED <<ctl, plugged, upsets>>
  BY AtType DEF Opens
<1> QED BY <1>2, <1>3, <1>4, Elsewhere, TypesRest

LEMMA OpenFailsTypes ==
  ASSUME Types, OpenFails, UNCHANGED monitorVars
  PROVE  TransportStep /\ Types'
<1>1. shake' \in ShakeType
  BY AtType DEF OpenFails
<1>2. upsets' \in 0..MaxUpsets
  BY UpsetType, Elsewhere DEF OpenFails
<1>3. TransportStep /\ UNCHANGED <<ctl, dev, plugged>>
  BY DEF OpenFails, TransportStep, Keeps
<1> QED BY <1>1, <1>2, <1>3, Elsewhere, TypesRest

LEMMA OpenedTypes ==
  ASSUME Types, Opened, UNCHANGED monitorVars
  PROVE  TransportStep /\ Types'
<1>1. opening \in 0..MaxGen
  BY Elsewhere DEF TransportType
<1>2. shake' \in ShakeType
  BY <1>1, Elsewhere DEF Opened, ShakeType
<1>3. TransportStep /\ UNCHANGED <<ctl, dev, plugged, upsets>>
  BY DEF Opened, TransportStep, Keeps
<1> QED BY <1>2, <1>3, Elsewhere, TypesRest

LEMMA NoteOpenedTypes ==
  ASSUME Types, NoteOpened, UNCHANGED monitorVars
  PROVE  TransportStep /\ Types'
<1>1. shake' \in ShakeType
  BY AtType DEF NoteOpened, Fails
<1>2. ctl' \in ControlType /\ ctl'.queue = ctl.queue
  <2> DEFINE err == ctl.err \/ shake.gen \in ctl.early
             early == ctl.early \ {shake.gen}
  <2>1. err \in BOOLEAN /\ early \in SUBSET Generation /\ shake.gen \in 0..MaxGen
    BY Elsewhere DEF ControlType, ShakeType
  <2>2. ctl' = [ctl EXCEPT !.candidate = shake.gen, !.err = err, !.early = early]
    BY DEF NoteOpened
  <2> HIDE DEF err, early
  <2> QED BY <2>1, <2>2, Elsewhere DEF ControlType
<1>3. TransportStep /\ UNCHANGED <<dev, plugged, upsets>>
  BY DEF NoteOpened, TransportStep, Keeps
<1> QED BY <1>1, <1>2, <1>3, Elsewhere, TypesRest DEF QueueKinds

\* Taking an event from the attempt's queue.
LEMMA TakesType ==
  ASSUME Types, Takes, ctl.queue # <<>>
  PROVE  /\ ctl' \in ControlType /\ Len(ctl'.queue) <= MaxQueue
         /\ ctl' = [ctl EXCEPT !.queue = Tail(ctl.queue)]
         /\ QueueKinds(ctl') /\ Next1.kind \in {"rx", "error", "disconnected"}
         /\ Next1 = ctl.queue[1] /\ 1 \in DOMAIN ctl.queue
         /\ DOMAIN ctl.queue = 1..Len(ctl.queue) /\ Len(ctl.queue) \in Nat
         /\ DOMAIN ctl'.queue = 1..Len(ctl.queue) - 1
         /\ \A i \in DOMAIN ctl'.queue : i + 1 \in DOMAIN ctl.queue /\ ctl'.queue[i] = ctl.queue[i + 1]
<1> DEFINE q == ctl.queue
<1>1. q \in Seq(EventType) /\ Len(q) <= MaxQueue /\ q # <<>>
  BY Elsewhere
<1>2. /\ Head(q) \in EventType /\ Tail(q) \in Seq(EventType) /\ Len(Tail(q)) = Len(q) - 1
      /\ \A i \in 1..Len(Tail(q)) : Tail(q)[i] = q[i + 1]
  BY <1>1, HeadTailProperties
<1>3. Len(q) \in Nat \ {0} /\ DOMAIN q = 1..Len(q) /\ Head(q) = q[1]
  BY <1>1, EmptySeq, LenProperties
<1>4. DOMAIN Tail(q) = 1..Len(Tail(q))
  BY <1>2, LenProperties
<1>5. ctl' = [ctl EXCEPT !.queue = Tail(q)] /\ ctl'.queue = Tail(q)
  BY Elsewhere DEF Takes, ControlType
<1>6. ctl' \in ControlType
  BY <1>2, <1>5, Elsewhere DEF ControlType
<1>7. QueueKinds(ctl)
  BY Elsewhere
<1>8. DOMAIN ctl'.queue = 1..Len(q) - 1 /\ Len(ctl'.queue) <= MaxQueue
  BY <1>1, <1>2, <1>3, <1>4, <1>5, Bounds
<1>9. \A i \in DOMAIN ctl'.queue : i + 1 \in DOMAIN q /\ ctl'.queue[i] = q[i + 1]
  BY <1>2, <1>3, <1>4, <1>5, <1>8
<1>10. QueueKinds(ctl') /\ Next1 = q[1] /\ 1 \in DOMAIN q
  BY <1>3, <1>7, <1>9 DEF QueueKinds, Next1
<1>11. Next1.kind \in {"rx", "error", "disconnected"}
  BY <1>7, <1>10 DEF QueueKinds
<1> QED BY <1>3, <1>5, <1>6, <1>8, <1>9, <1>10, <1>11

LEMMA TakesEventTypes ==
  ASSUME Types, TakesBanner \/ TakesStartup \/ TakesAnswer, UNCHANGED monitorVars
  PROVE  TransportStep /\ Types'
<1>1. ctl' \in ControlType /\ Len(ctl'.queue) <= MaxQueue /\ QueueKinds(ctl')
      /\ Next1.kind \in {"rx", "error", "disconnected"}
  BY TakesType DEF TakesBanner, TakesStartup, TakesAnswer, Ready
<1>2. shake' \in ShakeType
  <2>1. CASE TakesBanner \/ TakesStartup
    <3>1. Fails \/ At("quiet") \/ UNCHANGED shake
      BY <1>1, <2>1 DEF TakesBanner, TakesStartup, EventType
    <3> QED BY <3>1, AtType, Elsewhere DEF Fails
  <2>2. CASE TakesAnswer
    <3>1. \/ Fails \/ At("commit") \/ UNCHANGED shake
          \/ Next1.text \in {"setting", "stray"} /\ shake' = [shake EXCEPT !.got = @ \cup {Next1.text}]
      BY <1>1, <2>2 DEF TakesAnswer, EventType
    <3> QED BY <3>1, AtType, Elsewhere DEF Fails, ShakeType
  <2> QED BY <2>1, <2>2
<1>3. TransportStep /\ UNCHANGED <<dev, plugged, upsets>>
  BY DEF TakesBanner, TakesStartup, TakesAnswer, TransportStep, Keeps
<1> QED BY <1>1, <1>2, <1>3, Elsewhere, TypesRest

LEMMA QueryStartsTypes ==
  ASSUME Types, QueryStarts, UNCHANGED monitorVars
  PROVE  /\ TransportStep /\ Types' /\ MarkedOld
         /\ ctl' = [ctl EXCEPT !.queue = MarkOld(ctl.queue)]
<1>1. MarkedOld
  BY DEF QueryStarts, MarkedOld
<1>2. shake' \in ShakeType
  BY AtType DEF QueryStarts
<1>3. ctl' = [ctl EXCEPT !.queue = MarkOld(ctl.queue)]
  BY DEF QueryStarts
<1>4. ctl' \in ControlType /\ ctl'.queue = MarkOld(ctl.queue)
  BY <1>3, Marked, Elsewhere DEF ControlType
<1>5. Len(ctl'.queue) <= MaxQueue /\ QueueKinds(ctl')
  BY <1>4, Marked, Elsewhere DEF QueueKinds
<1>6. TransportStep /\ UNCHANGED <<dev, plugged, upsets>>
  BY <1>1 DEF QueryStarts, TransportStep, Keeps
<1> QED BY <1>1, <1>2, <1>3, <1>4, <1>5, <1>6, Elsewhere, TypesRest

LEMMA WritesQueryTypes ==
  ASSUME Types, WritesQuery, UNCHANGED monitorVars
  PROVE  TransportStep /\ Types'
<1>1. port \in Generation /\ Written(port)
  BY Bounds DEF Types, TransportType, WritesQuery, Written, Generation
<1>2. dev' \in [Generation -> DevType]
  <2> DEFINE stage == IF dev[port].stage = "mute" THEN dev[port].stage ELSE "asked"
  <2>1. dev' = [dev EXCEPT ![port].stage = stage] /\ stage \in {"mute", "asked"}
    BY DEF WritesQuery
  <2> HIDE DEF stage
  <2> QED BY <1>1, <2>1, Elsewhere DEF DevType
<1>3. shake' \in ShakeType
  BY AtType DEF WritesQuery
<1>4. TransportStep /\ UNCHANGED <<ctl, plugged, upsets>>
  BY <1>1 DEF WritesQuery, TransportStep, Keeps
<1> QED BY <1>2, <1>3, <1>4, Elsewhere, TypesRest

LEMMA WaitsTypes ==
  ASSUME Types, Quiet \/ WriteFails \/ SeesError \/ TimesOut, UNCHANGED monitorVars
  PROVE  TransportStep /\ Types'
<1>1. shake' \in ShakeType
  BY AtType DEF Quiet, WriteFails, SeesError, TimesOut, Fails
<1>2. upsets' \in 0..MaxUpsets
  BY UpsetType, Elsewhere DEF Quiet, WriteFails, SeesError, TimesOut
<1>3. TransportStep /\ UNCHANGED <<ctl, dev, plugged>>
  BY DEF Quiet, WriteFails, SeesError, TimesOut, TransportStep, Keeps
<1> QED BY <1>1, <1>2, <1>3, Elsewhere, TypesRest

LEMMA FailureTypes ==
  ASSUME Types, Suppresses \/ ClosesCandidate, UNCHANGED monitorVars
  PROVE  TransportStep /\ Types'
<1>1. shake' \in ShakeType
  BY AtType DEF Suppresses, ClosesCandidate
<1>2. ctl' \in ControlType /\ ctl'.queue = ctl.queue
  BY Elsewhere DEF Suppresses, ClosesCandidate, ControlType
<1>3. TransportStep /\ UNCHANGED <<dev, plugged, upsets>>
  BY DEF Suppresses, ClosesCandidate, TransportStep, Keeps
<1> QED BY <1>1, <1>2, <1>3, Elsewhere, TypesRest DEF QueueKinds

\* The machine's side: one generation's device, and what its readLoop reads.
LEMMA MachineTypes ==
  ASSUME Types, NEW g \in Generation, MachineSpeaks(g) \/ StartupEnds(g) \/ ReadFails(g) \/ GoesMute(g),
         UNCHANGED monitorVars
  PROVE  TransportStep /\ Types'
<1>1. TransportStep
  BY DEF MachineSpeaks, Prints, StartupEnds, ReadFails, GoesMute, TransportStep, Keeps, Texts
<1>2. dev' \in [Generation -> DevType]
  <2>1. dev[g] \in DevType
    BY Elsewhere
  <2>2. CASE MachineSpeaks(g)
    <3>1. CASE dev[g].stage = "startup"
      <4> DEFINE left == dev[g].left - 1
      <4>1. left \in 0..MaxStray /\ dev' = [dev EXCEPT ![g].left = left]
        BY <2>1, <2>2, <3>1, Bounds DEF MachineSpeaks, DevType
      <4> HIDE DEF left
      <4> QED BY <4>1, Elsewhere DEF DevType
    <3>2. CASE dev[g].stage # "startup"
      BY <2>2, <3>2, Elsewhere DEF MachineSpeaks, Prints, DevType
    <3> QED BY <3>1, <3>2
  <2>3. CASE StartupEnds(g) \/ ReadFails(g) \/ GoesMute(g)
    BY <2>3, Elsewhere DEF StartupEnds, ReadFails, GoesMute, handshakeVars, DevType
  <2> QED BY <2>2, <2>3
<1>3. upsets' \in 0..MaxUpsets
  BY UpsetType, Elsewhere DEF MachineSpeaks, StartupEnds, ReadFails, GoesMute, handshakeVars
<1>4. UNCHANGED <<ctl, shake, plugged>>
  BY DEF MachineSpeaks, StartupEnds, ReadFails, GoesMute, handshakeVars
<1> QED BY <1>1, <1>2, <1>3, <1>4, Elsewhere, TypesRest

LEMMA ReaderStepTypes ==
  ASSUME Types, NEW g \in Generation, ReaderStep(g), UNCHANGED <<handshakeVars, monitorVars>>
  PROVE  TransportStep /\ Types'
<1>1. TransportStep
  BY DEF TransportStep, Keeps
<1> QED BY <1>1, Elsewhere, TypesRest DEF handshakeVars

LEMMA PlugTypes ==
  ASSUME Types, Plugs \/ Unplugs
  PROVE  TransportStep /\ Types'
<1>1. TransportStep /\ UNCHANGED <<ctl, shake, monitorVars>>
  BY DEF Plugs, Unplugs, TransportStep, Keeps
<1>2. dev' \in [Generation -> DevType]
  BY Elsewhere, Bounds DEF Plugs, Unplugs, DevType, NoDevice
<1>3. plugged' \subseteq Machines /\ upsets' \in 0..MaxUpsets
  BY UpsetType, Elsewhere DEF Plugs, Unplugs
<1> QED BY <1>1, <1>2, <1>3, Elsewhere, TypesRest

-----------------------------------------------------------------------------
(* The monitor, the bridge, the operator and the poller. *)

LEMMA TypesControl ==
  ASSUME Types, TransportStep,
         ctl' \in ControlType, Len(ctl'.queue) <= MaxQueue, QueueKinds(ctl'),
         shake' \in ShakeType, UNCHANGED <<dev, plugged, upsets>>,
         mon' \in MonitorType, policy' \in PolicyType, user' \in UserType,
         bridge' \in 0..MaxGen, poller' \in PollerType,
         poller'.at = "write" => poller'.gen # 0
  PROVE  Types'
BY TransportTyped DEF Types

LEMMA Beside ==
  ASSUME Types
  PROVE  /\ mon \in MonitorType /\ policy \in PolicyType /\ user \in UserType
         /\ bridge \in 0..MaxGen /\ poller \in PollerType
         /\ poller.at = "write" => poller.gen # 0
BY DEF Types

LEMMA SoleType ==
  ASSUME NEW list, list \subseteq Machines
  PROVE  Sole(list) \in Machines \cup {Nobody}
BY DEF Sole

LEMMA BeginTypes ==
  ASSUME Types, NEW by \in {"monitor", "user"}, NEW m \in Machines \cup {Nobody}, BeginAttempt(by, m)
  PROVE  ctl' \in ControlType /\ ctl'.queue = ctl.queue /\ shake' \in ShakeType
<1>1. ctl' \in ControlType /\ ctl'.queue = ctl.queue
  BY Elsewhere DEF BeginAttempt, ControlType
<1>2. shake' = [at |-> "open", by |-> by, machine |-> m, gen |-> 0, got |-> {}]
  BY DEF BeginAttempt, Idle
<1> QED BY <1>1, <1>2, Bounds DEF ShakeType

LEMMA ScansTypes ==
  ASSUME Types, Scans
  PROVE  TransportStep /\ Types'
<1> DEFINE gone == Sole(policy.seen) \notin {Nobody, Sole(plugged)}
           retry == IF gone THEN Nobody ELSE policy.retry
           due == IF gone THEN TRUE ELSE policy.due
           suppressed == IF policy.suppressed \in plugged THEN policy.suppressed ELSE Nobody
           at == IF mon.cancel \/ Sole(plugged) = Nobody THEN "wait" ELSE "consider"
<1>1. policy' = [policy EXCEPT !.seen = plugged, !.retry = retry, !.due = due, !.suppressed = suppressed]
  BY DEF Scans
<1>2. mon' = [mon EXCEPT !.at = at, !.machine = Sole(plugged)]
  BY DEF Scans
<1>3. /\ retry \in Machines \cup {Nobody} /\ due \in BOOLEAN /\ suppressed \in Machines \cup {Nobody}
      /\ at \in {"wait", "consider"} /\ Sole(plugged) \in Machines \cup {Nobody}
  BY Beside, Elsewhere, SoleType DEF PolicyType
<1> HIDE DEF retry, due, suppressed, at
<1>4. policy' \in PolicyType /\ mon' \in MonitorType
  BY <1>1, <1>2, <1>3, Beside, Elsewhere DEF PolicyType, MonitorType
<1>5. TransportStep /\ UNCHANGED <<ctl, shake, dev, plugged, upsets, user, bridge, poller>>
  BY DEF Scans, TransportStep, Keeps, handshakeVars
<1> QED BY <1>4, <1>5, Beside, Elsewhere, TypesControl

LEMMA MonitorTypes ==
  ASSUME Types, Considers \/ TriesConnect \/ Wakes \/ RetryDue
  PROVE  TransportStep /\ Types'
<1>1. mon' \in MonitorType /\ policy' \in PolicyType
  BY Beside DEF Considers, TriesConnect, Wakes, RetryDue, MonitorAt, MonitorType, PolicyType
<1>2. ctl' \in ControlType /\ ctl'.queue = ctl.queue /\ shake' \in ShakeType
  BY BeginTypes, Beside, Elsewhere
     DEF Considers, TriesConnect, Wakes, RetryDue, handshakeVars, MonitorType
<1>3. TransportStep /\ UNCHANGED <<dev, plugged, upsets, user, bridge, poller>>
  BY DEF Considers, TriesConnect, Wakes, RetryDue, TransportStep, Keeps, handshakeVars
<1> QED BY <1>1, <1>2, <1>3, Beside, Elsewhere, TypesControl DEF QueueKinds

LEMMA StopMonitoringTypes ==
  ASSUME Types, StopPortMonitoring
  PROVE  TransportStep /\ Types'
<1>1. mon' \in MonitorType
  BY Beside DEF StopPortMonitoring, MonitorType
<1>2. user' \in UserType
  BY Beside, Bounds DEF StopPortMonitoring, UserType
<1> QED BY <1>1, <1>2, Beside, Elsewhere, TypesControl DEF StopPortMonitoring, TransportStep, Keeps, handshakeVars

LEMMA Nothing ==
  /\ 0 \in 0..MaxGen /\ {} \in SUBSET Generation /\ {} \in SUBSET {"setting", "stray"}
  /\ <<>> \in Seq(EventType)
BY EmptySeq, Bounds

LEMMA FinishedType ==
  ASSUME NEW c \in ControlType
  PROVE  Finished(c) \in ControlType /\ Finished(c).queue = <<>>
<1> DEFINE zero == 0
           none == {}
           empty == <<>>
<1>1. Finished(c) = [c EXCEPT !.transition = "stable", !.candidate = zero, !.err = FALSE,
                              !.early = none, !.queue = empty]
  BY DEF Finished
<1>2. zero \in 0..MaxGen /\ none \in SUBSET Generation /\ empty \in Seq(EventType)
  BY Nothing
<1> HIDE DEF zero, none, empty
<1>3. Finished(c) \in ControlType /\ Finished(c).queue = empty
  BY <1>1, <1>2 DEF ControlType
<1> QED BY <1>3 DEF empty

\* What clearing the connection leaves.
LEMMA ClearedType ==
  ASSUME NEW c \in ControlType, NEW transition \in {"stable", c.transition}
  PROVE  LET d == [c EXCEPT !.conn = "disconnected", !.transition = transition, !.gen = 0, !.settings = {}]
         IN  d \in ControlType /\ d.queue = c.queue
<1> DEFINE zero == 0
           none == {}
           d == [c EXCEPT !.conn = "disconnected", !.transition = transition, !.gen = zero, !.settings = none]
<1>1. zero \in 0..MaxGen /\ none \in SUBSET {"setting", "stray"}
  BY Nothing
<1>2. transition \in {"stable", "connecting", "disconnecting"}
  BY DEF ControlType
<1> HIDE DEF zero, none
<1>3. d \in ControlType /\ d.queue = c.queue
  BY <1>1, <1>2 DEF ControlType
<1> QED BY <1>3 DEF zero, none

LEMMA CommitsTypes ==
  ASSUME Types, Commits
  PROVE  TransportStep /\ Types'
<1>1. TransportStep /\ UNCHANGED <<dev, plugged, upsets, user, bridge>>
  BY DEF Commits, TransportStep, Keeps
<1>2. CASE ctl.err
  <2>1. shake' \in ShakeType /\ UNCHANGED <<ctl, policy, poller, mon>>
    BY <1>2, AtType DEF Commits, Fails
  <2> QED BY <1>1, <2>1, Beside, Elsewhere, TypesControl
<1>3. CASE ~ctl.err
  <2> DEFINE f == Finished(ctl)
  <2>1. ctl' = [f EXCEPT !.conn = "connected", !.gen = ctl.candidate, !.settings = shake.got,
                         !.name = shake.machine]
    BY <1>3 DEF Commits
  <2>2. f \in ControlType /\ f.queue = <<>> /\ ctl.candidate \in 0..MaxGen
    BY FinishedType, Elsewhere DEF ControlType
  <2> HIDE DEF f
  <2>3. ctl' \in ControlType /\ ctl'.queue = <<>>
    BY <2>1, <2>2, Elsewhere DEF ControlType, ShakeType
  <2>4. shake' \in ShakeType
    BY <1>3, Bounds DEF Commits, Idle, ShakeType
  <2>5. policy' \in PolicyType
    <3>1. policy' = ConnectedPolicy
      BY <1>3 DEF Commits
    <3>2. policy' \in [seen : {policy.seen}, suppressed : {Nobody, policy.suppressed},
                       retry : {Nobody, policy.retry}, due : {TRUE, policy.due}]
      BY <3>1, Beside DEF ConnectedPolicy, PolicyType
    <3> QED BY <3>2, Beside DEF PolicyType
  <2>6. mon' \in MonitorType
    BY <1>3, Beside DEF Commits, MonitorType
  <2>7. poller' \in PollerType /\ poller'.at = "idle"
    BY <1>3, <2>2 DEF Commits, NoPoller, PollerType
  <2>8. Len(ctl'.queue) <= MaxQueue /\ QueueKinds(ctl')
    BY <2>3, EmptySeq, Bounds DEF QueueKinds
  <2> QED BY <1>1, <2>3, <2>4, <2>5, <2>6, <2>7, <2>8, Beside, Elsewhere, TypesControl
<1> QED BY <1>2, <1>3

LEMMA AbandonsTypes ==
  ASSUME Types, Abandons
  PROVE  TransportStep /\ Types'
<1> DEFINE f == Finished(ctl)
           conn == IF f.conn = "connecting" THEN "disconnected" ELSE f.conn
<1>1. ctl' = [f EXCEPT !.conn = conn]
  BY DEF Abandons
<1>2. f \in ControlType /\ f.queue = <<>> /\ conn \in {"disconnected", "connecting", "connected"}
  BY FinishedType, Elsewhere DEF ControlType
<1> HIDE DEF f, conn
<1>3. ctl' \in ControlType /\ ctl'.queue = <<>>
  BY <1>1, <1>2 DEF ControlType
<1>4. Len(ctl'.queue) <= MaxQueue /\ QueueKinds(ctl')
  BY <1>3, EmptySeq, Bounds DEF QueueKinds
<1>5. shake' \in ShakeType
  BY Bounds DEF Abandons, Idle, ShakeType
<1>6. policy' \in PolicyType /\ mon' \in MonitorType
  <2>1. shake.machine \in Machines \cup {Nobody}
    BY Elsewhere DEF ShakeType
  <2>2. policy' \in PolicyType
    BY <2>1, Beside DEF Abandons, PolicyType
  <2>3. mon' \in MonitorType
    BY Beside DEF Abandons, MonitorAt, MonitorType
  <2> QED BY <2>2, <2>3
<1>7. TransportStep /\ UNCHANGED <<dev, plugged, upsets, user, bridge, poller>>
  BY DEF Abandons, TransportStep, Keeps
<1> QED BY <1>3, <1>4, <1>5, <1>6, <1>7, Beside, Elsewhere, TypesControl

LEMMA SeesCancelTypes ==
  ASSUME Types, SeesCancel
  PROVE  TransportStep /\ Types'
<1>1. shake' \in ShakeType
  BY AtType DEF SeesCancel, Fails
<1>2. TransportStep /\ UNCHANGED <<ctl, dev, plugged, upsets, mon, policy, user, bridge, poller>>
  BY DEF SeesCancel, TransportStep, Keeps, monitorVars
<1> QED BY <1>1, <1>2, Beside, Elsewhere, TypesControl

LEMMA OperatorTypes ==
  ASSUME Types, UserConnect \/ Disconnect \/ DisconnectStep \/ DisconnectClears
  PROVE  TransportStep /\ Types'
<1>1. CASE UserConnect
  <2>1. ctl' \in ControlType /\ ctl'.queue = ctl.queue /\ shake' \in ShakeType
    BY <1>1, BeginTypes DEF UserConnect
  <2>2. user' \in UserType
    BY <1>1, Beside, Bounds DEF UserConnect, UserType
  <2> QED BY <1>1, <2>1, <2>2, Beside, Elsewhere, TypesControl DEF UserConnect, TransportStep, Keeps, QueueKinds
<1>2. CASE Disconnect
  <2>1. ctl' \in ControlType /\ ctl'.queue = ctl.queue
    BY <1>2, Elsewhere DEF Disconnect, ControlType
  <2>2. user' \in UserType
    BY <1>2, Beside, Elsewhere, Bounds DEF Disconnect, UserType, ControlType
  <2>3. poller' \in PollerType /\ poller'.at = poller.at /\ poller'.gen = poller.gen
    BY <1>2, Beside DEF Disconnect, PollerType
  <2> QED BY <1>2, <2>1, <2>2, <2>3, Beside, Elsewhere, TypesControl DEF Disconnect, TransportStep, Keeps, QueueKinds
<1>3. CASE DisconnectStep
  <2>1. user' \in UserType
    BY <1>3, Beside DEF DisconnectStep, UserType
  <2>2. poller' \in PollerType /\ (poller'.at = "write" => poller'.gen # 0)
    <3>1. poller' = poller \/ poller' = NoPoller
      BY <1>3 DEF DisconnectStep
    <3>2. NoPoller \in PollerType /\ NoPoller.at = "idle"
      BY Nothing DEF PollerType, NoPoller
    <3> QED BY <3>1, <3>2, Beside
  <2>3. TransportStep
    BY <1>3 DEF DisconnectStep, TransportStep, Keeps
  <2>4. UNCHANGED <<ctl, shake, dev, plugged, upsets, mon, policy, bridge>>
    BY <1>3 DEF DisconnectStep, handshakeVars
  <2> QED BY <2>1, <2>2, <2>3, <2>4, Beside, Elsewhere, TypesControl
<1>4. CASE DisconnectClears
  <2>1. ctl' \in ControlType /\ ctl'.queue = ctl.queue
    BY <1>4, Elsewhere, ClearedType DEF DisconnectClears
  <2>2. user' \in UserType /\ policy' \in PolicyType
    BY <1>4, Beside DEF DisconnectClears, UserType, PolicyType
  <2> QED BY <1>4, <2>1, <2>2, Beside, Elsewhere, TypesControl DEF DisconnectClears, TransportStep, Keeps, QueueKinds
<1> QED BY <1>1, <1>2, <1>3, <1>4

LEMMA EnqueuedType ==
  ASSUME NEW c \in ControlType, Len(c.queue) <= MaxQueue, QueueKinds(c),
         NEW e \in EventType, e.kind \in {"rx", "error", "disconnected"}
  PROVE  /\ Enqueued(c, e) \in ControlType /\ Len(Enqueued(c, e).queue) <= MaxQueue
         /\ QueueKinds(Enqueued(c, e))
         /\ \E queue \in {c.queue, Append(c.queue, e)}, err \in BOOLEAN :
              /\ Enqueued(c, e) = [c EXCEPT !.queue = queue, !.err = err]
              /\ c.err => err
              /\ e.gen = c.candidate =>
                   /\ queue = c.queue => err
                   /\ e.kind # "rx" => err
<1> DEFINE queue == IF Len(c.queue) < MaxQueue THEN Append(c.queue, e) ELSE c.queue
           err == \/ c.err \/ Len(c.queue) >= MaxQueue
                  \/ c.candidate = e.gen /\ e.kind \in {"error", "disconnected"}
           full == [c EXCEPT !.queue = queue, !.err = err]
<1>1. c.queue \in Seq(EventType) /\ Len(c.queue) \in Nat /\ DOMAIN c.queue = 1..Len(c.queue)
  BY LenProperties DEF ControlType
<1>2. Append(c.queue, e) \in Seq(EventType) /\ Len(Append(c.queue, e)) = Len(c.queue) + 1
      /\ Append(c.queue, e)[Len(c.queue) + 1] = e
      /\ \A i \in 1..Len(c.queue) : Append(c.queue, e)[i] = c.queue[i]
  BY <1>1, AppendProperties
<1>3. DOMAIN Append(c.queue, e) = 1..Len(c.queue) + 1
  BY <1>2, LenProperties
<1>4. /\ queue \in Seq(EventType) /\ Len(queue) <= MaxQueue /\ err \in BOOLEAN
      /\ queue \in {c.queue, Append(c.queue, e)} /\ (c.err => err)
      /\ queue = c.queue => err
      /\ e.gen = c.candidate /\ e.kind # "rx" => err
  BY <1>1, <1>2, Bounds DEF ControlType
<1>5. \A i \in DOMAIN queue : queue[i].kind \in {"rx", "error", "disconnected"}
  BY <1>1, <1>2, <1>3 DEF QueueKinds
<1>6. Enqueued(c, e) = IF c.candidate # 0 /\ e.gen # c.candidate THEN c ELSE full
  BY DEF Enqueued
<1> HIDE DEF queue, err
<1>7. full \in ControlType /\ full.queue = queue
  BY <1>4 DEF ControlType
<1>8. c = [c EXCEPT !.queue = c.queue, !.err = c.err] /\ c.err \in BOOLEAN
  BY DEF ControlType
<1>9. e.gen # 0
  BY Bounds DEF EventType, Generation
<1> HIDE DEF full
<1>10. Enqueued(c, e) \in ControlType /\ Len(Enqueued(c, e).queue) <= MaxQueue /\ QueueKinds(Enqueued(c, e))
  BY <1>4, <1>5, <1>6, <1>7 DEF QueueKinds
<1>11. CASE c.candidate # 0 /\ e.gen # c.candidate
  <2>1. Enqueued(c, e) = [c EXCEPT !.queue = c.queue, !.err = c.err]
    BY <1>6, <1>8, <1>11
  <2> QED BY <1>8, <1>10, <1>11, <2>1
<1>12. CASE ~(c.candidate # 0 /\ e.gen # c.candidate)
  <2>1. Enqueued(c, e) = [c EXCEPT !.queue = queue, !.err = err]
    BY <1>6, <1>12 DEF full
  <2> QED BY <1>4, <1>10, <2>1
<1> QED BY <1>11, <1>12

\* What the bridge does with the event it takes.
LEMMA BridgeReadsCases ==
  ASSUME Types, BridgeReads
  PROVE  LET e == Head(events) IN
         /\ bridge = 0 /\ Taken /\ e \in EventType
         /\ UNCHANGED <<shake, dev, plugged, upsets, mon, policy, user>>
         /\ \/ /\ e.kind \in {"connected", "tx"} \/ (e.kind # "disconnected" /\ ctl.transition # "connecting")
               /\ UNCHANGED <<ctl, bridge, poller>>
            \/ /\ e.kind = "disconnected" /\ e.gen = ctl.suppress
               /\ ctl' = [ctl EXCEPT !.suppress = 0] /\ UNCHANGED <<bridge, poller>>
            \/ /\ e.kind \in {"rx", "error", "disconnected"} /\ ctl.transition = "connecting"
               /\ e.kind = "disconnected" => e.gen # ctl.suppress
               /\ UNCHANGED <<bridge, poller>>
               /\ \E early \in {ctl.early, ctl.early \cup {e.gen}} :
                    /\ ctl' = [Enqueued(ctl, e) EXCEPT !.early = early]
                    /\ e.kind = "disconnected" /\ ctl.candidate = 0 => e.gen \in early
            \/ /\ e.kind = "disconnected" /\ e.gen # ctl.suppress /\ ctl.transition # "connecting"
               /\ e.gen = ctl.gen /\ UNCHANGED ctl /\ bridge' = e.gen
               /\ poller' = [poller EXCEPT !.stop = TRUE]
            \/ /\ e.kind = "disconnected" /\ ctl.transition # "connecting" /\ e.gen # ctl.gen
               /\ UNCHANGED <<ctl, bridge, poller>>
<1> DEFINE e == Head(events)
<1>1. Taken /\ bridge = 0
  BY DEF BridgeReads, Receives, Taken
<1>2. e \in EventType
  BY <1>1, TakenTyped, Elsewhere
<1>3. UNCHANGED <<shake, dev, plugged, upsets, mon, policy, user>>
  BY DEF BridgeReads
<1>4. CASE e.kind \in {"connected", "tx"}
  BY <1>1, <1>2, <1>3, <1>4 DEF BridgeReads, NextEvent
<1>5. CASE e.kind \in {"rx", "error"}
  <2> DEFINE q == Enqueued(ctl, e)
  <2>1. ctl' = (IF ctl.transition = "connecting" THEN Enqueued(ctl, e) ELSE ctl) /\ UNCHANGED <<bridge, poller>>
    BY <1>5 DEF BridgeReads, NextEvent
  <2>2. q = [q EXCEPT !.early = ctl.early]
    BY Elsewhere DEF Enqueued, ControlType
  <2> HIDE DEF q
  <2> QED BY <1>1, <1>2, <1>3, <1>5, <2>1, <2>2 DEF q
<1>6. CASE e.kind = "disconnected" /\ e.gen = ctl.suppress
  <2>1. ctl' = [ctl EXCEPT !.suppress = 0] /\ UNCHANGED <<bridge, poller>>
    BY <1>6 DEF BridgeReads, NextEvent
  <2> QED BY <1>1, <1>2, <1>3, <1>6, <2>1
<1>7. CASE e.kind = "disconnected" /\ e.gen # ctl.suppress /\ ctl.transition = "connecting"
  <2> DEFINE q == Enqueued(ctl, e)
  <2>1. /\ ctl' = [q EXCEPT !.early = IF ctl.candidate = 0 THEN q.early \cup {e.gen} ELSE q.early]
        /\ UNCHANGED <<bridge, poller>>
    BY <1>7 DEF BridgeReads, NextEvent
  <2>2. q.early = ctl.early
    BY Elsewhere DEF Enqueued, ControlType
  <2>3. \E early \in {ctl.early, ctl.early \cup {e.gen}} :
          ctl' = [q EXCEPT !.early = early] /\ (ctl.candidate = 0 => e.gen \in early)
    BY <2>1, <2>2
  <2> HIDE DEF q
  <2> QED BY <1>1, <1>2, <1>3, <1>7, <2>1, <2>3 DEF q
<1>8. CASE e.kind = "disconnected" /\ e.gen # ctl.suppress /\ ctl.transition # "connecting"
  <2>1. /\ IF e.gen = ctl.gen THEN bridge' = e.gen /\ poller' = [poller EXCEPT !.stop = TRUE]
           ELSE UNCHANGED <<bridge, poller>>
        /\ UNCHANGED ctl
    BY <1>8 DEF BridgeReads, NextEvent
  <2> QED BY <1>1, <1>2, <1>3, <1>8, <2>1
<1>9. e.kind \in {"connected", "tx", "rx", "error", "disconnected"}
  BY <1>2 DEF EventType
<1> QED BY <1>4, <1>5, <1>6, <1>7, <1>8, <1>9

LEMMA BridgeTypes ==
  ASSUME Types, BridgeReads \/ BridgeClears
  PROVE  TransportStep /\ Types'
<1>1. CASE BridgeReads
  <2> DEFINE e == Head(events)
  <2>1. Taken /\ TransportStep /\ e \in EventType
    BY <1>1, BridgeReadsCases DEF TransportStep
  <2>2. /\ UNCHANGED <<shake, dev, plugged, upsets, mon, policy, user>>
        /\ \/ UNCHANGED <<ctl, bridge, poller>>
           \/ ctl' = [ctl EXCEPT !.suppress = 0] /\ UNCHANGED <<bridge, poller>>
           \/ /\ e.kind \in {"rx", "error", "disconnected"} /\ UNCHANGED <<bridge, poller>>
              /\ \E early \in {ctl.early, ctl.early \cup {e.gen}} :
                   ctl' = [Enqueued(ctl, e) EXCEPT !.early = early]
           \/ UNCHANGED ctl /\ bridge' = e.gen /\ poller' = [poller EXCEPT !.stop = TRUE]
    BY <1>1, BridgeReadsCases
  <2>3. e.gen \in Generation /\ e.gen \in 0..MaxGen
    BY <2>1 DEF EventType, Generation
  <2> HIDE DEF e
  <2>4. ctl' \in ControlType /\ Len(ctl'.queue) <= MaxQueue /\ QueueKinds(ctl')
    <3>1. CASE UNCHANGED ctl
      BY <3>1, Elsewhere, Bounds DEF QueueKinds
    <3>2. ASSUME ctl' = [ctl EXCEPT !.suppress = 0]
          PROVE  ctl' \in ControlType /\ Len(ctl'.queue) <= MaxQueue /\ QueueKinds(ctl')
      <4> DEFINE zero == 0
      <4>1. zero \in 0..MaxGen /\ ctl' = [ctl EXCEPT !.suppress = zero] /\ ctl \in ControlType
        BY <3>2, Elsewhere, Bounds
      <4> HIDE DEF zero
      <4>2. ctl' \in ControlType /\ ctl'.queue = ctl.queue
        BY <4>1 DEF ControlType
      <4> QED BY <4>2, Elsewhere DEF QueueKinds
    <3>3. ASSUME e.kind \in {"rx", "error", "disconnected"},
                 NEW early \in SUBSET Generation, ctl' = [Enqueued(ctl, e) EXCEPT !.early = early]
          PROVE  ctl' \in ControlType /\ Len(ctl'.queue) <= MaxQueue /\ QueueKinds(ctl')
      <4>1. Enqueued(ctl, e) \in ControlType /\ Len(Enqueued(ctl, e).queue) <= MaxQueue
            /\ QueueKinds(Enqueued(ctl, e))
        BY <2>1, <3>3, EnqueuedType, Elsewhere
      <4>2. ctl' \in ControlType /\ ctl'.queue = Enqueued(ctl, e).queue
        BY <3>3, <4>1 DEF ControlType
      <4> QED BY <4>1, <4>2 DEF QueueKinds
    <3>4. ctl.early \in SUBSET Generation
      BY Elsewhere DEF ControlType
    <3> QED BY <2>2, <2>3, <3>1, <3>2, <3>3, <3>4
  <2>5. bridge' \in 0..MaxGen /\ poller' \in PollerType /\ poller'.at = poller.at /\ poller'.gen = poller.gen
    BY <2>2, <2>3, Beside DEF PollerType
  <2> QED BY <2>1, <2>2, <2>4, <2>5, Beside, Elsewhere, TypesControl
<1>2. CASE BridgeClears
  <2>1. ctl' \in ControlType /\ ctl'.queue = ctl.queue
    <3>1. CASE ctl.gen # bridge
      BY <1>2, <3>1, Elsewhere DEF BridgeClears
    <3>2. CASE ctl.gen = bridge
      <4>1. ctl' = [ctl EXCEPT !.conn = "disconnected", !.transition = ctl.transition, !.gen = 0,
                               !.settings = {}]
        BY <1>2, <3>2, Elsewhere DEF BridgeClears, ControlType
      <4> QED BY <4>1, Elsewhere, ClearedType
    <3> QED BY <3>1, <3>2
  <2>2. poller' \in PollerType /\ poller'.at = "idle" /\ bridge' \in 0..MaxGen
    BY <1>2, Beside, Bounds DEF BridgeClears, PollerType, NoPoller
  <2> QED BY <1>2, <2>1, <2>2, Beside, Elsewhere, TypesControl DEF BridgeClears, TransportStep, Keeps, QueueKinds
<1> QED BY <1>1, <1>2

LEMMA PollTypes ==
  ASSUME Types, PollBegins \/ PollEnds
  PROVE  TransportStep /\ Types'
<1>1. poller' \in PollerType /\ (poller'.at = "write" => poller'.gen # 0)
  BY Beside DEF PollBegins, PollEnds, PollerType
<1>2. TransportStep
  <2>1. CASE PollBegins
    BY <2>1 DEF PollBegins, TransportStep, Keeps
  <2>2. CASE PollEnds
    <3>1. poller.gen \in Generation
      BY <2>2, Beside, Bounds DEF PollEnds, PollerType, Generation
    <3>2. Written(poller.gen)
      BY <2>2 DEF PollEnds, Written
    <3> QED BY <3>1, <3>2 DEF TransportStep, Keeps
  <2> QED BY <2>1, <2>2
<1> QED BY <1>1, <1>2, Beside, Elsewhere, TypesControl DEF PollBegins, PollEnds, handshakeVars

LEMMA StepTypes ==
  ASSUME Types, [Next]_vars
  PROVE  TransportStep /\ Types'
<1>1. CASE UNCHANGED vars
  BY <1>1, Beside, Elsewhere, TypesRest DEF vars, TransportStep, Keeps, handshakeVars
<1>2. CASE Attempt
  BY <1>2, OpensTypes, OpenFailsTypes, OpenedTypes, NoteOpenedTypes, TakesEventTypes, QueryStartsTypes,
     WritesQueryTypes, WaitsTypes, FailureTypes, SeesCancelTypes, CommitsTypes, AbandonsTypes DEF Attempt
<1>3. CASE Monitor \/ RetryDue \/ Bridge \/ Closing \/ StopPortMonitoring \/ UserConnect \/ Disconnect
           \/ PollBegins \/ PollEnds \/ Plugs \/ Unplugs
  BY <1>3, ScansTypes, MonitorTypes, BridgeTypes, OperatorTypes, StopMonitoringTypes, PollTypes, PlugTypes
     DEF Monitor, Bridge, Closing
<1>4. ASSUME NEW g \in Generation, Line(g) \/ (GoesMute(g) /\ UNCHANGED monitorVars)
      PROVE  TransportStep /\ Types'
  BY <1>4, ReaderStepTypes, MachineTypes DEF Line
<1>5. CASE (\E g \in Generation : Line(g)) \/ ((\E g \in Generation : GoesMute(g)) /\ UNCHANGED monitorVars)
  BY <1>4, <1>5
<1>6. Next \/ UNCHANGED vars
  OBVIOUS
<1> QED BY <1>1, <1>2, <1>3, <1>5, <1>6 DEF Next

LEMMA InitTypes == Init => Types
<1> SUFFICES ASSUME Init PROVE Types
  OBVIOUS
<1>1. TransportType
  BY Nothing, EmptySeq, Bounds
     DEF Init, HandshakeInit, TransportInit, TransportType, ReaderType, Off, Texts
<1>2. ctl \in ControlType /\ ctl.queue = <<>>
  BY Nothing DEF Init, HandshakeInit, InitControl, ControlType
<1>3. Len(ctl.queue) <= MaxQueue /\ QueueKinds(ctl)
  BY <1>2, EmptySeq, Bounds DEF QueueKinds
<1>4. shake \in ShakeType /\ dev \in [Generation -> DevType] /\ plugged \subseteq Machines
  BY Bounds DEF Init, HandshakeInit, Idle, ShakeType, NoDevice, DevType
<1>5. upsets \in 0..MaxUpsets /\ bridge \in 0..MaxGen
  BY Bounds DEF Init, HandshakeInit
<1>6. mon \in MonitorType /\ policy \in PolicyType
  BY DEF Init, MonitorType, PolicyType
<1>7. user \in UserType
  BY Bounds DEF Init, UserType
<1>8. poller \in PollerType /\ poller.at = "idle"
  BY Nothing DEF Init, NoPoller, PollerType
<1> QED BY <1>1, <1>2, <1>3, <1>4, <1>5, <1>6, <1>7, <1>8 DEF Types

LEMMA TypesSuffice == Types => TypeOK
<1> SUFFICES ASSUME Types PROVE TypeOK
  OBVIOUS
<1>1. TransportType /\ ctl \in ControlType /\ Len(ctl.queue) <= MaxQueue
      /\ dev \in [Generation -> DevType] /\ plugged \subseteq Machines /\ upsets \in 0..MaxUpsets
  BY Elsewhere
<1>2. HandshakeType
  BY <1>1 DEF HandshakeType, ControlType, DevType
<1>3. policy \in PolicyType /\ user \in UserType /\ bridge \in 0..MaxGen /\ poller \in PollerType
  BY Beside
<1> QED BY <1>2, <1>3 DEF TypeOK, PolicyType, UserType, PollerType

-----------------------------------------------------------------------------
(* The end of a generation. *)

\* A sent event is the last one; the others stay where they are.
LEMMA EndsSends ==
  ASSUME Types, Ends, NEW e \in EventType, Sends(e),
         UNCHANGED <<port, closing>>,
         \A g \in Generation : /\ Ending(g)' => Ending(g)
                               /\ reader[g].at = "off" => reader'[g].at = "off",
         e.kind # "disconnected",
         e.kind \in {"rx", "error"} => ~Ended(e.gen)
  PROVE  Ends'
<1> USE Elsewhere
<1>1. /\ \A i \in DOMAIN events : i \in DOMAIN events' /\ events'[i] = events[i]
      /\ \A i \in DOMAIN events' : i \in DOMAIN events \/ (i = Len(events) + 1 /\ events'[i] = e)
      /\ Len(events) \in Nat /\ DOMAIN events = 1..Len(events)
  BY SendsTyped
<1>2. \A g \in Generation : Ended(g)' => Ended(g)
  BY <1>1 DEF Ended
<1>3. \A g \in Generation :
       /\ Ended(g)' => port' # g /\ closing' # g /\ reader'[g].at = "off"
       /\ port' = g => closing' # g
       /\ Ending(g)' => port' # g /\ closing' # g
  BY <1>2 DEF Ends
<1>4. ASSUME NEW i \in DOMAIN events', NEW j \in DOMAIN events',
             events'[i].kind = "disconnected", events'[i].gen = events'[j].gen
      PROVE  /\ events'[j].kind = "disconnected" => i = j
             /\ events'[j].kind \in {"rx", "error"} => j < i
  <2>1. i \in DOMAIN events /\ events'[i] = events[i]
    BY <1>1, <1>4
  <2>2. CASE j \in DOMAIN events
    BY <1>1, <1>4, <2>1, <2>2 DEF Ends
  <2>3. CASE j = Len(events) + 1 /\ events'[j] = e
    <3>1. e.kind \in {"rx", "error"} => ~(events[i].kind = "disconnected" /\ events[i].gen = e.gen)
      BY <2>1 DEF Ended
    <3> QED BY <1>4, <2>1, <2>3, <3>1
  <2> QED BY <1>1, <2>2, <2>3
<1> QED BY <1>3, <1>4 DEF Ends, Ending

\* The transport reports the end of g.
LEMMA EndsReported ==
  ASSUME Types, Ends, NEW g \in Generation, Sends(Event("disconnected", g, "other")),
         ~Ended(g), port' = port, port # g, closing' # g, reader'[g].at = "off",
         closing' \in {0, closing},
         \A h \in Generation \ {g} : reader'[h] = reader[h]
  PROVE  Ends'
<1> USE Elsewhere
<1> DEFINE e == Event("disconnected", g, "other")
<1>1. e \in EventType /\ e.kind = "disconnected" /\ e.gen = g
  BY EventTyped DEF Texts, Event
<1> HIDE DEF e
<1>2. /\ \A i \in DOMAIN events : i \in DOMAIN events' /\ events'[i] = events[i]
      /\ \A i \in DOMAIN events' : i \in DOMAIN events \/ (i = Len(events) + 1 /\ events'[i] = e)
      /\ Len(events) \in Nat /\ DOMAIN events = 1..Len(events)
  BY <1>1, SendsTyped DEF e
<1>3. \A h \in Generation : Ended(h)' => Ended(h) \/ h = g
  BY <1>1, <1>2 DEF Ended
<1>4. \A h \in Generation :
       /\ Ended(h)' => port' # h /\ closing' # h /\ reader'[h].at = "off"
       /\ port' = h => closing' # h
       /\ Ending(h)' => port' # h /\ closing' # h
  BY <1>3, Bounds DEF Ends, Ending, Generation
<1>5. ASSUME NEW i \in DOMAIN events', NEW j \in DOMAIN events',
             events'[i].kind = "disconnected", events'[i].gen = events'[j].gen
      PROVE  /\ events'[j].kind = "disconnected" => i = j
             /\ events'[j].kind \in {"rx", "error"} => j < i
  <2>1. \A k \in DOMAIN events : ~(events[k].kind = "disconnected" /\ events[k].gen = g)
    BY DEF Ended
  <2>2. CASE i \in DOMAIN events /\ j \in DOMAIN events
    BY <1>2, <1>5, <2>2 DEF Ends
  <2>3. CASE i \in DOMAIN events /\ j = Len(events) + 1
    BY <1>1, <1>2, <1>5, <2>1, <2>3
  <2>4. CASE i = Len(events) + 1 /\ j \in DOMAIN events
    BY <1>1, <1>2, <1>5, <2>1, <2>4
  <2>5. CASE i = Len(events) + 1 /\ j = Len(events) + 1
    BY <1>1, <1>2, <1>5, <2>5
  <2> QED BY <1>2, <2>2, <2>3, <2>4, <2>5
<1> QED BY <1>4, <1>5 DEF Ends, Ending

\* A step of the readLoops and of the handle that sends nothing.
LEMMA EndsSilent ==
  ASSUME Types, Ends, UNCHANGED events,
         \A g \in Generation :
           /\ Ended(g) => port' # g /\ closing' # g /\ reader'[g].at = "off"
           /\ port' = g => closing' # g
           /\ Ending(g)' => port' # g /\ closing' # g
  PROVE  Ends'
BY DEF Ends, Ended

LEMMA EndsStep ==
  ASSUME Types, Ends, TransportStep
  PROVE  Ends'
<1> USE Elsewhere
<1>1. TransportType /\ \A g \in Generation : reader[g] \in ReaderType
  BY DEF TransportType
<1>2. CASE UNCHANGED transportVars
  BY <1>2 DEF transportVars, Ends, Ended, Ending
<1>3. CASE OpenReturns
  <2>1. opening \in Generation
    BY <1>1, <1>3, Bounds DEF TransportType, OpenReturns, Generation
  <2>2. Event("connected", opening, "other") \in EventType
    BY <2>1, EventTyped DEF Texts
  <2>3. Event("connected", opening, "other").kind = "connected"
    BY DEF Event
  <2> QED BY <1>3, <2>2, <2>3, EndsSends DEF OpenReturns, Ending
<1>4. CASE CloseTakes
  BY <1>4, EndsSilent, Bounds DEF CloseTakes, Ends, Ending, Generation
<1>5. CASE CloseReturns
  <2>1. closing \in Generation /\ reader[closing].at = "off"
    BY <1>1, <1>5, Bounds DEF TransportType, CloseReturns, Generation, Off
  <2>2. ~Ended(closing) /\ port # closing
    BY <2>1 DEF Ends
  <2>3. closing' = 0 /\ closing # 0
    BY <1>5 DEF CloseReturns
  <2> QED BY <1>5, <2>1, <2>2, <2>3, EndsReported DEF CloseReturns
<1>6. CASE Taken
  <2>1. /\ \A i \in DOMAIN events' : i \in Nat /\ i + 1 \in DOMAIN events /\ events'[i] = events[i + 1]
    BY <1>6, TakenTyped
  <2>2. \A g \in Generation : Ended(g)' => Ended(g)
    BY <2>1 DEF Ended
  <2>3. \A g \in Generation :
       /\ Ended(g)' => port' # g /\ closing' # g /\ reader'[g].at = "off"
       /\ port' = g => closing' # g
       /\ Ending(g)' => port' # g /\ closing' # g
    BY <1>6, <2>2 DEF Taken, Ends, Ending
  <2>4. \A i, j \in DOMAIN events' :
       events'[i].kind = "disconnected" /\ events'[i].gen = events'[j].gen =>
         /\ events'[j].kind = "disconnected" => i = j
         /\ events'[j].kind \in {"rx", "error"} => j < i
    BY <2>1 DEF Ends
  <2> QED BY <2>3, <2>4 DEF Ends, Ending
<1>7. CASE MarkedOld
  <2>1. /\ DOMAIN events' = DOMAIN events
        /\ \A i \in DOMAIN events : events'[i].kind = events[i].kind /\ events'[i].gen = events[i].gen
        /\ \A g \in Generation : reader'[g].at = reader[g].at
    BY <1>7, MarkedTyped
  <2>2. \A g \in Generation : (Ended(g)' <=> Ended(g)) /\ (Ending(g)' <=> Ending(g))
    BY <2>1 DEF Ended, Ending
  <2>3. \A g \in Generation :
       /\ Ended(g)' => port' # g /\ closing' # g /\ reader'[g].at = "off"
       /\ port' = g => closing' # g
       /\ Ending(g)' => port' # g /\ closing' # g
    BY <1>7, <2>1, <2>2 DEF MarkedOld, Ends
  <2>4. \A i, j \in DOMAIN events' :
       events'[i].kind = "disconnected" /\ events'[i].gen = events'[j].gen =>
         /\ events'[j].kind = "disconnected" => i = j
         /\ events'[j].kind \in {"rx", "error"} => j < i
    BY <2>1 DEF Ends
  <2> QED BY <2>3, <2>4 DEF Ends, Ending
<1>8. ASSUME NEW g \in Generation, OpenPort(g) PROVE Ends'
  <2>1. ~Ended(g) /\ closing # g
    BY <1>8 DEF OpenPort, Traces, Ended
  <2>2. reader'[g].at = "reading" /\ \A h \in Generation \ {g} : reader'[h] = reader[h]
    BY <1>8, ReaderTyped DEF OpenPort
  <2> QED BY <1>8, <2>1, <2>2, EndsSilent DEF OpenPort, Ends, Ending
<1>9. ASSUME NEW g \in Generation, ReaderStep(g) PROVE Ends'
  <2>1. CASE SendsLine(g)
    <3> DEFINE e == [Event("rx", g, reader[g].text) EXCEPT !.old = reader[g].old]
    <3>1. e \in EventType /\ e.kind = "rx" /\ e.gen = g
      BY <1>1 DEF Event, EventType, ReaderType
    <3>2. ~Ended(g)
      BY <2>1 DEF SendsLine, Ends
    <3>3. reader'[g].at = "reading" /\ \A h \in Generation \ {g} : reader'[h] = reader[h]
      BY <2>1, ReaderTyped DEF SendsLine
    <3>4. Sends(e) /\ UNCHANGED <<port, closing>> /\ reader[g].at = "line"
      BY <2>1 DEF SendsLine
    <3> HIDE DEF e
    <3> QED BY <3>1, <3>2, <3>3, <3>4, EndsSends DEF Ending
  <2>2. CASE SeesClosed(g)
    <3>1. reader'[g].at = "off" /\ \A h \in Generation \ {g} : reader'[h] = reader[h]
      BY <2>2, ReaderTyped DEF SeesClosed
    <3> QED BY <2>2, <3>1, EndsSilent DEF SeesClosed, Ends, Ending
  <2>3. CASE reader[g].at = "error" /\ Sends(Event("error", g, "other")) /\ Reader(g, "end")
             /\ UNCHANGED <<port, opening, closing>>
    <3>1. Event("error", g, "other") \in EventType
          /\ Event("error", g, "other").kind = "error" /\ Event("error", g, "other").gen = g
      BY EventTyped DEF Texts, Event
    <3>2. ~Ended(g)
      BY <2>3 DEF Ends
    <3>3. reader'[g].at = "end" /\ \A h \in Generation \ {g} : reader'[h] = reader[h]
      BY <2>3, ReaderTyped
    <3> QED BY <2>3, <3>1, <3>2, <3>3, EndsSends DEF Ending
  <2>4. CASE reader[g].at = "end" /\ Sends(Event("disconnected", g, "other")) /\ Reader(g, "off")
             /\ UNCHANGED <<port, opening, closing>>
    <3>1. ~Ended(g) /\ port # g /\ closing # g
      BY <2>4 DEF Ends, Ending
    <3>2. reader'[g].at = "off" /\ \A h \in Generation \ {g} : reader'[h] = reader[h]
      BY <2>4, ReaderTyped
    <3> QED BY <2>4, <3>1, <3>2, EndsReported
  <2> QED BY <1>9, <2>1, <2>2, <2>3, <2>4 DEF ReaderStep, SendsEnd
<1>10. ASSUME NEW g \in Generation, LosesPort(g) PROVE Ends'
  <2>1. reader[g].at = "reading" /\ UNCHANGED <<closing, events>>
    BY <1>10 DEF LosesPort
  <2>2. ~Ended(g)
    BY <2>1 DEF Ends
  <2>3. CASE port = g
    <3>1. port' = 0 /\ closing # g /\ \A h \in Generation \ {g} : reader'[h] = reader[h]
      BY <1>10, <2>3, ReaderTyped DEF LosesPort, Ends
    <3> QED BY <2>1, <2>2, <3>1, EndsSilent, Bounds DEF Ends, Ending, Generation
  <2>4. CASE port # g
    <3>1. port' = port /\ reader'[g].at = "off" /\ \A h \in Generation \ {g} : reader'[h] = reader[h]
      BY <1>10, <2>4, ReaderTyped DEF LosesPort
    <3> QED BY <2>1, <2>2, <3>1, EndsSilent DEF Ends, Ending
  <2> QED BY <2>3, <2>4
<1>11. ASSUME NEW g \in Generation, Written(g) PROVE Ends'
  <2>1. Event("tx", g, "other") \in EventType /\ Event("tx", g, "other").kind = "tx"
    BY EventTyped DEF Texts, Event
  <2> QED BY <1>11, <2>1, EndsSends DEF Written, Ending
<1>12. ASSUME NEW g \in Generation, NEW text \in Texts, Reads(g, text) PROVE Ends'
  <2>1. ~Ended(g)
    BY <1>12 DEF Reads, Ends
  <2>2. reader'[g].at = "line" /\ \A h \in Generation \ {g} : reader'[h] = reader[h]
    BY <1>1, <1>12 DEF Reads, TransportType
  <2> QED BY <1>12, <2>1, <2>2, EndsSilent DEF Reads, Ends, Ending
<1> QED BY <1>2, <1>3, <1>4, <1>5, <1>6, <1>7, <1>8, <1>9, <1>10, <1>11, <1>12 DEF TransportStep, Keeps

LEMMA AtMostOne ==
  ASSUME NEW n \in Nat, NEW S \in SUBSET (1..n), \A i, j \in S : i = j
  PROVE  Cardinality(S) \in {0, 1} /\ (S = {} => Cardinality(S) = 0)
<1>1. CASE S = {}
  BY <1>1, FS_EmptySet
<1>2. CASE S # {}
  <2>1. PICK i \in S : S = {i}
    BY <1>2
  <2>2. Cardinality({i}) = 1
    BY FS_Singleton
  <2> QED BY <1>2, <2>1, <2>2
<1> QED BY <1>1, <1>2

LEMMA EndsSuffice == Types /\ Ends => EndsOnce
<1> SUFFICES ASSUME Types, Ends PROVE EndsOnce
  OBVIOUS
<1>1. Len(events) \in Nat /\ DOMAIN events = 1..Len(events)
  BY Elsewhere, LenProperties DEF TransportType
<1>2. ASSUME NEW g \in Generation
      PROVE  Cardinality({i \in DOMAIN events : events[i].kind = "disconnected" /\ events[i].gen = g})
               + (IF closing = g THEN 1 ELSE 0) + (IF reader[g].at \in {"error", "end"} THEN 1 ELSE 0)
               + (IF port = g THEN 1 ELSE 0) <= 1
  <2> DEFINE S == {i \in DOMAIN events : events[i].kind = "disconnected" /\ events[i].gen = g}
             c == IF closing = g THEN 1 ELSE 0
             r == IF reader[g].at \in {"error", "end"} THEN 1 ELSE 0
             p == IF port = g THEN 1 ELSE 0
  <2>1. S \in SUBSET (1..Len(events)) /\ \A i, j \in S : i = j
    BY <1>1 DEF Ends
  <2>2. Cardinality(S) \in {0, 1} /\ (S = {} => Cardinality(S) = 0)
    BY <1>1, <2>1, AtMostOne
  <2>3. S # {} <=> Ended(g)
    BY DEF Ended
  <2>4. c \in {0, 1} /\ r \in {0, 1} /\ p \in {0, 1}
    OBVIOUS
  <2>5. /\ S # {} => c = 0 /\ r = 0 /\ p = 0
        /\ p = 1 => c = 0
        /\ r = 1 => p = 0 /\ c = 0
    BY <2>3 DEF Ends, Ending
  <2> HIDE DEF S, c, r, p
  <2>6. Cardinality(S) + c + r + p <= 1
    BY <2>2, <2>4, <2>5
  <2> QED BY <2>6 DEF S, c, r, p
<1>3. \A i, j \in DOMAIN events :
        events[i].kind = "disconnected" /\ events[j].kind \in {"rx", "error"}
          /\ events[i].gen = events[j].gen => j < i
  BY DEF Ends
<1> QED BY <1>2, <1>3 DEF EndsOnce

-----------------------------------------------------------------------------
(* The news of a lost connection. *)

LEMMA SentStays ==
  ASSUME Types, NEW e \in EventType, Sends(e), NEW g \in Generation, Ended(g)
  PROVE  Ended(g)'
<1>1. \A i \in DOMAIN events : i \in DOMAIN events' /\ events'[i] = events[i]
  BY Elsewhere, SendsTyped
<1> QED BY <1>1 DEF Ended

LEMMA NewsKept ==
  ASSUME Types, Keeps, NEW g \in Generation, News(g)
  PROVE  News(g)'
<1>1. TransportType /\ \A h \in Generation : reader[h] \in ReaderType
  BY Elsewhere DEF TransportType
<1>2. CASE UNCHANGED transportVars
  BY <1>2 DEF transportVars, News, Ended, Ending
<1>3. CASE OpenReturns \/ CloseReturns
  <2>1. {opening, closing} \subseteq 0..MaxGen
    BY <1>1 DEF TransportType
  <2>2. PICK h \in Generation, kind \in {"connected", "disconnected"} : Sends(Event(kind, h, "other"))
    BY <1>3, <2>1, Bounds DEF OpenReturns, CloseReturns, Generation
  <2>3. Event(kind, h, "other") \in EventType
    BY EventTyped DEF Texts
  <2> QED BY <1>3, <2>2, <2>3, SentStays DEF OpenReturns, CloseReturns, News, Ending
<1>4. CASE MarkedOld
  <2>1. /\ DOMAIN events' = DOMAIN events
        /\ \A i \in DOMAIN events : events'[i].kind = events[i].kind /\ events'[i].gen = events[i].gen
        /\ reader'[g].at = reader[g].at
    BY <1>1, <1>4, MarkedTyped
  <2> QED BY <1>4, <2>1 DEF MarkedOld, News, Ended, Ending
<1>5. ASSUME NEW h \in Generation, OpenPort(h) PROVE News(g)'
  <2>1. reader[h] = Off /\ port = 0 /\ port' = h /\ UNCHANGED events
    BY <1>5 DEF OpenPort, Traces
  <2>2. \A k \in Generation \ {h} : reader'[k] = reader[k]
    BY <1>1, <1>5, ReaderTyped DEF OpenPort
  <2> QED BY <2>1, <2>2, Bounds DEF News, Ended, Ending, Off, Generation
<1>6. ASSUME NEW h \in Generation, ReaderStep(h) PROVE News(g)'
  <2>1. CASE SendsLine(h)
    <3> DEFINE e == [Event("rx", h, reader[h].text) EXCEPT !.old = reader[h].old]
    <3>1. e \in EventType
      BY <1>1 DEF Event, EventType, ReaderType
    <3>2. reader[h].at = "line" /\ (\A k \in Generation \ {h} : reader'[k] = reader[k])
      BY <1>1, <2>1, ReaderTyped DEF SendsLine
    <3>3. Sends(e) /\ port' = port
      BY <2>1 DEF SendsLine
    <3> HIDE DEF e
    <3> QED BY <3>1, <3>2, <3>3, SentStays DEF News, Ending
  <2>2. CASE SeesClosed(h)
    <3>1. reader[h].at = "reading" /\ (\A k \in Generation \ {h} : reader'[k] = reader[k])
      BY <1>1, <2>2, ReaderTyped DEF SeesClosed
    <3> QED BY <2>2, <3>1 DEF SeesClosed, News, Ending, Ended
  <2>3. CASE reader[h].at = "error" /\ Sends(Event("error", h, "other")) /\ Reader(h, "end")
             /\ UNCHANGED <<port, opening, closing>>
    <3>1. Event("error", h, "other") \in EventType
      BY EventTyped DEF Texts
    <3>2. reader'[h].at = "end" /\ (\A k \in Generation \ {h} : reader'[k] = reader[k])
      BY <1>1, <2>3, ReaderTyped
    <3> QED BY <2>3, <3>1, <3>2, SentStays DEF News, Ending
  <2>4. CASE reader[h].at = "end" /\ Sends(Event("disconnected", h, "other")) /\ Reader(h, "off")
             /\ UNCHANGED <<port, opening, closing>>
    <3> DEFINE e == Event("disconnected", h, "other")
    <3>1. e \in EventType /\ e.kind = "disconnected" /\ e.gen = h
      BY EventTyped DEF Texts, Event
    <3>2. Ended(h)'
      <4>1. Len(events) + 1 \in DOMAIN events' /\ events'[Len(events) + 1] = e
        BY <1>1, <2>4, <3>1, SendsTyped
      <4> QED BY <3>1, <4>1 DEF Ended
    <3>3. \A k \in Generation \ {h} : reader'[k] = reader[k]
      BY <1>1, <2>4, ReaderTyped
    <3> QED BY <2>4, <3>1, <3>2, <3>3, SentStays DEF News, Ending
  <2> QED BY <1>6, <2>1, <2>2, <2>3, <2>4 DEF ReaderStep, SendsEnd
<1>7. ASSUME NEW h \in Generation, LosesPort(h) PROVE News(g)'
  <2>1. reader[h].at = "reading" /\ UNCHANGED events
    BY <1>7 DEF LosesPort
  <2>2. (\A k \in Generation \ {h} : reader'[k] = reader[k])
    BY <1>1, <1>7, ReaderTyped DEF LosesPort
  <2>3. port = h => Ending(h)'
    BY <1>1, <1>7, ReaderTyped DEF LosesPort, Ending
  <2> QED BY <1>7, <2>1, <2>2, <2>3 DEF LosesPort, News, Ended, Ending
<1>8. ASSUME NEW h \in Generation, Written(h) PROVE News(g)'
  <2>1. Event("tx", h, "other") \in EventType
    BY EventTyped DEF Texts
  <2> QED BY <1>8, <2>1, SentStays DEF Written, News, Ending
<1>9. ASSUME NEW h \in Generation, NEW text \in Texts, Reads(h, text) PROVE News(g)'
  BY <1>1, <1>9 DEF Reads, News, Ended, Ending, TransportType
<1> QED BY <1>2, <1>3, <1>4, <1>5, <1>6, <1>7, <1>8, <1>9 DEF Keeps

\* Most steps leave the roles alone, and the news where they are.
LEMMA RolesKept ==
  ASSUME Types, Roles, Keeps, opening' = opening, opening # 0 => port' = port,
         ctl'.conn = ctl.conn, ctl'.transition = ctl.transition, ctl'.candidate = ctl.candidate,
         ctl'.gen = ctl.gen, ctl'.suppress = ctl.suppress, ctl.err => ctl'.err,
         ctl'.early = ctl.early, bridge' = bridge, user'.at = "idle" <=> user.at = "idle",
         shake'.at = "idle" <=> shake.at = "idle",
         shake'.at = "opening" <=> shake.at = "opening",
         shake'.at = "opened" => shake.at = "opened" /\ shake'.gen = shake.gen,
         shake'.at \in Unaware => shake.at \in Unaware,
         shake'.at \in Held => shake.at \in Held
  PROVE  Roles'
<1>1. ctl.candidate \in 0..MaxGen /\ ctl.gen \in 0..MaxGen
  BY Elsewhere DEF ControlType
<1>2. \A g \in Generation : News(g) => News(g)'
  BY NewsKept
<1>3. shake'.at \in Held => ctl'.candidate # 0 /\ ctl'.candidate # ctl'.suppress
                            /\ (ctl'.err \/ News(ctl.candidate)')
  <2>1. SUFFICES ASSUME shake'.at \in Held PROVE ctl.candidate # 0 /\ ctl.candidate # ctl.suppress
                                                  /\ (ctl'.err \/ News(ctl.candidate)')
    OBVIOUS
  <2>2. ctl.candidate # 0 /\ ctl.candidate # ctl.suppress /\ (ctl.err \/ News(ctl.candidate))
    BY <2>1 DEF Roles
  <2> QED BY <1>1, <1>2, <2>2, Bounds DEF Generation
<1>4. ctl'.conn = "connected" /\ ctl'.transition = "stable" =>
        bridge' = ctl'.gen \/ (ctl'.gen # ctl'.suppress /\ News(ctl.gen)')
  <2>1. SUFFICES ASSUME ctl.conn = "connected", ctl.transition = "stable", bridge # ctl.gen
                 PROVE  ctl.gen # ctl.suppress /\ News(ctl.gen)'
    OBVIOUS
  <2>2. ctl.gen # 0 /\ ctl.gen # ctl.suppress /\ News(ctl.gen)
    BY <2>1 DEF Roles
  <2> QED BY <1>1, <1>2, <2>2, Bounds DEF Generation
<1>5. shake'.at = "opened" => /\ shake'.gen # 0 /\ shake'.gen # ctl'.suppress
                              /\ shake'.gen \in ctl'.early \/ News(shake.gen)'
  <2>1. SUFFICES ASSUME shake.at = "opened", shake'.gen = shake.gen
                 PROVE  /\ shake.gen # 0 /\ shake.gen # ctl.suppress
                        /\ shake.gen \in ctl.early \/ News(shake.gen)'
    OBVIOUS
  <2>2. shake.gen # 0 /\ shake.gen # ctl.suppress /\ (shake.gen \in ctl.early \/ News(shake.gen))
    BY <2>1 DEF Roles
  <2>3. shake.gen \in Generation
    BY <2>2, Elsewhere, Bounds DEF ShakeType, Generation
  <2> QED BY <1>2, <2>1, <2>2, <2>3
<1>6. shake'.at \in Unaware => ctl'.candidate = 0
  BY DEF Roles
<1> QED BY <1>3, <1>4, <1>5, <1>6 DEF Roles

\* Other steps lead where there is nothing to report.
LEMMA RolesReset ==
  ASSUME shake'.at # "idle" <=> ctl'.transition = "connecting",
         user'.at # "idle" <=> ctl'.transition = "disconnecting",
         ctl'.conn = "connected" => ctl'.transition = "disconnecting" /\ ctl'.gen # 0,
         opening' = 0, shake'.at \notin Held \cup {"opening", "opened"},
         shake'.at \in {"idle", "open"} => ctl'.candidate = 0
  PROVE  Roles'
BY DEF Roles, Unaware

\* Steps that touch neither the controller nor the attempt.
LEMMA RolesElsewhere ==
  ASSUME Types, Roles, UNCHANGED <<ctl, shake, bridge>>, user'.at = "idle" <=> user.at = "idle",
         \/ UNCHANGED transportVars
         \/ \E g \in Generation : \/ ReaderStep(g) \/ LosesPort(g) \/ Written(g)
                                  \/ \E text \in Texts : Reads(g, text)
         \/ CloseReturns
  PROVE  Roles'
<1>1. Keeps
  BY DEF Keeps
<1>2. opening' = opening /\ (opening # 0 => port' = port)
  BY DEF transportVars, ReaderStep, SendsLine, SeesClosed, SendsEnd, LosesPort, Written, Reads, CloseReturns
<1> QED BY <1>1, <1>2, RolesKept

LEMMA AttemptRoles ==
  ASSUME Types, Roles, Attempt
  PROVE  Roles'
<1>1. /\ ctl \in ControlType /\ shake \in ShakeType /\ user \in UserType
  BY Elsewhere, Beside
<1>2. CASE Opens /\ UNCHANGED monitorVars
  <2>1. PICK g \in Unused : OpenPort(g) /\ g \in Generation
    <3>1. Unused # {} /\ Unused \in SUBSET Nat /\ Unused \subseteq Generation
      BY <1>2, Bounds DEF Opens, Unused, Generation
    <3> DEFINE g == CHOOSE g \in Unused : \A h \in Unused : g <= h
    <3>2. g \in Unused /\ OpenPort(g)
      BY <1>2, <3>1, Smallest DEF Opens
    <3> QED BY <3>1, <3>2
  <2>2. g # 0 /\ g # ctl.suppress
    BY <2>1, Bounds DEF Unused, Generation
  <2>3. port' = g /\ opening' = g
    BY <2>1 DEF OpenPort
  <2>4. shake.at = "open" /\ shake'.at = "opening" /\ UNCHANGED <<ctl, user, bridge>>
    BY <1>1, <1>2 DEF Opens, At, ShakeType, monitorVars
  <2> QED BY <2>2, <2>3, <2>4 DEF Roles, Held, Unaware
<1>3. CASE Opened /\ UNCHANGED monitorVars
  <2>1. /\ shake.at = "opening" /\ shake'.at = "opened" /\ shake'.gen = opening
        /\ opening' = 0 /\ port' = port /\ UNCHANGED <<ctl, user, bridge>>
    BY <1>1, <1>3 DEF Opened, OpenReturns, ShakeType, monitorVars
  <2>2. opening # 0 /\ port = opening /\ opening # ctl.suppress /\ ctl.transition = "connecting"
        /\ ctl.candidate = 0
    BY <2>1 DEF Roles, Unaware
  <2>3. News(shake.gen)'
    BY <2>1, <2>2 DEF News
  <2>4. ctl'.conn # "connected" /\ user'.at = "idle"
    BY <2>1, <2>2 DEF Roles
  <2> QED BY <2>1, <2>2, <2>3, <2>4 DEF Roles, Held, Unaware
<1>4. CASE NoteOpened /\ UNCHANGED monitorVars
  <2> DEFINE err == ctl.err \/ shake.gen \in ctl.early
  <2>1. /\ ctl'.candidate = shake.gen /\ ctl'.transition = ctl.transition /\ ctl'.conn = ctl.conn
        /\ ctl'.suppress = ctl.suppress /\ ctl'.gen = ctl.gen /\ ctl'.err = err
    BY <1>1, <1>4 DEF NoteOpened, ControlType
  <2>2. shake.at = "opened" /\ shake'.at \in {"suppress", "banner"}
        /\ UNCHANGED <<transportVars, user, bridge>>
    BY <1>1, <1>4 DEF NoteOpened, Fails, At, ShakeType, monitorVars
  <2>3. /\ shake.gen # 0 /\ shake.gen # ctl.suppress /\ opening = 0 /\ ctl.transition = "connecting"
        /\ shake.gen \in ctl.early \/ News(shake.gen)
    BY <2>2 DEF Roles
  <2>4. ctl'.err \/ News(ctl.candidate)'
    BY <2>1, <2>2, <2>3 DEF News, Ended, Ending, transportVars
  <2>5. ctl'.conn # "connected" /\ user'.at = "idle"
    BY <2>1, <2>2, <2>3 DEF Roles
  <2> HIDE DEF err
  <2> QED BY <2>1, <2>2, <2>3, <2>4, <2>5 DEF Roles, Held, Unaware, transportVars
<1>5. CASE (OpenFails \/ Quiet \/ WriteFails \/ SeesError \/ TimesOut) /\ UNCHANGED monitorVars
  <2>1. UNCHANGED <<transportVars, ctl, user, bridge>>
    BY <1>5 DEF OpenFails, Quiet, WriteFails, SeesError, TimesOut, monitorVars
  <2>2. /\ shake.at \notin {"idle", "opening"} /\ shake'.at \notin Unaware
        /\ shake'.at \in Held => shake.at \in Held
    BY <1>1, <1>5 DEF OpenFails, Quiet, WriteFails, SeesError, TimesOut, Fails, At, ShakeType, Waits, Held, Unaware
  <2>3. Keeps /\ opening' = opening /\ port' = port
    BY <2>1 DEF Keeps, transportVars
  <2> QED BY <2>1, <2>2, <2>3, RolesKept DEF Unaware
<1>6. CASE (TakesBanner \/ TakesStartup \/ TakesAnswer) /\ UNCHANGED monitorVars
  <2>1. ctl' = [ctl EXCEPT !.queue = Tail(ctl.queue)] /\ Next1.kind \in {"rx", "error", "disconnected"}
    BY <1>6, TakesType DEF TakesBanner, TakesStartup, TakesAnswer, Ready
  <2>2. /\ ctl'.conn = ctl.conn /\ ctl'.transition = ctl.transition /\ ctl'.candidate = ctl.candidate
        /\ ctl'.gen = ctl.gen /\ ctl'.suppress = ctl.suppress /\ ctl'.err = ctl.err
        /\ ctl'.early = ctl.early
    BY <1>1, <2>1 DEF ControlType
  <2>3. shake.at \in {"banner", "quiet", "settings"} /\ UNCHANGED <<transportVars, user, bridge>>
    BY <1>6 DEF TakesBanner, TakesStartup, TakesAnswer, monitorVars
  <2>4. shake'.at \in {"suppress", "quiet", "commit", shake.at}
    <3>1. CASE TakesBanner \/ TakesStartup
      BY <1>1, <2>1, <3>1 DEF TakesBanner, TakesStartup, Fails, At, ShakeType
    <3>2. CASE TakesAnswer
      BY <1>1, <2>1, <3>2 DEF TakesAnswer, Fails, At, ShakeType
    <3> QED BY <1>6, <3>1, <3>2
  <2>5. Keeps /\ opening' = opening /\ port' = port
    BY <2>3 DEF Keeps, transportVars
  <2> QED BY <2>2, <2>3, <2>4, <2>5, RolesKept DEF Held, Unaware
<1>7. CASE QueryStarts /\ UNCHANGED monitorVars
  <2>1. MarkedOld /\ ctl' = [ctl EXCEPT !.queue = MarkOld(ctl.queue)]
    BY <1>7, QueryStartsTypes
  <2>2. /\ ctl'.conn = ctl.conn /\ ctl'.transition = ctl.transition /\ ctl'.candidate = ctl.candidate
        /\ ctl'.gen = ctl.gen /\ ctl'.suppress = ctl.suppress /\ ctl'.err = ctl.err
        /\ ctl'.early = ctl.early
    BY <1>1, <2>1 DEF ControlType
  <2>3. shake.at = "query" /\ shake'.at = "write" /\ UNCHANGED <<port, opening, user, bridge>>
    BY <1>1, <1>7 DEF QueryStarts, At, ShakeType, monitorVars
  <2>4. Keeps
    BY <2>1 DEF Keeps
  <2> QED BY <2>2, <2>3, <2>4, RolesKept DEF Held, Unaware
<1>8. CASE WritesQuery /\ UNCHANGED monitorVars
  <2>1. shake.at = "write" /\ shake'.at = "settings" /\ UNCHANGED <<port, opening, ctl, user, bridge>>
    BY <1>1, <1>8 DEF WritesQuery, At, ShakeType, monitorVars
  <2>2. port \in Generation /\ Written(port)
    BY <1>8, Elsewhere, Bounds DEF TransportType, WritesQuery, Written, Generation
  <2>3. Keeps
    BY <2>2 DEF Keeps
  <2> QED BY <2>1, <2>3, RolesKept DEF Held, Unaware
<1>9. CASE Suppresses /\ UNCHANGED monitorVars
  <2>1. /\ shake.at = "suppress" /\ shake'.at = "close" /\ opening' = opening /\ user' = user
        /\ ctl'.transition = ctl.transition /\ ctl'.conn = ctl.conn
    BY <1>1, <1>9 DEF Suppresses, At, ShakeType, ControlType, monitorVars, transportVars
  <2> QED BY <2>1, RolesReset DEF Roles, Held
<1>10. CASE ClosesCandidate /\ UNCHANGED monitorVars
  <2>1. /\ shake.at \in {"close", "closing"} /\ shake'.at \in {"closing", "end"}
        /\ UNCHANGED <<ctl, user>> /\ opening' = opening
    BY <1>1, <1>10 DEF ClosesCandidate, At, ShakeType, CloseTakes, CloseReturns, monitorVars, transportVars
  <2> QED BY <2>1, RolesReset DEF Roles, Held
<1>11. CASE SeesCancel
  <2>1. UNCHANGED <<transportVars, ctl, user, bridge>> /\ shake.at \in Waits /\ shake'.at = "suppress"
    BY <1>1, <1>11 DEF SeesCancel, Fails, At, ShakeType, monitorVars
  <2>2. Keeps /\ opening' = opening /\ port' = port
    BY <2>1 DEF Keeps, transportVars
  <2> QED BY <2>1, <2>2, RolesKept DEF Held, Unaware, Waits
<1>12. CASE Commits
  <2>1. CASE ctl.err
    <3>1. UNCHANGED <<transportVars, ctl, user, bridge>> /\ shake.at = "commit" /\ shake'.at = "suppress"
      BY <1>1, <1>12, <2>1 DEF Commits, Fails, At, ShakeType
    <3>2. Keeps /\ opening' = opening /\ port' = port
      BY <3>1 DEF Keeps, transportVars
    <3> QED BY <3>1, <3>2, RolesKept DEF Held, Unaware
  <2>2. CASE ~ctl.err
    <3>1. /\ ctl'.conn = "connected" /\ ctl'.transition = "stable" /\ ctl'.gen = ctl.candidate
          /\ ctl'.suppress = ctl.suppress /\ ctl'.candidate = 0
      <4> DEFINE f == Finished(ctl)
      <4>1. ctl \in ControlType
        BY <1>1
      <4>2. f.suppress = ctl.suppress /\ f.transition = "stable" /\ f.candidate = 0
        BY <4>1 DEF Finished, ControlType
      <4>3. f \in ControlType
        BY <4>1, FinishedType
      <4>4. ctl' = [f EXCEPT !.conn = "connected", !.gen = ctl.candidate,
                             !.settings = shake.got, !.name = shake.machine]
        BY <1>12, <2>2 DEF Commits
      <4> HIDE DEF f
      <4> QED BY <4>2, <4>3, <4>4 DEF ControlType
    <3>2. shake.at = "commit" /\ shake'.at = "idle" /\ UNCHANGED <<transportVars, user, bridge>>
      BY <1>12, <2>2 DEF Commits, Idle
    <3>3. /\ ctl.candidate # 0 /\ ctl.candidate # ctl.suppress /\ News(ctl.candidate)
          /\ ctl.transition = "connecting" /\ opening = 0
      BY <2>2, <3>2 DEF Roles, Held
    <3>4. News(ctl.gen)'
      BY <3>1, <3>2, <3>3 DEF News, Ended, Ending, transportVars
    <3> QED BY <3>1, <3>2, <3>3, <3>4 DEF Roles, Held, transportVars
  <2> QED BY <2>1, <2>2
<1>13. CASE Abandons
  <2>1. /\ shake.at = "end" /\ shake'.at = "idle" /\ user' = user /\ opening' = opening
        /\ ctl'.candidate = 0
        /\ ctl'.transition = "stable" /\ (ctl.conn # "connected" => ctl'.conn # "connected")
    BY <1>1, <1>13 DEF Abandons, Idle, Finished, ControlType, transportVars
  <2> QED BY <2>1, RolesReset DEF Roles, Held
<1> QED BY <1>2, <1>3, <1>4, <1>5, <1>6, <1>7, <1>8, <1>9, <1>10, <1>11, <1>12, <1>13 DEF Attempt

\* Beginning an attempt.
LEMMA BeginRoles ==
  ASSUME Types, Roles, NEW by, NEW m, BeginAttempt(by, m), user'.at = user.at, opening' = opening
  PROVE  Roles'
<1>1. /\ ctl'.transition = "connecting" /\ ctl'.conn = "connecting" /\ shake'.at = "open"
      /\ ctl.transition = "stable" /\ ctl'.candidate = ctl.candidate
  BY Elsewhere DEF BeginAttempt, ControlType, Idle
<1> QED BY <1>1, RolesReset DEF Roles, Held, Unaware

LEMMA MonitorRoles ==
  ASSUME Types, Roles, Monitor \/ RetryDue \/ StopPortMonitoring
  PROVE  Roles'
<1>1. CASE Scans \/ Considers \/ Wakes \/ RetryDue \/ StopPortMonitoring
  <2>1. UNCHANGED <<transportVars, ctl, shake, bridge>> /\ user'.at = user.at
    BY <1>1, Beside DEF Scans, Considers, Wakes, RetryDue, StopPortMonitoring, UserType, handshakeVars
  <2> QED BY <2>1, RolesElsewhere
<1>2. CASE TriesConnect
  <2>1. UNCHANGED <<transportVars, bridge, user>>
    BY <1>2 DEF TriesConnect
  <2> QED BY <1>2, <2>1, BeginRoles, RolesElsewhere DEF TriesConnect, transportVars
<1> QED BY <1>1, <1>2 DEF Monitor

LEMMA OperatorRoles ==
  ASSUME Types, Roles, UserConnect \/ Disconnect \/ Closing
  PROVE  Roles'
<1>1. /\ ctl \in ControlType /\ user \in UserType /\ {port, opening, closing} \subseteq 0..MaxGen
  BY Elsewhere, Beside DEF TransportType
<1>2. CASE UserConnect
  <2>1. user'.at = user.at /\ opening' = opening /\ \E m \in Machines : BeginAttempt("user", m)
    BY <1>1, <1>2 DEF UserConnect, UserType, transportVars
  <2> QED BY <2>1, BeginRoles
<1>3. CASE Disconnect
  <2>1. /\ ctl.transition = "stable" /\ ctl'.transition = "disconnecting" /\ ctl'.conn = ctl.conn
        /\ ctl'.gen = ctl.gen /\ user'.at = "join" /\ shake' = shake /\ opening' = opening
        /\ ctl'.candidate = ctl.candidate
    BY <1>1, <1>3 DEF Disconnect, ControlType, transportVars
  <2> QED BY <2>1, RolesReset DEF Roles, Held, Unaware
<1>4. CASE DisconnectStep
  <2>1. user.at \in {"join", "close", "closing"} /\ user'.at \in {"close", "closing", "clear"}
        /\ UNCHANGED <<ctl, shake>> /\ opening' = opening
    BY <1>1, <1>4 DEF DisconnectStep, UserType, handshakeVars, transportVars, CloseTakes, CloseReturns
  <2> QED BY <2>1, RolesReset DEF Roles, Held, Unaware
<1>5. CASE DisconnectClears
  <2>1. /\ user.at = "clear" /\ user'.at = "idle" /\ ctl'.conn = "disconnected"
        /\ ctl'.transition = "stable" /\ shake' = shake /\ opening' = opening
        /\ ctl'.candidate = ctl.candidate
    BY <1>1, <1>5 DEF DisconnectClears, UserType, ControlType, transportVars
  <2> QED BY <2>1, RolesReset DEF Roles, Held, Unaware
<1> QED BY <1>2, <1>3, <1>4, <1>5 DEF Closing

LEMMA BridgeReadsRoles ==
  ASSUME Types, Roles, BridgeReads
  PROVE  Roles'
<1> DEFINE e == Head(events)
<1>1. ctl \in ControlType /\ Len(ctl.queue) <= MaxQueue /\ QueueKinds(ctl)
  BY Elsewhere
<1>2. Taken /\ e \in EventType /\ bridge = 0 /\ UNCHANGED <<shake, user>>
  BY BridgeReadsCases
<1>3. UNCHANGED <<port, opening, reader>>
  BY <1>2 DEF Taken
\* the news of every generation but the event's stay
<1>4. \A g \in Generation : News(g) /\ ~(e.kind = "disconnected" /\ e.gen = g) => News(g)'
  <2>1. /\ DOMAIN events = 1..Len(events) /\ DOMAIN events' = 1..Len(events) - 1 /\ Len(events) \in Nat
        /\ \A i \in DOMAIN events' : events'[i] = events[i + 1]
        /\ e = events[1]
    BY <1>2, TakenTyped, Elsewhere
  <2>2. \A i \in DOMAIN events : i = 1 \/ (i - 1 \in DOMAIN events' /\ events[i] = events'[i - 1])
    BY <2>1
  <2> QED BY <1>3, <2>1, <2>2 DEF News, Ended, Ending
<1>5. /\ ctl.candidate \in 0..MaxGen /\ ctl.gen \in 0..MaxGen /\ ctl.suppress \in 0..MaxGen
      /\ e.gen \in Generation
  BY <1>1, <1>2 DEF ControlType, EventType
<1> DEFINE Outcome ==
             /\ ctl'.conn = ctl.conn /\ ctl'.transition = ctl.transition /\ ctl'.candidate = ctl.candidate
             /\ ctl'.gen = ctl.gen /\ ctl'.suppress \in {0, ctl.suppress} /\ (ctl.err => ctl'.err)
             /\ ctl'.suppress # ctl.suppress => e.kind = "disconnected" /\ e.gen = ctl.suppress
             /\ \/ bridge' = bridge \/ bridge' = ctl.gen
             /\ e.kind = "disconnected" /\ e.gen # ctl.suppress =>
                  /\ ctl.transition = "connecting" /\ e.gen = ctl.candidate => ctl'.err
                  /\ ctl.transition = "connecting" /\ ctl.candidate = 0 => e.gen \in ctl'.early
                  /\ ctl.transition = "stable" /\ e.gen = ctl.gen => bridge' = ctl.gen
             /\ ctl.early \subseteq ctl'.early
\* with the attempt's generation ended, the attempt has failed
<1>6. Outcome
  <2>1. CASE UNCHANGED ctl /\ \/ e.kind # "disconnected" /\ UNCHANGED bridge
                              \/ /\ ctl.transition # "connecting"
                                 /\ IF e.gen = ctl.gen THEN bridge' = ctl.gen ELSE UNCHANGED bridge
    BY <1>2, <2>1
  <2>2. CASE /\ ctl' = [ctl EXCEPT !.suppress = 0] /\ UNCHANGED bridge
             /\ e.kind = "disconnected" /\ e.gen = ctl.suppress
    BY <1>1, <2>2 DEF ControlType
  <2>3. ASSUME e.kind \in {"rx", "error", "disconnected"}, NEW early \in {ctl.early, ctl.early \cup {e.gen}},
               e.kind = "disconnected" /\ ctl.candidate = 0 => e.gen \in early,
               ctl' = [Enqueued(ctl, e) EXCEPT !.early = early], UNCHANGED bridge,
               ctl.transition = "connecting", e.kind = "disconnected" => e.gen # ctl.suppress
        PROVE  Outcome
    <3>1. PICK queue \in {ctl.queue, Append(ctl.queue, e)}, err \in BOOLEAN :
            /\ Enqueued(ctl, e) = [ctl EXCEPT !.queue = queue, !.err = err]
            /\ ctl.err => err
            /\ e.gen = ctl.candidate => (e.kind # "rx" => err)
      BY <1>1, <1>2, <2>3, EnqueuedType
    <3>2. ctl' = [ctl EXCEPT !.queue = queue, !.err = err, !.early = early]
      BY <1>1, <2>3, <3>1 DEF ControlType
    <3> QED BY <1>1, <2>3, <3>1, <3>2 DEF ControlType
  <2>4. \/ UNCHANGED ctl /\ \/ e.kind # "disconnected" /\ UNCHANGED bridge
                            \/ /\ ctl.transition # "connecting"
                               /\ IF e.gen = ctl.gen THEN bridge' = ctl.gen ELSE UNCHANGED bridge
        \/ /\ ctl' = [ctl EXCEPT !.suppress = 0] /\ UNCHANGED bridge
           /\ e.kind = "disconnected" /\ e.gen = ctl.suppress
        \/ /\ e.kind \in {"rx", "error", "disconnected"} /\ UNCHANGED bridge
           /\ ctl.transition = "connecting" /\ (e.kind = "disconnected" => e.gen # ctl.suppress)
           /\ \E early \in {ctl.early, ctl.early \cup {e.gen}} :
                /\ ctl' = [Enqueued(ctl, e) EXCEPT !.early = early]
                /\ e.kind = "disconnected" /\ ctl.candidate = 0 => e.gen \in early
    <3> HIDE DEF Outcome
    <3> QED BY BridgeReadsCases
  <2> HIDE DEF Outcome, e
  <2> QED BY <2>1, <2>2, <2>3, <2>4
<1> HIDE DEF e
\* an end of the opened generation is remembered
<1>7. shake'.at = "opened" => /\ shake'.gen # 0 /\ shake'.gen # ctl'.suppress
                              /\ shake'.gen \in ctl'.early \/ News(shake.gen)'
  <2>1. SUFFICES ASSUME shake.at = "opened"
                 PROVE  /\ shake.gen # 0 /\ shake.gen # ctl'.suppress
                        /\ shake.gen \in ctl'.early \/ News(shake.gen)'
    BY <1>2
  <2>2. /\ shake.gen # 0 /\ shake.gen # ctl.suppress /\ ctl.transition = "connecting"
        /\ ctl.candidate = 0 /\ (shake.gen \in ctl.early \/ News(shake.gen))
    BY <2>1 DEF Roles, Unaware
  <2>3. shake.gen \in Generation
    BY <2>2, Elsewhere, Bounds DEF ShakeType, Generation
  <2>4. News(shake.gen)' \/ ~News(shake.gen) \/ (e.kind = "disconnected" /\ e.gen = shake.gen)
    BY <1>2, <1>4, <2>3
  <2> QED BY <1>6, <2>2, <2>4
<1> QED BY <1>2, <1>3, <1>4, <1>5, <1>6, <1>7, Bounds DEF Roles, Held, Generation

LEMMA BridgeClearsRoles ==
  ASSUME Types, Roles, BridgeClears
  PROVE  Roles'
<1>1. UNCHANGED <<port, opening, reader, events, shake, user>> /\ bridge # 0
  BY DEF BridgeClears, transportVars
<1>2. CASE ctl.gen # bridge
  <2>1. ctl' = ctl
    BY <1>2 DEF BridgeClears
  <2> QED BY <1>1, <1>2, <2>1 DEF Roles, News, Ended, Ending
<1>3. CASE ctl.gen = bridge
  <2>1. /\ ctl'.conn = "disconnected" /\ ctl'.transition = ctl.transition /\ ctl'.err = ctl.err
        /\ ctl'.candidate = ctl.candidate /\ ctl'.suppress = ctl.suppress /\ ctl'.early = ctl.early
    BY <1>3, Elsewhere DEF BridgeClears, ControlType
  <2> QED BY <1>1, <2>1 DEF Roles, News, Ended, Ending
<1> QED BY <1>2, <1>3

LEMMA WireRoles ==
  ASSUME Types, Roles,
         \/ PollBegins \/ PollEnds \/ Plugs \/ Unplugs
         \/ \E g \in Generation : Line(g) \/ (GoesMute(g) /\ UNCHANGED monitorVars)
  PROVE  Roles'
<1>1. UNCHANGED <<ctl, shake, bridge, user>>
  BY DEF PollBegins, PollEnds, Plugs, Unplugs, Line, GoesMute, MachineSpeaks, StartupEnds, ReadFails,
         handshakeVars, monitorVars
<1>2. CASE PollBegins \/ Plugs \/ Unplugs
  BY <1>1, <1>2, RolesElsewhere DEF PollBegins, Plugs, Unplugs
<1>3. CASE PollEnds
  <2>1. poller.gen \in Generation
    BY <1>3, Beside, Bounds DEF PollEnds, PollerType, Generation
  <2>2. Written(poller.gen)
    BY <1>3 DEF PollEnds, Written
  <2> QED BY <1>1, <2>1, <2>2, RolesElsewhere
<1>4. ASSUME NEW g \in Generation, Line(g) \/ (GoesMute(g) /\ UNCHANGED monitorVars)
      PROVE  Roles'
  <2>1. \/ UNCHANGED transportVars \/ ReaderStep(g) \/ LosesPort(g)
        \/ \E text \in Texts : Reads(g, text)
    BY <1>4 DEF Line, GoesMute, MachineSpeaks, Prints, StartupEnds, ReadFails, Texts
  <2> QED BY <1>1, <2>1, RolesElsewhere
<1> QED BY <1>2, <1>3, <1>4

LEMMA StepRoles ==
  ASSUME Types, Roles, [Next]_vars
  PROVE  Roles'
<1>1. CASE UNCHANGED vars
  BY <1>1, RolesElsewhere DEF vars, handshakeVars, monitorVars
<1>2. CASE Attempt \/ Monitor \/ RetryDue \/ Bridge \/ Closing \/ StopPortMonitoring \/ UserConnect
           \/ Disconnect
  BY <1>2, AttemptRoles, MonitorRoles, OperatorRoles, BridgeReadsRoles, BridgeClearsRoles DEF Bridge
<1>3. CASE \/ PollBegins \/ PollEnds \/ Plugs \/ Unplugs \/ (\E g \in Generation : Line(g))
           \/ ((\E g \in Generation : GoesMute(g)) /\ UNCHANGED monitorVars)
  BY <1>3, WireRoles
<1>4. Next \/ UNCHANGED vars
  OBVIOUS
<1> QED BY <1>1, <1>2, <1>3, <1>4 DEF Next

LEMMA RolesSuffice == Types /\ Roles => LossNoticed
<1> SUFFICES ASSUME Types, Roles PROVE LossNoticed
  OBVIOUS
<1>1. ASSUME ctl.conn = "connected", port # ctl.gen
      PROVE  ctl.transition = "disconnecting" \/ bridge = ctl.gen \/ OnItsWay(ctl.gen)
  <2>1. CASE ctl.transition # "stable"
    BY <1>1, <2>1, Elsewhere DEF Roles, ControlType
  <2>2. CASE ctl.transition = "stable"
    BY <1>1, <2>2 DEF Roles, News, Ending, Ended, OnItsWay
  <2> QED BY <2>1, <2>2
<1>2. ASSUME shake.at \in Waits \cup {"query", "write", "commit"}, port # ctl.candidate
      PROVE  ctl.err \/ OnItsWay(ctl.candidate)
  <2>1. shake.at \in Held
    BY <1>2 DEF Waits, Held
  <2> QED BY <1>2, <2>1 DEF Roles, News, Ending, Ended, OnItsWay
<1> QED BY <1>1, <1>2 DEF LossNoticed

-----------------------------------------------------------------------------
(* The answer to the query. *)

LEMMA PlainStep ==
  ASSUME Types, TransportStep, \A i \in DOMAIN events : Plain(events[i])
  PROVE  \A i \in DOMAIN events' : Plain(events'[i])
<1>1. TransportType /\ (\A h \in Generation : reader[h] \in ReaderType)
      /\ {port, opening, closing} \subseteq 0..MaxGen
  BY Elsewhere DEF TransportType
<1>2. ASSUME NEW e \in EventType, Sends(e), Plain(e) PROVE \A i \in DOMAIN events' : Plain(events'[i])
  BY <1>1, <1>2, SendsTyped
<1>3. \A kind \in {"connected", "tx", "error", "disconnected"}, g \in Generation :
        Event(kind, g, "other") \in EventType /\ Plain(Event(kind, g, "other"))
  BY EventTyped DEF Texts, Event, Plain
<1>4. CASE events' = events
  BY <1>4
<1>5. CASE OpenReturns \/ CloseReturns
  BY <1>1, <1>2, <1>3, <1>5, Bounds DEF OpenReturns, CloseReturns, Generation
<1>6. CASE Taken
  BY <1>1, <1>6, TakenTyped
<1>7. CASE MarkedOld
  BY <1>1, <1>7, MarkedTyped DEF Plain
<1>8. ASSUME NEW g \in Generation, ReaderStep(g) \/ Written(g)
      PROVE  \A i \in DOMAIN events' : Plain(events'[i])
  <2>1. CASE SendsLine(g)
    <3> DEFINE e == [Event("rx", g, reader[g].text) EXCEPT !.old = reader[g].old]
    <3>1. e \in EventType /\ Plain(e)
      BY <1>1 DEF Event, EventType, ReaderType, Plain
    <3>2. Sends(e)
      BY <2>1 DEF SendsLine
    <3> HIDE DEF e
    <3> QED BY <1>2, <3>1, <3>2
  <2>2. CASE SeesClosed(g)
    BY <1>4, <2>2 DEF SeesClosed
  <2>3. CASE SendsEnd(g) \/ Written(g)
    BY <1>2, <1>3, <2>3 DEF SendsEnd, Written
  <2> QED BY <1>8, <2>1, <2>2, <2>3 DEF ReaderStep
<1> QED BY <1>4, <1>5, <1>6, <1>7, <1>8
        DEF TransportStep, Keeps, transportVars, CloseTakes, OpenPort, LosesPort, Reads

\* A step that does not read a stray line of g leaves none behind.
LEMMA CleanStep ==
  ASSUME Types, TransportStep, NEW g \in Generation, EventsClean(g), LineClean(g)
  PROVE  EventsClean(g)'
<1>1. TransportType /\ (\A h \in Generation : reader[h] \in ReaderType)
      /\ {port, opening, closing} \subseteq 0..MaxGen
  BY Elsewhere DEF TransportType
<1>2. ASSUME NEW e \in EventType, Sends(e), Fresh(e, g) PROVE EventsClean(g)'
  BY <1>1, <1>2, SendsTyped DEF EventsClean
<1>3. \A kind \in {"connected", "tx", "error", "disconnected"}, h \in Generation :
        Event(kind, h, "other") \in EventType /\ Fresh(Event(kind, h, "other"), g)
  BY EventTyped DEF Texts, Event, Fresh
<1>4. CASE events' = events
  BY <1>4 DEF EventsClean
<1>5. CASE OpenReturns \/ CloseReturns
  BY <1>1, <1>2, <1>3, <1>5, Bounds DEF OpenReturns, CloseReturns, Generation
<1>6. CASE Taken
  BY <1>1, <1>6, TakenTyped DEF EventsClean
<1>7. CASE MarkedOld
  BY <1>1, <1>7, MarkedTyped DEF EventsClean, Fresh
<1>8. ASSUME NEW h \in Generation, ReaderStep(h) \/ Written(h)
      PROVE  EventsClean(g)'
  <2>1. CASE SendsLine(h)
    <3> DEFINE e == [Event("rx", h, reader[h].text) EXCEPT !.old = reader[h].old]
    <3>1. e \in EventType /\ e.gen = h /\ e.text = reader[h].text /\ e.old = reader[h].old
      BY <1>1 DEF Event, EventType, ReaderType
    <3>2. Sends(e) /\ reader[h].at = "line"
      BY <2>1 DEF SendsLine
    <3> HIDE DEF e
    <3>3. Fresh(e, g)
      BY <3>1, <3>2 DEF Fresh, LineClean
    <3> QED BY <1>2, <3>1, <3>2, <3>3
  <2>2. CASE SeesClosed(h)
    BY <1>4, <2>2 DEF SeesClosed
  <2>3. CASE SendsEnd(h) \/ Written(h)
    BY <1>2, <1>3, <2>3 DEF SendsEnd, Written
  <2> QED BY <1>8, <2>1, <2>2, <2>3 DEF ReaderStep
<1> QED BY <1>4, <1>5, <1>6, <1>7, <1>8
        DEF TransportStep, Keeps, transportVars, CloseTakes, OpenPort, LosesPort, Reads

LEMMA LineStep ==
  ASSUME Types, NEW g \in Generation, LineClean(g),
         \/ reader' = reader
         \/ MarkedOld
         \/ \E h \in Generation : \/ ReaderStep(h) \/ LosesPort(h)
                                  \/ \E text \in Texts : Reads(h, text) /\ (h # g \/ text # "stray")
  PROVE  LineClean(g)'
<1>1. TransportType /\ (\A h \in Generation : reader[h] \in ReaderType)
  BY Elsewhere DEF TransportType
<1>2. CASE reader' = reader
  BY <1>2 DEF LineClean
<1>3. CASE MarkedOld
  BY <1>1, <1>3, MarkedTyped DEF LineClean
<1>4. ASSUME NEW h \in Generation, ReaderStep(h) \/ LosesPort(h) PROVE LineClean(g)'
  <2>1. \E at \in {"off", "reading", "error", "end"} : Reader(h, at)
    BY <1>4 DEF ReaderStep, SendsLine, SeesClosed, SendsEnd, LosesPort
  <2>2. reader'[h].at # "line" /\ \A k \in Generation \ {h} : reader'[k] = reader[k]
    BY <1>1, <2>1, ReaderTyped
  <2> QED BY <2>2 DEF LineClean
<1>5. ASSUME NEW h \in Generation, NEW text \in Texts, Reads(h, text), h # g \/ text # "stray"
      PROVE  LineClean(g)'
  BY <1>1, <1>5 DEF Reads, LineClean, TransportType
<1> QED BY <1>2, <1>3, <1>4, <1>5

\* Most steps leave the attempt's progress and its queue alone.
LEMMA AskedKept ==
  ASSUME Types, Roles, Asked, TransportStep,
         ctl'.candidate = ctl.candidate,
         ctl'.conn = "connected" => ctl.conn = "connected" /\ ctl'.settings = ctl.settings,
         \A i \in DOMAIN ctl'.queue : \E j \in DOMAIN ctl.queue : ctl'.queue[i] = ctl.queue[j],
         shake'.at = shake.at /\ shake'.got = shake.got,
         shake.at \in {"query", "write", "settings"} =>
           dev'[ctl.candidate].stage \notin {"boot", "startup"},
         shake.at \in {"write", "settings"} => LineClean(ctl.candidate)'
  PROVE  Asked'
<1>1. ctl.candidate \in 0..MaxGen
  BY Elsewhere DEF ControlType
<1>2. \A i \in DOMAIN events' : Plain(events'[i])
  BY PlainStep DEF Asked
<1>3. \A i \in DOMAIN ctl'.queue : Plain(ctl'.queue[i])
  BY DEF Asked
<1>4. ASSUME shake.at \in {"write", "settings"}
      PROVE  /\ EventsClean(ctl.candidate)'
             /\ \A i \in DOMAIN ctl'.queue : Fresh(ctl'.queue[i], ctl.candidate)
  <2>1. ctl.candidate # 0
    BY <1>4 DEF Roles, Held
  <2>2. ctl.candidate \in Generation
    BY <1>1, <2>1, Bounds DEF Generation
  <2>3. EventsClean(ctl.candidate) /\ LineClean(ctl.candidate)
    BY <1>4 DEF Asked
  <2>4. \A g \in Generation : EventsClean(g) /\ LineClean(g) => EventsClean(g)'
    BY CleanStep
  <2>5. EventsClean(ctl.candidate)'
    BY <2>2, <2>3, <2>4
  <2>6. \A i \in DOMAIN ctl'.queue : Fresh(ctl'.queue[i], ctl.candidate)
    BY <1>4 DEF Asked
  <2> QED BY <2>5, <2>6
<1> QED BY <1>2, <1>3, <1>4 DEF Asked

\* Other steps begin or end an attempt.
LEMMA AskedReset ==
  ASSUME Types, Asked, TransportStep,
         ctl'.conn = "connected" => ctl.conn = "connected" /\ ctl'.settings = ctl.settings,
         \A i \in DOMAIN ctl'.queue : \E j \in DOMAIN ctl.queue : ctl'.queue[i] = ctl.queue[j],
         shake'.at \notin {"query", "write", "settings", "commit"}, shake'.got \in {{}, shake.got}
  PROVE  Asked'
<1>1. \A i \in DOMAIN events' : Plain(events'[i])
  BY PlainStep DEF Asked
<1> QED BY <1>1 DEF Asked

LEMMA AskedElsewhere ==
  ASSUME Types, Roles, Asked, TransportStep, UNCHANGED <<ctl, shake>>,
         \A g \in Generation : dev'[g].stage \in {"boot", "startup"} => dev[g].stage \in {"boot", "startup"},
         \/ reader' = reader
         \/ \E h \in Generation :
              \/ ReaderStep(h) \/ LosesPort(h)
              \/ \E text \in Texts :
                   Reads(h, text) /\ (text = "stray" => dev[h].stage \in {"boot", "startup"})
  PROVE  Asked'
<1>1. ctl.candidate \in 0..MaxGen
  BY Elsewhere DEF ControlType
<1>2. shake.at \in {"query", "write", "settings"} =>
        /\ ctl.candidate \in Generation
        /\ dev'[ctl.candidate].stage \notin {"boot", "startup"}
        /\ dev[ctl.candidate].stage \notin {"boot", "startup"}
  <2>1. SUFFICES ASSUME shake.at \in {"query", "write", "settings"}
                 PROVE  /\ ctl.candidate \in Generation
                        /\ dev'[ctl.candidate].stage \notin {"boot", "startup"}
                        /\ dev[ctl.candidate].stage \notin {"boot", "startup"}
    OBVIOUS
  <2>2. ctl.candidate # 0
    BY <2>1 DEF Roles, Held
  <2>3. ctl.candidate \in Generation
    BY <1>1, <2>2, Bounds DEF Generation
  <2> QED BY <2>1, <2>3 DEF Asked
<1>3. shake.at \in {"write", "settings"} => LineClean(ctl.candidate)'
  <2>1. SUFFICES ASSUME shake.at \in {"write", "settings"} PROVE LineClean(ctl.candidate)'
    OBVIOUS
  <2>2. \A g \in Generation : LineClean(g) /\ dev[g].stage \notin {"boot", "startup"} => LineClean(g)'
    <3>1. SUFFICES ASSUME NEW g \in Generation, LineClean(g), dev[g].stage \notin {"boot", "startup"}
                   PROVE  LineClean(g)'
      OBVIOUS
    <3>2. CASE reader' = reader
      BY <3>1, <3>2 DEF LineClean
    <3>3. ASSUME NEW h \in Generation, ReaderStep(h) \/ LosesPort(h) PROVE LineClean(g)'
      BY <3>1, <3>3, LineStep
    <3>4. ASSUME NEW h \in Generation, NEW text \in Texts, Reads(h, text),
                 text = "stray" => dev[h].stage \in {"boot", "startup"}
          PROVE  LineClean(g)'
      <4>1. h # g \/ text # "stray"
        BY <3>1, <3>4
      <4> QED BY <3>1, <3>4, <4>1, LineStep
    <3> QED BY <3>2, <3>3, <3>4
  <2>3. LineClean(ctl.candidate)
    BY <2>1 DEF Asked
  <2> QED BY <1>2, <2>1, <2>2, <2>3
<1>4. \A i \in DOMAIN ctl'.queue : \E j \in DOMAIN ctl.queue : ctl'.queue[i] = ctl.queue[j]
  OBVIOUS
<1> QED BY <1>2, <1>3, <1>4, AskedKept

LEMMA WireAsked ==
  ASSUME Types, Roles, Asked,
         \/ PollBegins \/ PollEnds \/ Plugs \/ Unplugs
         \/ \E g \in Generation : Line(g) \/ (GoesMute(g) /\ UNCHANGED monitorVars)
  PROVE  Asked'
<1>1. dev \in [Generation -> DevType]
  BY Elsewhere
<1>2. UNCHANGED <<ctl, shake>>
  BY DEF PollBegins, PollEnds, Plugs, Unplugs, Line, GoesMute, MachineSpeaks, StartupEnds, ReadFails,
         handshakeVars
<1>3. CASE PollBegins \/ PollEnds \/ Plugs \/ Unplugs
  <2>1. TransportStep
    BY <1>3, PollTypes, PlugTypes
  <2>2. reader' = reader
    BY <1>3 DEF PollBegins, PollEnds, Plugs, Unplugs, transportVars
  <2>3. \A g \in Generation : dev'[g].stage \in {"boot", "startup"} => dev[g].stage \in {"boot", "startup"}
    BY <1>1, <1>3 DEF PollBegins, PollEnds, Plugs, Unplugs, handshakeVars, NoDevice
  <2> QED BY <1>2, <2>1, <2>2, <2>3, AskedElsewhere
<1>4. ASSUME NEW g \in Generation, Line(g) \/ (GoesMute(g) /\ UNCHANGED monitorVars)
      PROVE  Asked'
  <2>1. TransportStep
    BY <1>4, ReaderStepTypes, MachineTypes DEF Line
  <2>2. \/ reader' = reader
        \/ ReaderStep(g) \/ LosesPort(g)
        \/ \E text \in Texts : Reads(g, text) /\ (text = "stray" => dev[g].stage \in {"boot", "startup"})
    BY <1>4 DEF Line, GoesMute, MachineSpeaks, Prints, StartupEnds, ReadFails, Texts, transportVars
  <2>3. \A h \in Generation : dev'[h].stage \in {"boot", "startup"} => dev[h].stage \in {"boot", "startup"}
    <3>1. CASE MachineSpeaks(g)
      BY <1>1, <3>1 DEF MachineSpeaks, Prints, DevType
    <3>2. CASE StartupEnds(g) \/ GoesMute(g)
      BY <1>1, <3>2 DEF StartupEnds, GoesMute, DevType
    <3>3. CASE UNCHANGED dev
      BY <3>3
    <3> QED BY <1>4, <3>1, <3>2, <3>3 DEF Line, ReadFails, handshakeVars
  <2> QED BY <1>2, <2>1, <2>2, <2>3, AskedElsewhere
<1> QED BY <1>3, <1>4

LEMMA MonitorAsked ==
  ASSUME Types, Roles, Asked, Monitor \/ RetryDue \/ StopPortMonitoring \/ UserConnect \/ Disconnect
                              \/ Closing \/ BridgeClears
  PROVE  Asked'
<1>1. ctl \in ControlType /\ shake \in ShakeType
  BY Elsewhere
<1>2. TransportStep
  BY ScansTypes, MonitorTypes, StopMonitoringTypes, OperatorTypes, BridgeTypes DEF Monitor, Closing
<1>3. reader' = reader /\ dev' = dev
  BY DEF Monitor, Scans, Considers, TriesConnect, Wakes, RetryDue, StopPortMonitoring, UserConnect, Disconnect,
         Closing, DisconnectStep, DisconnectClears, BridgeClears, CloseTakes, CloseReturns, transportVars,
         handshakeVars
<1>4. CASE UNCHANGED <<ctl, shake>>
  BY <1>2, <1>3, <1>4, AskedElsewhere
<1>5. ASSUME NEW by, NEW m, BeginAttempt(by, m) PROVE Asked'
  <2>1. ctl'.conn = "connecting" /\ ctl'.queue = ctl.queue /\ shake'.at = "open" /\ shake'.got = {}
    BY <1>1, <1>5 DEF BeginAttempt, ControlType, Idle
  <2> QED BY <1>2, <2>1, AskedReset
<1>6. CASE Disconnect \/ DisconnectClears \/ BridgeClears
  <2>1. /\ ctl'.candidate = ctl.candidate /\ ctl'.queue = ctl.queue /\ shake' = shake
        /\ ctl'.conn = "connected" => ctl.conn = "connected" /\ ctl'.settings = ctl.settings
    BY <1>1, <1>6 DEF Disconnect, DisconnectClears, BridgeClears, ControlType
  <2>2. shake.at \in {"write", "settings"} => LineClean(ctl.candidate)'
    BY <1>3, <2>1 DEF Asked, LineClean
  <2>3. \A i \in DOMAIN ctl'.queue : \E j \in DOMAIN ctl.queue : ctl'.queue[i] = ctl.queue[j]
    BY <2>1
  <2>4. shake.at \in {"query", "write", "settings"} => dev'[ctl.candidate].stage \notin {"boot", "startup"}
    BY <1>3 DEF Asked
  <2> QED BY <1>2, <2>1, <2>2, <2>3, <2>4, AskedKept
<1> QED BY <1>4, <1>5, <1>6
        DEF Monitor, Scans, Considers, TriesConnect, Wakes, RetryDue, StopPortMonitoring, UserConnect,
            Closing, DisconnectStep, handshakeVars

LEMMA BridgeReadsAsked ==
  ASSUME Types, Roles, Asked, BridgeReads
  PROVE  Asked'
<1> DEFINE e == Head(events)
<1>1. ctl \in ControlType /\ Len(ctl.queue) <= MaxQueue /\ QueueKinds(ctl)
  BY Elsewhere
<1>2. Taken /\ e \in EventType /\ UNCHANGED <<shake, dev>>
  BY BridgeReadsCases
<1>3. e = events[1] /\ 1 \in DOMAIN events
  <2>1. Len(events) \in Nat \ {0} /\ DOMAIN events = 1..Len(events) /\ e = events[1]
    BY <1>2, TakenTyped, Elsewhere
  <2> QED BY <2>1
<1> DEFINE Outcome ==
             /\ ctl'.candidate = ctl.candidate /\ ctl'.conn = ctl.conn /\ ctl'.settings = ctl.settings
             /\ \A i \in DOMAIN ctl'.queue :
                  ctl'.queue[i] = e \/ \E j \in DOMAIN ctl.queue : ctl'.queue[i] = ctl.queue[j]
<1>4. Outcome
  <2>1. CASE UNCHANGED ctl
    BY <2>1
  <2>2. CASE ctl' = [ctl EXCEPT !.suppress = 0]
    BY <1>1, <2>2 DEF ControlType
  <2>3. ASSUME e.kind \in {"rx", "error", "disconnected"}, NEW early,
               ctl' = [Enqueued(ctl, e) EXCEPT !.early = early]
        PROVE  Outcome
    <3>1. PICK queue \in {ctl.queue, Append(ctl.queue, e)}, err \in BOOLEAN :
            Enqueued(ctl, e) = [ctl EXCEPT !.queue = queue, !.err = err]
      BY <1>1, <1>2, <2>3, EnqueuedType
    <3>2. ctl' = [ctl EXCEPT !.queue = queue, !.err = err, !.early = early]
      BY <1>1, <2>3, <3>1 DEF ControlType
    <3>3. ctl.queue \in Seq(EventType)
      BY <1>1 DEF ControlType
    <3>4. DOMAIN ctl.queue = 1..Len(ctl.queue) /\ Len(ctl.queue) \in Nat
      BY <3>3, LenProperties
    <3>5. LET q == Append(ctl.queue, e) IN
          /\ DOMAIN q = 1..Len(ctl.queue) + 1 /\ q[Len(ctl.queue) + 1] = e
          /\ \A i \in 1..Len(ctl.queue) : q[i] = ctl.queue[i]
      BY <1>2, <3>3, <3>4, AppendProperties, LenProperties
    <3>6. \A i \in DOMAIN queue : queue[i] = e \/ \E j \in DOMAIN ctl.queue : queue[i] = ctl.queue[j]
      BY <3>1, <3>4, <3>5
    <3> QED BY <1>1, <3>2, <3>6 DEF ControlType
  <2>4. \/ UNCHANGED ctl \/ ctl' = [ctl EXCEPT !.suppress = 0]
        \/ /\ e.kind \in {"rx", "error", "disconnected"}
           /\ \E early : ctl' = [Enqueued(ctl, e) EXCEPT !.early = early]
    <3> HIDE DEF Outcome
    <3> QED BY BridgeReadsCases
  <2> HIDE DEF Outcome, e
  <2> QED BY <2>1, <2>2, <2>3, <2>4
<1> HIDE DEF e
<1>5. TransportStep /\ reader' = reader
  BY <1>2 DEF TransportStep, Taken
<1>6. \A i \in DOMAIN events' : Plain(events'[i])
  BY <1>5, PlainStep DEF Asked
<1>7. \A i \in DOMAIN ctl'.queue : Plain(ctl'.queue[i])
  BY <1>3, <1>4 DEF Asked
<1>8. ASSUME shake.at \in {"write", "settings"}
      PROVE  /\ EventsClean(ctl.candidate)' /\ LineClean(ctl.candidate)'
             /\ \A i \in DOMAIN ctl'.queue : Fresh(ctl'.queue[i], ctl.candidate)
  <2>1. ctl.candidate # 0 /\ ctl.candidate \in 0..MaxGen
    BY <1>1, <1>8 DEF Roles, Held, ControlType
  <2>2. ctl.candidate \in Generation
    BY <2>1, Bounds DEF Generation
  <2>3. EventsClean(ctl.candidate) /\ LineClean(ctl.candidate)
        /\ \A i \in DOMAIN ctl.queue : Fresh(ctl.queue[i], ctl.candidate)
    BY <1>8 DEF Asked
  <2>4. \A g \in Generation : EventsClean(g) /\ LineClean(g) => EventsClean(g)' /\ LineClean(g)'
    BY <1>5, CleanStep, LineStep
  <2>5. Fresh(e, ctl.candidate)
    BY <1>3, <2>3 DEF EventsClean
  <2>6. EventsClean(ctl.candidate)' /\ LineClean(ctl.candidate)'
    BY <1>4, <2>2, <2>3, <2>4
  <2>7. \A i \in DOMAIN ctl'.queue : Fresh(ctl'.queue[i], ctl.candidate)
    BY <1>4, <2>3, <2>5
  <2> QED BY <2>6, <2>7
<1> QED BY <1>2, <1>4, <1>6, <1>7, <1>8 DEF Asked

\* The settings of an answer that has no stray line of the machine's in it.
LEMMA AnswerAsked ==
  ASSUME Types, Roles, Asked, TakesAnswer, UNCHANGED monitorVars
  PROVE  Asked'
<1>1. ctl \in ControlType /\ shake \in ShakeType /\ shake.at = "settings"
  BY Elsewhere DEF TakesAnswer
<1>2. /\ ctl' = [ctl EXCEPT !.queue = Tail(ctl.queue)]
      /\ Next1.kind \in {"rx", "error", "disconnected"}
      /\ Next1 = ctl.queue[1] /\ 1 \in DOMAIN ctl.queue
      /\ \A i \in DOMAIN ctl'.queue : i + 1 \in DOMAIN ctl.queue /\ ctl'.queue[i] = ctl.queue[i + 1]
  BY TakesType DEF TakesAnswer, Ready
<1>3. ctl'.candidate = ctl.candidate /\ ctl'.conn = ctl.conn /\ ctl'.settings = ctl.settings
  BY <1>1, <1>2 DEF ControlType
<1>4. UNCHANGED <<events, reader, dev>>
  BY DEF TakesAnswer, transportVars
<1>5. Plain(Next1) /\ Fresh(Next1, ctl.candidate)
  BY <1>1, <1>2 DEF Asked
<1>6. \/ shake' = shake
      \/ shake'.at = "suppress" /\ shake'.got = shake.got
      \/ shake'.at = "settings" /\ shake'.got = shake.got \cup {"setting"}
      \/ shake'.at = "commit" /\ shake'.got = shake.got /\ shake.got # {}
  <2>1. Ours => (~Next1.old => Next1.text # "stray")
    BY <1>5 DEF Fresh, Ours
  <2>2. Next1.kind # "rx" => Next1.text = "other"
    BY <1>5 DEF Plain
  <2>3. \/ UNCHANGED shake \/ Fails
        \/ shake' = [shake EXCEPT !.got = shake.got \cup {"setting"}]
        \/ At("commit") /\ shake.got # {}
    BY <1>2, <2>1, <2>2 DEF TakesAnswer
  <2> QED BY <1>1, <2>3 DEF Fails, At, ShakeType
<1>7. \A i \in DOMAIN ctl'.queue : Plain(ctl'.queue[i]) /\ Fresh(ctl'.queue[i], ctl.candidate)
  BY <1>1, <1>2 DEF Asked
<1>8. EventsClean(ctl.candidate)' /\ LineClean(ctl.candidate)'
  BY <1>1, <1>3, <1>4 DEF Asked, EventsClean, LineClean
<1> QED BY <1>1, <1>3, <1>4, <1>6, <1>7, <1>8 DEF Asked

LEMMA QueryAsked ==
  ASSUME Types, Roles, Asked, QueryStarts, UNCHANGED monitorVars
  PROVE  Asked'
<1>1. ctl \in ControlType /\ shake \in ShakeType /\ TransportType /\ ctl.queue \in Seq(EventType)
  BY Elsewhere
<1>2. MarkedOld /\ TransportStep /\ ctl' = [ctl EXCEPT !.queue = MarkOld(ctl.queue)]
  BY QueryStartsTypes
<1>3. ctl'.candidate = ctl.candidate /\ ctl'.conn = ctl.conn /\ ctl'.settings = ctl.settings
      /\ ctl'.queue = MarkOld(ctl.queue)
  BY <1>1, <1>2 DEF ControlType
<1>4. shake.at = "query" /\ shake'.at = "write" /\ shake'.got = shake.got /\ dev' = dev
  BY <1>1 DEF QueryStarts, At, ShakeType
<1>5. \A i \in DOMAIN events' : Plain(events'[i])
  BY <1>2, PlainStep DEF Asked
<1>6. \A i \in DOMAIN events' : Fresh(events'[i], ctl.candidate)
  BY <1>1, <1>2, MarkedTyped DEF Asked, Plain, Fresh
<1>7. \A i \in DOMAIN ctl'.queue : Plain(ctl'.queue[i]) /\ Fresh(ctl'.queue[i], ctl.candidate)
  <2> DEFINE q == ctl.queue
             r == MarkOld(q)
  <2>1. DOMAIN r = DOMAIN q
        /\ \A i \in DOMAIN q : /\ r[i].kind = q[i].kind /\ r[i].gen = q[i].gen /\ r[i].text = q[i].text
                               /\ r[i].old = (q[i].old \/ q[i].kind = "rx")
    BY <1>1, Marked
  <2>2. \A i \in DOMAIN q : Plain(q[i])
    BY DEF Asked
  <2>3. ctl'.queue = r
    BY <1>3
  <2> HIDE DEF q, r
  <2>4. \A i \in DOMAIN r : Plain(r[i]) /\ Fresh(r[i], ctl.candidate)
    BY <2>1, <2>2 DEF Plain, Fresh
  <2> QED BY <2>3, <2>4
<1>8. ctl.candidate \in Generation
  BY <1>1, <1>4, Bounds DEF Roles, Held, ControlType, Generation
<1>9. LineClean(ctl.candidate)'
  BY <1>1, <1>2, <1>3, <1>8, MarkedTyped DEF LineClean
<1> QED BY <1>3, <1>4, <1>5, <1>6, <1>7, <1>9 DEF Asked, EventsClean

LEMMA AttemptAsked ==
  ASSUME Types, Roles, Asked, Attempt
  PROVE  Asked'
<1>1. ctl \in ControlType /\ shake \in ShakeType /\ dev \in [Generation -> DevType]
  BY Elsewhere
<1> DEFINE sameQueue == \A i \in DOMAIN ctl'.queue : \E j \in DOMAIN ctl.queue : ctl'.queue[i] = ctl.queue[j]
<1>2. CASE (Opens \/ OpenFails \/ WriteFails \/ SeesError \/ TimesOut \/ ClosesCandidate)
           /\ UNCHANGED monitorVars
  <2>1. TransportStep
    BY <1>2, OpensTypes, OpenFailsTypes, WaitsTypes, FailureTypes
  <2>2. UNCHANGED ctl
    BY <1>2 DEF Opens, OpenFails, WriteFails, SeesError, TimesOut, ClosesCandidate
  <2>3. shake'.at \in {"opening", "end", "suppress", "closing"} /\ shake'.got = shake.got
    BY <1>1, <1>2 DEF Opens, OpenFails, WriteFails, SeesError, TimesOut, ClosesCandidate, Fails, At, ShakeType
  <2> QED BY <2>1, <2>2, <2>3, AskedReset
<1>3. CASE Opened /\ UNCHANGED monitorVars
  <2>1. TransportStep
    BY <1>3, OpenedTypes
  <2>2. UNCHANGED ctl /\ shake'.at = "opened" /\ shake'.got = shake.got
    BY <1>1, <1>3 DEF Opened, ShakeType
  <2> QED BY <2>1, <2>2, AskedReset
<1>4. CASE NoteOpened /\ UNCHANGED monitorVars
  <2>1. TransportStep
    BY <1>4, NoteOpenedTypes
  <2>2. ctl'.conn = ctl.conn /\ ctl'.settings = ctl.settings /\ ctl'.queue = ctl.queue
    BY <1>1, <1>4 DEF NoteOpened, ControlType
  <2>3. shake'.at \in {"suppress", "banner"} /\ shake'.got = shake.got
    BY <1>1, <1>4 DEF NoteOpened, Fails, At, ShakeType
  <2> QED BY <2>1, <2>2, <2>3, AskedReset
<1>5. CASE (TakesBanner \/ TakesStartup) /\ UNCHANGED monitorVars
  <2>1. TransportStep
    BY <1>5, TakesEventTypes
  <2>2. /\ ctl' = [ctl EXCEPT !.queue = Tail(ctl.queue)] /\ Next1.kind \in {"rx", "error", "disconnected"}
        /\ \A i \in DOMAIN ctl'.queue : i + 1 \in DOMAIN ctl.queue /\ ctl'.queue[i] = ctl.queue[i + 1]
    BY <1>5, TakesType DEF TakesBanner, TakesStartup, Ready
  <2>3. ctl'.conn = ctl.conn /\ ctl'.settings = ctl.settings /\ sameQueue
    BY <1>1, <2>2 DEF ControlType
  <2>4. shake'.at \in {"suppress", "quiet", "banner"} /\ shake'.got = shake.got
    BY <1>1, <1>5, <2>2 DEF TakesBanner, TakesStartup, Fails, At, ShakeType
  <2> QED BY <2>1, <2>3, <2>4, AskedReset
<1>6. CASE Quiet /\ UNCHANGED monitorVars
  <2>1. UNCHANGED <<transportVars, ctl, dev>> /\ shake.at = "quiet" /\ shake'.at = "query"
        /\ shake'.got = shake.got /\ dev[ctl.candidate].stage \notin {"boot", "startup"}
    BY <1>1, <1>6 DEF Quiet, At, ShakeType
  <2> QED BY <2>1 DEF Asked, transportVars
<1>7. CASE QueryStarts /\ UNCHANGED monitorVars
  BY <1>7, QueryAsked
<1>8. CASE WritesQuery /\ UNCHANGED monitorVars
  <2>1. TransportStep
    BY <1>8, WritesQueryTypes
  <2>2. shake.at = "write" /\ shake'.at = "settings" /\ shake'.got = shake.got /\ UNCHANGED <<ctl, reader>>
    BY <1>1, <1>8 DEF WritesQuery, At, ShakeType
  <2>3. ctl.candidate \in Generation
    BY <1>1, <2>2, Bounds DEF Roles, Held, ControlType, Generation
  <2>4. dev'[ctl.candidate].stage \notin {"boot", "startup"}
    <3>1. dev[ctl.candidate].stage \notin {"boot", "startup"} /\ dev[ctl.candidate] \in DevType
      BY <1>1, <2>2, <2>3 DEF Asked
    <3> DEFINE stage == IF dev[port].stage = "mute" THEN dev[port].stage ELSE "asked"
    <3>2. dev' = [dev EXCEPT ![port].stage = stage] /\ stage \in {"mute", "asked"}
      BY <1>8 DEF WritesQuery
    <3> HIDE DEF stage
    <3> QED BY <1>1, <2>3, <3>1, <3>2 DEF DevType
  <2>5. \A i \in DOMAIN events' : Plain(events'[i])
    BY <2>1, PlainStep DEF Asked
  <2>6. EventsClean(ctl.candidate) /\ LineClean(ctl.candidate)
    BY <2>2 DEF Asked
  <2>7. EventsClean(ctl.candidate)' /\ LineClean(ctl.candidate)'
    <3>1. \A g \in Generation : EventsClean(g) /\ LineClean(g) => EventsClean(g)' /\ LineClean(g)'
      BY <2>1, <2>2, CleanStep, LineStep
    <3> QED BY <2>2, <2>3, <2>6, <3>1
  <2> QED BY <2>2, <2>4, <2>5, <2>7 DEF Asked
<1>9. CASE TakesAnswer /\ UNCHANGED monitorVars
  BY <1>9, AnswerAsked
<1>10. CASE Suppresses /\ UNCHANGED monitorVars
  <2>1. TransportStep
    BY <1>10, FailureTypes
  <2>2. ctl'.conn = ctl.conn /\ ctl'.settings = ctl.settings /\ ctl'.queue = ctl.queue
    BY <1>1, <1>10 DEF Suppresses, ControlType
  <2>3. shake'.at = "close" /\ shake'.got = shake.got
    BY <1>1, <1>10 DEF Suppresses, At, ShakeType
  <2> QED BY <2>1, <2>2, <2>3, AskedReset
<1>11. CASE SeesCancel
  <2>1. TransportStep
    BY <1>11, SeesCancelTypes
  <2>2. UNCHANGED ctl /\ shake'.at = "suppress" /\ shake'.got = shake.got
    BY <1>1, <1>11 DEF SeesCancel, Fails, At, ShakeType
  <2> QED BY <2>1, <2>2, AskedReset
<1>12. CASE Commits
  <2>1. TransportStep
    BY <1>12, CommitsTypes
  <2>2. CASE ctl.err
    <3>1. UNCHANGED ctl /\ shake'.at = "suppress" /\ shake'.got = shake.got
      BY <1>1, <1>12, <2>2 DEF Commits, Fails, At, ShakeType
    <3> QED BY <2>1, <3>1, AskedReset
  <2>3. CASE ~ctl.err
    <3>1. ctl'.settings = shake.got /\ ctl'.queue = <<>> /\ shake.at = "commit"
      BY <1>1, <1>12, <2>3 DEF Commits, Finished, ControlType
    <3>2. shake'.at = "idle" /\ shake'.got = {}
      BY <1>12, <2>3 DEF Commits, Idle
    <3>3. \A i \in DOMAIN events' : Plain(events'[i])
      BY <2>1, PlainStep DEF Asked
    <3> QED BY <3>1, <3>2, <3>3 DEF Asked
  <2> QED BY <2>2, <2>3
<1>13. CASE Abandons
  <2>1. TransportStep
    BY <1>13, AbandonsTypes
  <2>2. /\ ctl'.settings = ctl.settings /\ ctl'.queue = <<>>
        /\ ctl'.conn = "connected" => ctl.conn = "connected"
    BY <1>1, <1>13 DEF Abandons, Finished, ControlType
  <2>3. shake'.at = "idle" /\ shake'.got = {}
    BY <1>13 DEF Abandons, Idle
  <2>4. sameQueue
    BY <2>2
  <2> QED BY <2>1, <2>2, <2>3, <2>4, AskedReset
<1> QED BY <1>2, <1>3, <1>4, <1>5, <1>6, <1>7, <1>8, <1>9, <1>10, <1>11, <1>12, <1>13 DEF Attempt

LEMMA StepAsked ==
  ASSUME Types, Roles, Asked, [Next]_vars
  PROVE  Asked'
<1>1. CASE UNCHANGED vars
  <2>1. TransportStep
    BY StepTypes
  <2> QED BY <1>1, <2>1, AskedElsewhere DEF vars, transportVars, handshakeVars
<1>2. CASE Attempt \/ Monitor \/ RetryDue \/ Bridge \/ Closing \/ StopPortMonitoring \/ UserConnect
           \/ Disconnect
  BY <1>2, AttemptAsked, MonitorAsked, BridgeReadsAsked DEF Bridge
<1>3. CASE \/ PollBegins \/ PollEnds \/ Plugs \/ Unplugs \/ (\E g \in Generation : Line(g))
           \/ ((\E g \in Generation : GoesMute(g)) /\ UNCHANGED monitorVars)
  BY <1>3, WireAsked
<1>4. Next \/ UNCHANGED vars
  OBVIOUS
<1> QED BY <1>1, <1>2, <1>3, <1>4 DEF Next

-----------------------------------------------------------------------------
(* The theorems. *)

LEMMA InitHolds == Init => IInv
<1> SUFFICES ASSUME Init PROVE IInv
  OBVIOUS
<1>1. /\ port = 0 /\ opening = 0 /\ closing = 0 /\ events = <<>> /\ ctl = InitControl /\ shake = Idle
      /\ \A g \in Generation : reader[g] = Off
      /\ user.at = "idle"
  BY DEF Init, HandshakeInit, TransportInit
<1>2. Ends
  BY <1>1, Bounds DEF Ends, Ended, Ending, Off, Generation
<1>3. Roles
  BY <1>1 DEF Roles, Held, Unaware, InitControl, Idle
<1>4. Asked
  BY <1>1 DEF Asked, InitControl, Idle
<1> QED BY <1>2, <1>3, <1>4, InitTypes DEF IInv

LEMMA StepHolds == IInv /\ [Next]_vars => IInv'
BY StepTypes, EndsStep, StepRoles, StepAsked DEF IInv

LEMMA Invariant == Spec => []IInv
BY InitHolds, StepHolds, PTL DEF Spec

\* The transport, the connection state, the attempt and the policy of the monitor
\* keep the types the code declares, whatever the bounds.
THEOREM TypeCorrect == Spec => []TypeOK
<1>1. IInv => TypeOK
  BY TypesSuffice DEF IInv
<1> QED BY <1>1, Invariant, PTL

\* Transport: the read loop and Close race for the end of a port, yet one
\* "disconnected" event at most is sent for a generation, and no line or error of
\* the generation comes after it.
THEOREM EndReportedOnce == Spec => []EndsOnce
<1>1. IInv => EndsOnce
  BY EndsSuffice DEF IInv
<1> QED BY <1>1, Invariant, PTL

\* connect opens a port, learns its generation and commits it, and Disconnect
\* suppresses the event of the one it closes.  The end of the port is never
\* swallowed in between: an attempt that validates it has an error or is about to
\* get one, also when the bridge handled the end before the attempt knew its
\* generation, and the end of a committed port is on its way to the bridge or is
\* being handled, whatever other generation is diverted or suppressed.
THEOREM NoLossSwallowed == Spec => []LossNoticed
<1>1. IInv => LossNoticed
  BY RolesSuffice DEF IInv
<1> QED BY <1>1, Invariant, PTL

\* validateGRBLConnection: the settings an attempt commits are those its own query
\* was answered with, never a line of the startup output that arrived late.
THEOREM OwnSettings == Spec => []SettingsAnswer
<1>1. IInv => SettingsAnswer
  BY DEF IInv, Asked, SettingsAnswer
<1> QED BY <1>1, Invariant, PTL
=============================================================================
