---------------------------- MODULE SerialTransport ----------------------------
(***************************************************************************)
(* internal/transport: SerialTransport.  Open and Close exchange the port  *)
(* under the transport's mutex; one readLoop per generation puts lines and *)
(* the end of the connection into a bounded event channel that everybody   *)
(* who sends to it may block on.                                           *)
(*                                                                         *)
(* A generation number is used again once no trace of it is left, which    *)
(* stands for nextGeneration's counting up: only equality is ever tested.  *)
(***************************************************************************)
EXTENDS Naturals, Sequences, FiniteSets

CONSTANTS MaxGen,    \* generations there may be traces of at a time
          MaxEvents  \* capacity of the event channel (256 in the code)

ASSUME TransportAssumption == MaxGen \in Nat \ {0} /\ MaxEvents \in Nat \ {0}

VARIABLES
  port,    \* the generation whose handle is installed, 0 when t.port = nil
  opening, \* the generation whose Open still holds the mutex
  closing, \* the generation whose handle Close took
  reader,  \* readLoop of every generation
  events   \* the event channel

transportVars == <<port, opening, closing, reader, events>>

Generation == 1..MaxGen
Texts == {"banner", "setting", "stray", "ok", "other"}
\* old: an RX event read before the present attempt's settings query began
Event(kind, g, text) == [kind |-> kind, gen |-> g, text |-> text, old |-> FALSE]
EventType == [kind : {"connected", "tx", "rx", "error", "disconnected"},
              gen : Generation, text : Texts, old : BOOLEAN]
ReaderType == [at : {"off", "reading", "line", "error", "end"}, text : Texts, old : BOOLEAN]
Off == [at |-> "off", text |-> "other", old |-> FALSE]

TransportInit ==
  /\ port = 0 /\ opening = 0 /\ closing = 0 /\ events = <<>>
  /\ reader = [g \in Generation |-> Off]

TransportType ==
  /\ {port, opening, closing} \subseteq 0..MaxGen
  /\ reader \in [Generation -> ReaderType]
  /\ events \in Seq(EventType) /\ Len(events) <= MaxEvents

Room == Len(events) < MaxEvents
Sends(event) == Room /\ events' = Append(events, event)
Reader(g, at) == reader' = [reader EXCEPT ![g] = [Off EXCEPT !.at = at]]
Traces == {port, opening, closing} \cup {g \in Generation : reader[g] # Off}
          \cup {events[i].gen : i \in DOMAIN events}

\* Open up to the sending of EventConnected, which it does with the mutex held
\* and the readLoop running.
OpenPort(g) ==
  /\ opening = 0 /\ port = 0 /\ g \notin Traces
  /\ port' = g /\ opening' = g /\ Reader(g, "reading")
  /\ UNCHANGED <<closing, events>>

OpenReturns ==
  /\ opening # 0 /\ opening' = 0
  /\ Sends(Event("connected", opening, "other"))
  /\ UNCHANGED <<port, closing, reader>>

\* Close: take the handle; close it and wait for the readLoop; send the event.
CloseTakes ==
  /\ opening = 0 /\ port # 0
  /\ port' = 0 /\ closing' = port
  /\ UNCHANGED <<opening, reader, events>>

CloseReturns ==
  /\ closing # 0 /\ reader[closing] = Off /\ closing' = 0
  /\ Sends(Event("disconnected", closing, "other"))
  /\ UNCHANGED <<port, opening, reader>>

\* readLoop: a line comes in; it is sent when there is room.
Reads(g, text) ==
  /\ reader[g].at = "reading"
  /\ reader' = [reader EXCEPT ![g] = [at |-> "line", text |-> text, old |-> FALSE]]
  /\ UNCHANGED <<port, opening, closing, events>>

SendsLine(g) ==
  /\ reader[g].at = "line" /\ Reader(g, "reading")
  /\ Sends([Event("rx", g, reader[g].text) EXCEPT !.old = reader[g].old])
  /\ UNCHANGED <<port, opening, closing>>

SeesClosed(g) ==
  /\ reader[g].at = "reading" /\ closing = g /\ Reader(g, "off")
  /\ UNCHANGED <<port, opening, closing, events>>

\* Mutant: the end of a connection is reported whoever brought it about.
LosesPortAlways(g) ==
  /\ opening = 0 /\ reader[g].at = "reading"
  /\ port' = 0 /\ (Reader(g, "error") \/ Reader(g, "end"))
  /\ UNCHANGED <<opening, closing, events>>

\* markUnexpectedDisconnected: the handle is taken, unless Close took it first.
LosesPort(g) ==
  /\ opening = 0 /\ reader[g].at = "reading"
  /\ IF port = g THEN port' = 0 /\ (Reader(g, "error") \/ Reader(g, "end"))
     ELSE port' = port /\ Reader(g, "off")
  /\ UNCHANGED <<opening, closing, events>>

SendsEnd(g) ==
  /\ \/ reader[g].at = "error" /\ Sends(Event("error", g, "other")) /\ Reader(g, "end")
     \/ reader[g].at = "end" /\ Sends(Event("disconnected", g, "other")) /\ Reader(g, "off")
  /\ UNCHANGED <<port, opening, closing>>

ReaderStep(g) == SendsLine(g) \/ SeesClosed(g) \/ SendsEnd(g)
=============================================================================
