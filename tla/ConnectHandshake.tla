--------------------------- MODULE ConnectHandshake ---------------------------
(***************************************************************************)
(* connect, from its admission to the commit of a generation or to         *)
(* failConnectAttempt, with the handshake in between: banner, startup      *)
(* quiet, $$.  While an attempt is under way the event bridge diverts what *)
(* the transport says to the attempt's bounded queue.                      *)
(*                                                                         *)
(* Controller.mu guards ctl; every action is one of its sections, one send *)
(* or receive on a channel, or one call of the transport.                  *)
(***************************************************************************)
EXTENDS SerialTransport

CONSTANTS Machines,  \* machines, each with a port of its own
          MaxQueue,  \* connectAttemptEventCapacity (256 in the code)
          MaxStray,  \* lines a machine prints after its banner, unasked
          Upsets,    \* what may go wrong: open, write, mute, slow, unplug
          MaxUpsets

ASSUME HandshakeAssumption ==
  /\ MaxQueue \in Nat \ {0} /\ MaxStray \in Nat /\ MaxUpsets \in Nat
  /\ Upsets \subseteq {"open", "write", "mute", "slow", "unplug"}

VARIABLES
  ctl,     \* the connection's fields of Controller
  shake,   \* the goroutine that is inside connect, and its locals
  dev,     \* the machine at the other end of every generation
  plugged, \* machines attached
  upsets   \* upsets so far

handshakeVars == <<ctl, shake, dev, plugged, upsets>>

Nobody == "nobody"
Idle == [at |-> "idle", by |-> Nobody, machine |-> Nobody, gen |-> 0, got |-> {}]
InitControl ==
  [conn |-> "disconnected", transition |-> "stable", candidate |-> 0, err |-> FALSE,
   early |-> {}, queue |-> <<>>, gen |-> 0, suppress |-> 0, settings |-> {},
   name |-> Nobody]
NoDevice == [stage |-> "off", left |-> 0]

HandshakeInit ==
  /\ TransportInit /\ ctl = InitControl /\ shake = Idle /\ upsets = 0
  /\ dev = [g \in Generation |-> NoDevice]

HandshakeType ==
  /\ TransportType
  /\ ctl.conn \in {"disconnected", "connecting", "connected"}
  /\ ctl.transition \in {"stable", "connecting", "disconnecting"}
  /\ {ctl.candidate, ctl.gen, ctl.suppress} \subseteq 0..MaxGen /\ ctl.early \subseteq Generation
  /\ ctl.queue \in Seq(EventType) /\ Len(ctl.queue) <= MaxQueue
  /\ ctl.err \in BOOLEAN /\ ctl.settings \subseteq {"setting", "stray"}
  /\ dev \in [Generation -> [stage : {"off", "boot", "startup", "still", "asked", "answered", "mute"},
                             left : 0..MaxStray]]
  /\ plugged \subseteq Machines /\ upsets \in 0..MaxUpsets

Upset(kind) == kind \in Upsets /\ upsets < MaxUpsets /\ upsets' = upsets + 1
At(at) == shake' = [shake EXCEPT !.at = at]
Fails == At("suppress")

-----------------------------------------------------------------------------
(* Sections of an attempt. *)

\* admissionErrorLocked(admissionConnect), beginConnectAttemptLocked
BeginAttempt(by, machine) ==
  /\ ctl.transition = "stable" /\ ctl.conn # "connected"
  /\ ctl' = [ctl EXCEPT !.transition = "connecting", !.conn = "connecting"]
  /\ shake' = [Idle EXCEPT !.at = "open", !.by = by, !.machine = machine]

\* finishConnectAttemptLocked
Finished(c) ==
  [c EXCEPT !.transition = "stable", !.candidate = 0, !.err = FALSE, !.early = {}, !.queue = <<>>]

Unused == Generation \ (Traces \cup {ctl.gen, ctl.suppress} \cup ctl.early)

Opens ==
  /\ shake.at = "open" /\ shake.machine \in plugged /\ Unused # {}
  /\ LET g == CHOOSE g \in Unused : \A h \in Unused : g <= h IN
     /\ OpenPort(g)
     /\ dev' = [dev EXCEPT ![g] = [stage |-> "boot", left |-> MaxStray]]
  /\ At("opening")
  /\ UNCHANGED <<ctl, plugged, upsets>>

OpenFails ==
  /\ shake.at = "open"
  /\ IF shake.machine \in plugged THEN Upset("open") ELSE UNCHANGED upsets
  /\ At("end")
  /\ UNCHANGED <<transportVars, ctl, dev, plugged>>

\* Open returns; only the attempt's goroutine knows the generation.
Opened ==
  /\ shake.at = "opening" /\ OpenReturns
  /\ shake' = [shake EXCEPT !.at = "opened", !.gen = opening]
  /\ UNCHANGED <<ctl, dev, plugged, upsets>>

\* Mutant: a disconnect the bridge came across before is forgotten.
NoteOpenedForgets ==
  /\ shake.at = "opened"
  /\ ctl' = [ctl EXCEPT !.candidate = shake.gen, !.early = @ \ {shake.gen}]
  /\ IF ctl'.err THEN Fails ELSE At("banner")
  /\ UNCHANGED <<transportVars, dev, plugged, upsets>>

\* The controller learns it, and whether its end has been reported meanwhile.
NoteOpened ==
  /\ shake.at = "opened"
  /\ ctl' = [ctl EXCEPT !.candidate = shake.gen, !.err = @ \/ shake.gen \in ctl.early,
                        !.early = @ \ {shake.gen}]
  /\ IF ctl'.err THEN Fails ELSE At("banner")
  /\ UNCHANGED <<transportVars, dev, plugged, upsets>>

-----------------------------------------------------------------------------
(* The handshake.  Each wait looks at the attempt's error, then takes an   *)
(* event, or times out.                                                    *)
Waits == {"banner", "quiet", "settings"}
Ready == shake.at \in Waits /\ ~ctl.err /\ ctl.queue # <<>>
Next1 == Head(ctl.queue)
Takes == ctl' = [ctl EXCEPT !.queue = Tail(@)]
Ours == Next1.gen = ctl.candidate

TakesBanner ==
  /\ Ready /\ shake.at = "banner" /\ Takes
  /\ CASE ~Ours -> UNCHANGED shake
       [] Ours /\ Next1.kind \in {"error", "disconnected"} -> Fails
       [] Ours /\ Next1.kind = "rx" -> IF Next1.text = "banner" THEN At("quiet") ELSE UNCHANGED shake
  /\ UNCHANGED <<transportVars, dev, plugged, upsets>>

\* A line starts the quiet period again.
TakesStartup ==
  /\ Ready /\ shake.at = "quiet" /\ Takes
  /\ IF Ours /\ Next1.kind # "rx" THEN Fails ELSE UNCHANGED shake
  /\ UNCHANGED <<transportVars, dev, plugged, upsets>>

\* The quiet period: longer than a pause in a machine's startup output.  Its end
\* drains the queue; what the bridge has not reached yet is still to come.
Quiet ==
  /\ shake.at = "quiet" /\ ~ctl.err /\ ctl.queue = <<>>
  /\ dev[ctl.candidate].stage \notin {"boot", "startup"}
  /\ At("query")
  /\ UNCHANGED <<transportVars, ctl, dev, plugged, upsets>>

\* queryStarted: every line read so far is older.
MarkOld(s) == [i \in DOMAIN s |-> [s[i] EXCEPT !.old = @ \/ s[i].kind = "rx"]]

QueryStarts ==
  /\ shake.at = "query" /\ At("write")
  /\ events' = MarkOld(events)
  /\ reader' = [g \in Generation |-> [reader[g] EXCEPT !.old = reader[g].at = "line"]]
  /\ ctl' = [ctl EXCEPT !.queue = MarkOld(@)]
  /\ UNCHANGED <<port, opening, closing, dev, plugged, upsets>>

WritesQuery ==
  /\ shake.at = "write" /\ port # 0
  /\ Sends(Event("tx", port, "other")) /\ At("settings")
  /\ dev' = [dev EXCEPT ![port].stage = IF @ = "mute" THEN @ ELSE "asked"]
  /\ UNCHANGED <<port, opening, closing, reader, ctl, plugged, upsets>>

WriteFails ==
  /\ shake.at = "write" /\ Fails
  /\ IF port = 0 THEN UNCHANGED upsets ELSE Upset("write")
  /\ UNCHANGED <<transportVars, ctl, dev, plugged>>

\* Mutant: every settings line counts, whenever it was read.
TakesAnyAnswer ==
  /\ Ready /\ shake.at = "settings" /\ Takes
  /\ CASE ~Ours -> UNCHANGED shake
       [] Ours /\ Next1.kind \in {"error", "disconnected"} -> Fails
       [] Ours /\ Next1.text \in {"setting", "stray"} ->
            shake' = [shake EXCEPT !.got = @ \cup {Next1.text}]
       [] Ours /\ Next1.text = "ok" -> IF shake.got = {} THEN Fails ELSE At("commit")
       [] OTHER -> UNCHANGED shake
  /\ UNCHANGED <<transportVars, dev, plugged, upsets>>

TakesAnswer ==
  /\ Ready /\ shake.at = "settings" /\ Takes
  /\ CASE ~Ours \/ (Next1.kind = "rx" /\ Next1.old) -> UNCHANGED shake
       [] Ours /\ Next1.kind \in {"error", "disconnected"} -> Fails
       [] Ours /\ ~Next1.old /\ Next1.text \in {"setting", "stray"} ->
            shake' = [shake EXCEPT !.got = @ \cup {Next1.text}]
       [] Ours /\ ~Next1.old /\ Next1.text = "ok" ->
            IF shake.got = {} THEN Fails ELSE At("commit")
       [] OTHER -> UNCHANGED shake
  /\ UNCHANGED <<transportVars, dev, plugged, upsets>>

\* currentConnectAttemptError
SeesError ==
  /\ shake.at \in Waits /\ ctl.err /\ Fails
  /\ UNCHANGED <<transportVars, ctl, dev, plugged, upsets>>

\* A timer fires: the machine is lost or does not answer, or it is slow.
TimesOut ==
  /\ shake.at \in Waits /\ Fails
  /\ IF dev[ctl.candidate].stage \in {"mute", "off"} THEN UNCHANGED upsets ELSE Upset("slow")
  /\ UNCHANGED <<transportVars, ctl, dev, plugged>>

-----------------------------------------------------------------------------
(* failConnectAttempt *)
Suppresses ==
  /\ shake.at = "suppress" /\ ctl' = [ctl EXCEPT !.suppress = ctl.candidate] /\ At("close")
  /\ UNCHANGED <<transportVars, dev, plugged, upsets>>

ClosesCandidate ==
  /\ \/ shake.at = "close" /\ (IF port = 0 THEN At("end") /\ UNCHANGED transportVars
                               ELSE CloseTakes /\ At("closing"))
     \/ shake.at = "closing" /\ CloseReturns /\ At("end")
  /\ UNCHANGED <<ctl, dev, plugged, upsets>>

-----------------------------------------------------------------------------
(* The machine and the wire. *)
Prints(g, text, stage) ==
  /\ Reads(g, text)
  /\ dev' = [dev EXCEPT ![g].stage = stage]

MachineSpeaks(g) ==
  /\ \/ dev[g].stage = "boot" /\ Prints(g, "banner", "startup")
     \/ /\ dev[g].stage = "startup" /\ dev[g].left > 0
        /\ \E text \in {"stray", "ok"} : Reads(g, text)
        /\ dev' = [dev EXCEPT ![g].left = @ - 1]
     \/ dev[g].stage = "asked" /\ Prints(g, "setting", "answered")
     \/ dev[g].stage = "answered" /\ Prints(g, "ok", "still")
  /\ UNCHANGED <<ctl, shake, plugged, upsets>>

StartupEnds(g) ==
  /\ dev[g].stage = "startup" /\ dev' = [dev EXCEPT ![g].stage = "still"]
  /\ UNCHANGED <<transportVars, ctl, shake, plugged, upsets>>

GoesMute(g) ==
  /\ dev[g].stage \notin {"off", "mute"} /\ port = g /\ Upset("mute")
  /\ dev' = [dev EXCEPT ![g].stage = "mute"]
  /\ UNCHANGED <<transportVars, ctl, shake, plugged>>

\* The readLoop of a handle whose machine is gone.
ReadFails(g) ==
  /\ dev[g].stage = "off" /\ LosesPort(g)
  /\ UNCHANGED handshakeVars
=============================================================================
