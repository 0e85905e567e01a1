------------------------------ MODULE PortMonitor ------------------------------
(***************************************************************************)
(* The port monitor that connects to a lone machine, the operator's        *)
(* Connect and Disconnect, the event bridge and the status poller, on the  *)
(* handshake and the serial transport.                                     *)
(***************************************************************************)
EXTENDS ConnectHandshake

CONSTANT MaxRequests  \* what the operator asks: connects and disconnects

ASSUME MonitorAssumption == MaxRequests \in Nat

VARIABLES
  mon,    \* the monitor goroutine: where it is, its decision, its cancellation
  policy, \* portMonitorState: lastPorts, the suppressed and the retried machine
  user,   \* the operator's Disconnect, and requests so far
  bridge, \* the generation whose disconnect the bridge is handling
  poller  \* the status polling goroutine

monitorVars == <<mon, policy, user, bridge, poller>>
vars == <<transportVars, handshakeVars, monitorVars>>

NoPoller == [gen |-> 0, at |-> "idle", stop |-> FALSE]

Init ==
  /\ HandshakeInit
  /\ plugged \in SUBSET Machines
  /\ mon = [at |-> "scan", machine |-> Nobody, cancel |-> FALSE]
  /\ policy = [seen |-> {}, suppressed |-> Nobody, retry |-> Nobody, due |-> TRUE]
  /\ user = [at |-> "idle", machine |-> Nobody, asked |-> 0]
  /\ bridge = 0 /\ poller = NoPoller

\* selectMachinePort: the machine of a list that has exactly one.
Sole(list) == IF \E m \in list : list = {m} THEN CHOOSE m \in list : TRUE ELSE Nobody
MonitorAt(at) == mon' = [mon EXCEPT !.at = at]

-----------------------------------------------------------------------------
(* The monitor. *)

\* scanPorts
Scans ==
  /\ mon.at = "scan"
  /\ policy' = [policy EXCEPT
       !.seen = plugged,
       !.retry = IF Sole(policy.seen) \notin {Nobody, Sole(plugged)} THEN Nobody ELSE @,
       !.due = IF Sole(policy.seen) \notin {Nobody, Sole(plugged)} THEN TRUE ELSE @,
       !.suppressed = IF @ \in plugged THEN @ ELSE Nobody]
  /\ mon' = [mon EXCEPT !.at = IF mon.cancel \/ Sole(plugged) = Nobody THEN "wait" ELSE "consider",
                        !.machine = Sole(plugged)]
  /\ UNCHANGED <<transportVars, handshakeVars, user, bridge, poller>>

\* Mutant: a machine that failed once is not tried again.
BlockedForever(m) ==
  \/ ctl.conn # "disconnected" \/ policy.suppressed = m \/ policy.retry = m

\* considerAutoConnect's check
Blocked(m) ==
  \/ ctl.conn # "disconnected" \/ policy.suppressed = m
  \/ policy.retry = m /\ ~policy.due

Considers ==
  /\ mon.at = "consider"
  /\ MonitorAt(IF Blocked(mon.machine) THEN "wait" ELSE "try")
  /\ UNCHANGED <<transportVars, handshakeVars, policy, user, bridge, poller>>

\* connect's admission, some time after; an attempt or a connection of the
\* operator's in the meantime refuses it.
TriesConnect ==
  /\ mon.at = "try"
  /\ \/ BeginAttempt("monitor", mon.machine) /\ MonitorAt("connect")
     \/ /\ ctl.transition # "stable" \/ ctl.conn = "connected"
        /\ MonitorAt("wait") /\ UNCHANGED <<ctl, shake>>
  /\ UNCHANGED <<transportVars, dev, plugged, upsets, policy, user, bridge, poller>>

Wakes ==
  /\ mon.at = "wait" /\ MonitorAt(IF mon.cancel THEN "off" ELSE "scan")
  /\ UNCHANGED <<transportVars, handshakeVars, policy, user, bridge, poller>>

RetryDue ==
  /\ ~policy.due /\ policy' = [policy EXCEPT !.due = TRUE]
  /\ UNCHANGED <<transportVars, handshakeVars, mon, user, bridge, poller>>

\* StopPortMonitoring cancels the context; the handshake waits on it, too.
StopPortMonitoring ==
  /\ ~mon.cancel /\ user.asked < MaxRequests
  /\ mon' = [mon EXCEPT !.cancel = TRUE] /\ user' = [user EXCEPT !.asked = @ + 1]
  /\ UNCHANGED <<transportVars, handshakeVars, policy, bridge, poller>>

SeesCancel ==
  /\ mon.cancel /\ shake.by = "monitor" /\ shake.at \in Waits /\ Fails
  /\ UNCHANGED <<transportVars, ctl, dev, plugged, upsets, monitorVars>>

-----------------------------------------------------------------------------
(* The ends of an attempt. *)

\* applySuccessfulConnectionPolicyLocked
ConnectedPolicy ==
  IF shake.by = "monitor" THEN [policy EXCEPT !.retry = Nobody, !.due = TRUE]
  ELSE IF shake.machine \notin policy.seen THEN policy
  ELSE [policy EXCEPT !.suppressed = IF @ = shake.machine THEN Nobody ELSE @,
                      !.retry = IF @ = shake.machine THEN Nobody ELSE @,
                      !.due = IF policy.retry = shake.machine THEN TRUE ELSE @]

\* Mutant: the commit does not look at what happened since the settings came.
CommitsBlindly ==
  /\ shake.at = "commit"
  /\ ctl' = [Finished(ctl) EXCEPT !.conn = "connected", !.gen = ctl.candidate,
                                  !.settings = shake.got, !.name = shake.machine]
  /\ policy' = ConnectedPolicy /\ shake' = Idle
  /\ poller' = [NoPoller EXCEPT !.gen = ctl.candidate]
  /\ mon' = [mon EXCEPT !.at = IF shake.by = "monitor" THEN "wait" ELSE @]
  /\ UNCHANGED <<transportVars, dev, plugged, upsets, user, bridge>>

Commits ==
  /\ shake.at = "commit"
  /\ IF ctl.err THEN Fails /\ UNCHANGED <<ctl, policy, poller, mon>>
     ELSE /\ ctl' = [Finished(ctl) EXCEPT !.conn = "connected", !.gen = ctl.candidate,
                                          !.settings = shake.got, !.name = shake.machine]
          /\ policy' = ConnectedPolicy /\ shake' = Idle
          /\ poller' = [NoPoller EXCEPT !.gen = ctl.candidate]
          /\ mon' = [mon EXCEPT !.at = IF shake.by = "monitor" THEN "wait" ELSE @]
  /\ UNCHANGED <<transportVars, dev, plugged, upsets, user, bridge>>

\* The end of failConnectAttempt, and considerAutoConnect after an error.
Abandons ==
  /\ shake.at = "end" /\ shake' = Idle
  /\ ctl' = [Finished(ctl) EXCEPT !.conn = IF @ = "connecting" THEN "disconnected" ELSE @]
  /\ IF shake.by = "monitor"
     THEN /\ policy' = IF mon.cancel THEN policy
                       ELSE [policy EXCEPT !.retry = shake.machine, !.due = FALSE]
          /\ MonitorAt("wait")
     ELSE UNCHANGED <<policy, mon>>
  /\ UNCHANGED <<transportVars, dev, plugged, upsets, user, bridge, poller>>

-----------------------------------------------------------------------------
(* The operator. *)
UserConnect ==
  /\ user.at = "idle" /\ user.asked < MaxRequests
  /\ \E m \in Machines : BeginAttempt("user", m)
  /\ user' = [user EXCEPT !.asked = @ + 1]
  /\ UNCHANGED <<transportVars, dev, plugged, upsets, mon, policy, bridge, poller>>

\* Disconnect captures the machine and suppresses the event it will cause.
Disconnect ==
  /\ user.at = "idle" /\ user.asked < MaxRequests /\ ctl.transition = "stable"
  /\ user' = [at |-> "join", asked |-> user.asked + 1,
              machine |-> IF ctl.name \in policy.seen THEN ctl.name ELSE Nobody]
  /\ ctl' = [ctl EXCEPT !.transition = "disconnecting", !.suppress = ctl.gen]
  /\ poller' = [poller EXCEPT !.stop = TRUE]
  /\ UNCHANGED <<transportVars, shake, dev, plugged, upsets, mon, policy, bridge>>

DisconnectStep ==
  /\ \/ /\ user.at = "join" /\ poller.at = "idle" /\ poller' = NoPoller
        /\ user' = [user EXCEPT !.at = "close"] /\ UNCHANGED transportVars
     \/ /\ user.at = "close" /\ port = 0 /\ opening = 0 /\ user' = [user EXCEPT !.at = "clear"]
        /\ UNCHANGED <<transportVars, poller>>
     \/ user.at = "close" /\ CloseTakes /\ user' = [user EXCEPT !.at = "closing"] /\ UNCHANGED poller
     \/ user.at = "closing" /\ CloseReturns /\ user' = [user EXCEPT !.at = "clear"] /\ UNCHANGED poller
  /\ UNCHANGED <<handshakeVars, mon, policy, bridge>>

\* clearConnectionStateLocked, and the suppression of the machine
DisconnectClears ==
  /\ user.at = "clear"
  /\ ctl' = [ctl EXCEPT !.conn = "disconnected", !.transition = "stable", !.gen = 0, !.settings = {}]
  /\ policy' = [policy EXCEPT !.suppressed = IF user.machine = Nobody THEN @ ELSE user.machine]
  /\ user' = [user EXCEPT !.at = "idle", !.machine = Nobody]
  /\ UNCHANGED <<transportVars, shake, dev, plugged, upsets, mon, bridge, poller>>

-----------------------------------------------------------------------------
(* The event bridge. *)
NextEvent == Head(events)

\* Mutant: Disconnect keeps the bridge out while it closes the transport.
ReceivesWhenStable ==
  /\ bridge = 0 /\ ctl.transition # "disconnecting" /\ events # <<>> /\ events' = Tail(events)
  /\ UNCHANGED <<port, opening, closing, reader>>

Receives == bridge = 0 /\ events # <<>> /\ events' = Tail(events)
            /\ UNCHANGED <<port, opening, closing, reader>>

\* Mutant: the queue has no bound.
EnqueuedUnbounded(c, e) ==
  IF c.candidate # 0 /\ e.gen # c.candidate THEN c
  ELSE [c EXCEPT !.queue = Append(@, e),
                 !.err = @ \/ (c.candidate = e.gen /\ e.kind \in {"error", "disconnected"})]

\* captureConnectAttemptEventLocked
Enqueued(c, e) ==
  IF c.candidate # 0 /\ e.gen # c.candidate THEN c
  ELSE [c EXCEPT !.queue = IF Len(@) < MaxQueue THEN Append(@, e) ELSE @,
                 !.err = \/ @
                         \/ Len(c.queue) >= MaxQueue
                         \/ c.candidate = e.gen /\ e.kind \in {"error", "disconnected"}]

\* runTransportEventBridge; traffic of the committed generation changes nothing here.
BridgeReads ==
  /\ Receives
  /\ LET e == NextEvent IN
     CASE e.kind \in {"connected", "tx"} -> UNCHANGED <<ctl, bridge, poller>>
       [] e.kind \in {"rx", "error"} ->
            /\ ctl' = IF ctl.transition = "connecting" THEN Enqueued(ctl, e) ELSE ctl
            /\ UNCHANGED <<bridge, poller>>
       [] e.kind = "disconnected" /\ e.gen = ctl.suppress ->
            ctl' = [ctl EXCEPT !.suppress = 0] /\ UNCHANGED <<bridge, poller>>
       [] e.kind = "disconnected" /\ e.gen # ctl.suppress /\ ctl.transition = "connecting" ->
            /\ ctl' = [Enqueued(ctl, e) EXCEPT !.early = IF ctl.candidate = 0 THEN @ \cup {e.gen} ELSE @]
            /\ UNCHANGED <<bridge, poller>>
       [] e.kind = "disconnected" /\ e.gen # ctl.suppress /\ ctl.transition # "connecting" ->
            /\ IF e.gen = ctl.gen THEN bridge' = e.gen /\ poller' = [poller EXCEPT !.stop = TRUE]
               ELSE UNCHANGED <<bridge, poller>>
            /\ UNCHANGED ctl
  /\ UNCHANGED <<shake, dev, plugged, upsets, mon, policy, user>>

\* handleTransportDisconnected joins the poller before it clears the state.
BridgeClears ==
  /\ bridge # 0 /\ poller.at = "idle"
  /\ bridge' = 0 /\ poller' = IF poller.stop THEN NoPoller ELSE poller
  /\ ctl' = IF ctl.gen # bridge THEN ctl
            ELSE [ctl EXCEPT !.conn = "disconnected", !.gen = 0, !.settings = {}]
  /\ UNCHANGED <<transportVars, shake, dev, plugged, upsets, mon, policy, user>>

-----------------------------------------------------------------------------
(* The poller: a write is a capture of the port and the sending of its event. *)
PollBegins ==
  /\ poller.gen # 0 /\ ~poller.stop /\ poller.at = "idle" /\ opening = 0 /\ port # 0
  /\ poller' = [poller EXCEPT !.at = "write"]
  /\ UNCHANGED <<transportVars, handshakeVars, mon, policy, user, bridge>>

PollEnds ==
  /\ poller.at = "write" /\ poller' = [poller EXCEPT !.at = "idle"]
  /\ Sends(Event("tx", poller.gen, "other"))
  /\ UNCHANGED <<port, opening, closing, reader, handshakeVars, mon, policy, user, bridge>>

-----------------------------------------------------------------------------
(* Machines come and go. *)
Plugs ==
  /\ \E m \in Machines \ plugged : plugged' = plugged \cup {m}
  /\ Upset("unplug")
  /\ UNCHANGED <<transportVars, ctl, shake, dev, monitorVars>>

Unplugs ==
  /\ Upset("unplug")
  /\ \E m \in plugged :
       /\ plugged' = plugged \ {m}
       /\ LET its(g) == port = g /\ m = IF shake.at = "idle" THEN ctl.name ELSE shake.machine
          IN  dev' = [g \in Generation |-> IF its(g) THEN NoDevice ELSE dev[g]]
  /\ UNCHANGED <<transportVars, ctl, shake, monitorVars>>

-----------------------------------------------------------------------------
\* One goroutine each: whoever is inside connect, the monitor, the event bridge,
\* the operator's Disconnect; and what happens on the line of a generation.
Attempt ==
  \/ /\ \/ Opens \/ OpenFails \/ Opened \/ NoteOpened
        \/ TakesBanner \/ TakesStartup \/ Quiet \/ QueryStarts \/ WritesQuery \/ WriteFails
        \/ TakesAnswer \/ SeesError \/ TimesOut \/ Suppresses \/ ClosesCandidate
     /\ UNCHANGED monitorVars
  \/ SeesCancel \/ Commits \/ Abandons
Monitor == Scans \/ Considers \/ TriesConnect \/ Wakes
Bridge == BridgeReads \/ BridgeClears
Closing == DisconnectStep \/ DisconnectClears
Line(g) ==
  \/ ReaderStep(g) /\ UNCHANGED <<handshakeVars, monitorVars>>
  \/ (MachineSpeaks(g) \/ StartupEnds(g) \/ ReadFails(g)) /\ UNCHANGED monitorVars

Next ==
  \/ Attempt \/ Monitor \/ RetryDue \/ Bridge \/ Closing
  \/ StopPortMonitoring \/ UserConnect \/ Disconnect \/ PollBegins \/ PollEnds
  \/ \E g \in Generation : Line(g)
  \/ (\E g \in Generation : GoesMute(g)) /\ UNCHANGED monitorVars
  \/ Plugs \/ Unplugs

Spec == Init /\ [][Next]_vars

(***************************************************************************)
(* Every goroutine runs, every timer fires and a machine that is not mute  *)
(* answers.  Nobody has to ask for anything and nothing has to go wrong.   *)
(***************************************************************************)
FairSpec ==
  /\ Spec
  /\ WF_vars(Attempt) /\ WF_vars(Monitor) /\ WF_vars(RetryDue)
  /\ WF_vars(Bridge) /\ WF_vars(Closing) /\ WF_vars(PollEnds)
  /\ \A g \in Generation : WF_vars(Line(g))

-----------------------------------------------------------------------------
TypeOK ==
  /\ HandshakeType /\ bridge \in 0..MaxGen /\ poller.gen \in 0..MaxGen
  /\ user.asked \in 0..MaxRequests
  /\ {policy.suppressed, policy.retry} \subseteq Machines \cup {Nobody}

\* The end of a generation is on its way to the bridge, which will not take it for
\* the end that Disconnect or a failed attempt brings about itself.
OnItsWay(g) ==
  /\ ctl.suppress # g
  /\ \/ reader[g].at \in {"error", "end"}
     \/ \E i \in DOMAIN events : events[i].kind = "disconnected" /\ events[i].gen = g

\* The port is open of the generation that is connected, or that an attempt has
\* been told it validates, or somebody knows of its end or will: nobody swallows
\* it, neither before the attempt knows its generation nor while it commits.
LossNoticed ==
  /\ ctl.conn = "connected" /\ port # ctl.gen =>
       ctl.transition = "disconnecting" \/ bridge = ctl.gen \/ OnItsWay(ctl.gen)
  /\ shake.at \in Waits \cup {"query", "write", "commit"} /\ port # ctl.candidate =>
       ctl.err \/ OnItsWay(ctl.candidate)

\* The committed settings are the answer to the query of this attempt, complete
\* with its first line: no line of the startup output, however late the bridge
\* delivers it, and none of an event the queue had no room for.
SettingsAnswer == ctl.conn = "connected" => ctl.settings = {"setting"}

\* The transport reports the end of a generation once, whoever brings it about,
\* and after every line of it.
EndsOnce ==
  /\ \A g \in Generation :
       Cardinality({i \in DOMAIN events : events[i].kind = "disconnected" /\ events[i].gen = g})
         + (IF closing = g THEN 1 ELSE 0) + (IF reader[g].at \in {"error", "end"} THEN 1 ELSE 0)
         + (IF port = g THEN 1 ELSE 0) <= 1
  /\ \A i, j \in DOMAIN events :
       events[i].kind = "disconnected" /\ events[j].kind \in {"rx", "error"}
         /\ events[i].gen = events[j].gen => j < i

\* Every call returns: an attempt whatever the machine and the transport do, a
\* Disconnect whoever waits for what it holds, and StopPortMonitoring in the
\* middle of an attempt of the monitor's.
CallsReturn ==
  /\ shake.at # "idle" ~> shake.at = "idle"
  /\ user.at # "idle" ~> user.at = "idle"
  /\ mon.cancel ~> mon.at = "off"

\* A lone machine that nobody disconnected is connected to, sooner or later.
AutoConnects ==
  []<>(\/ ctl.conn = "connected" \/ mon.cancel
       \/ Sole(plugged) = Nobody \/ policy.suppressed = Sole(plugged))

\* port_monitor_test.go:286, TestManualDisconnectSuppressedUntilRemoval: the monitor
\* leaves a machine alone that the operator disconnected. The decision to connect
\* is taken before the attempt is admitted, and is not taken again there.
SuppressionObeyed ==
  [][shake.at = "idle" /\ shake'.at # "idle" /\ shake'.by = "monitor" =>
       shake'.machine # policy.suppressed]_vars
=============================================================================
