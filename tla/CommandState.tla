----------------------------- MODULE CommandState -----------------------------
(***************************************************************************)
(* What Controller.mu guards of interactive and manual commands: the       *)
(* response owner, the pending settings mutation, the settings snapshot,   *)
(* the expected-silence lease and the heartbeat (internal/app).  One       *)
(* committed connection without a program; every locked function is an     *)
(* operator from record to record.                                         *)
(*                                                                         *)
(* Time is relative: an age counts ticks and stops counting at MaxAge,     *)
(* past every limit it is compared with, so the models have no horizon.    *)
(***************************************************************************)
EXTENDS Integers

CONSTANTS
  MaxCommands,  \* command sessions
  MaxValue,     \* values of the one setting that matters, which is also the time $H takes
  Timeout,      \* controllerResponseTimeout
  Margin        \* what gg3AddPolicyMargin adds to the time computed from the snapshot

ASSUME CommandAssumption ==
  MaxCommands \in Nat /\ MaxValue \in Nat \ {0} /\ Timeout \in Nat \ {0} /\ Margin \in Nat \ {0}

Commands == 1..MaxCommands
MaxAge == Timeout + 2 * MaxValue + 2 + Margin
Age == 0..MaxAge
Older(age) == IF age = MaxAge THEN age ELSE age + 1
NotSet == 0 - 1

\* A line: "move" stands for all that need no preparation, "home" for $H, $HX, $HY,
\* $HZ and $LS, "level" for $L, "set" for $n=value, "reset" for $RST=$ and $RST=*.
Silent == {"home", "level"}
Line == [kind : {"move", "reset", "unlock"} \cup Silent, value : {0}]
        \cup [kind : {"set"}, value : 1..MaxValue]

\* The operation a lease or a mutation was taken for: line number "at" of a session.
NoOp == [cmd |-> 0, at |-> 0]
Operation == [cmd : Commands, at : Nat]

NoOwner == [kind |-> "none", cmd |-> 0]
Owner == [kind : {"manual", "macro"}, cmd : Commands]
NoMutation == [op |-> NoOp, value |-> 0]
NoLease == [op |-> NoOp, kind |-> "home", leg |-> 0, age |-> 0, idle |-> 0, limit |-> 0]

\* How long the machine is silent in one leg of a silent command with setting v:
\* $L homes and measures, prints an adjustment and makes it, up to three times.
\* Homing an axis takes v, measuring 1, an adjustment is 0 or the whole travel, 1.
Adjustments == 0..1
SilentTime(kind, v, adjustment, leg) ==
  CASE kind = "home" -> v
    [] kind = "level" /\ leg = 0 -> 2 * v + 1
    [] kind = "level" /\ leg \in 1..2 -> adjustment + 2 * v + 1
    [] OTHER -> adjustment + v

\* snapshot is 0 without usable settings; beat is the age of the outstanding
\* heartbeat; write is the realtime reservation; waiters are registered
\* foreground admissions.
InitCommands ==
  [owner |-> NoOwner, mutation |-> NoMutation, snapshot |-> 1, lease |-> NoLease,
   beat |-> NotSet, estop |-> "clear", write |-> "none", waiters |-> {}]

CommandsType ==
  [owner : Owner \cup {NoOwner},
   mutation : [op : Operation, value : 1..MaxValue] \cup {NoMutation},
   snapshot : 0..MaxValue,
   lease : [op : Operation, kind : Silent, leg : 0..3, age : Age, idle : Age, limit : Age]
           \cup {NoLease},
   beat : Age \cup {NotSet}, estop : {"clear", "active", "recovery"},
   write : {"none", "poll", "reset"}, waiters : SUBSET Commands]

-----------------------------------------------------------------------------
(* Ownership. *)

\* admissionErrorLocked for admissionManual and admissionInteractive, and
\* unlockAdmissionErrorLocked for admissionRecoveryUnlock.
AdmitsOwner(c, kind) ==
  /\ c.estop \in {"clear"} \cup (IF kind = "unlock" THEN {"recovery"} ELSE {})
  /\ c.write = "none" /\ c.owner = NoOwner

\* Mutant: the lease of a released owner is left to expire.
ForgetMutation(c, s) == [c EXCEPT !.mutation = IF @.op.cmd = s THEN NoMutation ELSE @]

\* endExpectedSilenceForOwnerLocked and clearSettingsMutationForOwnerLocked
Forget(c, s) ==
  [c EXCEPT !.lease = IF @.op.cmd = s THEN NoLease ELSE @,
            !.mutation = IF @.op.cmd = s THEN NoMutation ELSE @]

\* Mutant: only the kind of the owner is cleared.
ReleaseOwnerKind(c, s) ==
  IF c.owner.cmd # s \/ s = 0 THEN c ELSE [Forget(c, s) EXCEPT !.owner.kind = "none"]

\* releaseResponseOwnerLocked and the controller's part of terminateResponseOwnerLocked
ReleaseOwner(c, s) ==
  IF c.owner.cmd # s \/ s = 0 THEN c ELSE [Forget(c, s) EXCEPT !.owner = NoOwner]

-----------------------------------------------------------------------------
(* Preparation of a line: settings and expected silence. *)

\* commitSettingsMutationLocked, of the exact operation
CommitMutation(c, op) ==
  IF c.mutation.op # op \/ op = NoOp THEN c
  ELSE [c EXCEPT !.mutation = NoMutation,
                 !.snapshot = IF c.snapshot = 0 THEN 0 ELSE c.mutation.value]

\* clearCommandPreparation: the lease and the mutation of the exact operation
ClearPreparation(c, op) ==
  [c EXCEPT !.lease = IF @.op = op THEN NoLease ELSE @,
            !.mutation = IF @.op = op THEN NoMutation ELSE @]

\* beginExpectedSilenceLocked with gg3ExpectedSilenceSpec
BeginSilence(c, op, kind) ==
  [c EXCEPT !.lease = [op |-> op, kind |-> kind, leg |-> 0, age |-> 0, idle |-> 0,
                       limit |-> SilentTime(kind, c.snapshot, 0, 0) + Margin],
            !.beat = NotSet]

\* Mutant: a setting counts as stored when its line is admitted.
PrepareCommits(c, op, line) ==
  CASE line.kind = "set" -> [c EXCEPT !.snapshot = line.value]
    [] line.kind = "reset" -> [c EXCEPT !.snapshot = 0]
    [] line.kind \in Silent -> IF c.snapshot = 0 THEN c ELSE BeginSilence(c, op, line.kind)
    [] line.kind \in {"move", "unlock"} -> c

\* prepareCommandLocked for the owner c.owner; PrepareFails is its error.
PrepareFails(c, line) ==
  \/ line.kind = "set" /\ c.mutation # NoMutation
  \/ line.kind \in Silent /\ c.snapshot # 0 /\ c.lease # NoLease
Prepare(c, op, line) ==
  CASE line.kind = "set" -> [c EXCEPT !.mutation = [op |-> op, value |-> line.value]]
    [] line.kind = "reset" -> [c EXCEPT !.snapshot = 0]
    [] line.kind \in Silent -> IF c.snapshot = 0 THEN c ELSE BeginSilence(c, op, line.kind)
    [] line.kind \in {"move", "unlock"} -> c

-----------------------------------------------------------------------------
(* Heartbeat. *)

\* beginStatusPollForGenerationLocked
AdmitsPoll(c) == c.lease = NoLease /\ c.waiters = {} /\ c.write = "none"
BeginPoll(c) == [c EXCEPT !.write = "poll", !.beat = IF @ = NotSet THEN 0 ELSE @]

\* noteControllerActivityLocked: a line received that many ticks ago
NoteActivity(c, age) ==
  LET l == c.lease IN
  [c EXCEPT !.beat = IF @ # NotSet /\ age <= @ THEN NotSet ELSE @,
            !.lease = IF l # NoLease /\ age <= l.age
                      THEN [l EXCEPT !.idle = IF age < l.idle THEN age ELSE l.idle] ELSE l]

\* Mutant: what does not parse counts as no adjustment at all.
NoteProgressParsed(c, age, adjustment) ==
  LET l == c.lease IN
  IF l = NoLease \/ l.kind # "level" \/ age > l.age \/ age > l.idle \/ l.leg = 3 THEN c
  ELSE [c EXCEPT !.lease.leg = @ + 1,
                 !.lease.limit = SilentTime("level", c.snapshot, 0, l.leg) + Margin]

\* noteExpectedSilenceProgressLocked with gg3LevelNextInactivityLimit; an adjustment
\* that does not parse, or whose unit is not known, may be as long as the travel.
\* The line has just been noted as activity; NotSet stands for what does not parse.
NoteProgress(c, age, adjustment) ==
  LET l == c.lease IN
  IF l = NoLease \/ l.kind # "level" \/ age > l.age \/ age > l.idle \/ l.leg = 3 THEN c
  ELSE [c EXCEPT !.lease.leg = @ + 1,
                 !.lease.limit = SilentTime("level", c.snapshot, IF adjustment = NotSet THEN 1 ELSE adjustment, l.leg + 1)
                                 + Margin]

\* enterEStopLocked, with its early return
EnterEStop(c) ==
  IF c.estop = "active" THEN c
  ELSE [ReleaseOwner(c, c.owner.cmd) EXCEPT !.lease = NoLease, !.estop = "active"]

\* noteStatusResponseLocked
NoteStatus(c, idle) ==
  [c EXCEPT !.estop = IF @ = "clear" \/ idle THEN "clear" ELSE "recovery"]

\* Mutant: a lease is never checked.
UnresponsiveHeartbeat(c) ==
  c.estop # "active" /\ c.lease = NoLease /\ c.beat # NotSet /\ c.beat >= Timeout

\* checkStatusWatchdog: the limit is passed
Unresponsive(c) ==
  /\ c.estop # "active"
  /\ IF c.lease # NoLease THEN c.lease.idle >= c.lease.limit
     ELSE c.beat # NotSet /\ c.beat >= Timeout

Ages(c) ==
  LET l == c.lease IN
  [c EXCEPT !.beat = IF @ = NotSet THEN @ ELSE Older(@),
            !.lease = IF l = NoLease THEN l
                      ELSE [l EXCEPT !.age = Older(l.age), !.idle = Older(l.idle)]]
=============================================================================
