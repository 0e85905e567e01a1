------------------------------ MODULE MCCommands ------------------------------
(* Instances of CommandSessions for TLC: the lines its commands are made of. *)
EXTENDS CommandSessions

SilentAndSet == [kind : Silent, value : {0}] \cup [kind : {"set"}, value : {2}]
LevelAndReset == [kind : {"level", "reset"}, value : {0}]
=============================================================================
