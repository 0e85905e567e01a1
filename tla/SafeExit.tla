------------------------------- MODULE SafeExit -------------------------------
(***************************************************************************)
(* What the frontend promises about closing, whatever its dialogs, queues  *)
(* and goroutines do: a document stays open while a program of its own     *)
(* runs, only an open document's program starts, and the application goes  *)
(* when no document is open and no program runs, after which nothing more  *)
(* happens to the machine.                                                 *)
(***************************************************************************)
CONSTANT Documents

VARIABLES
  unopened,  \* documents still to be opened
  open,      \* open documents
  running,   \* the document whose program is active, or a value outside Documents
  exited     \* the application has closed

vars == <<unopened, open, running, exited>>

Nothing == 0

Init ==
  /\ unopened \subseteq Documents /\ open = Documents \ unopened
  /\ running = Nothing /\ exited = FALSE

Open(d) ==
  /\ ~exited /\ d \in unopened
  /\ unopened' = unopened \ {d} /\ open' = open \cup {d}
  /\ UNCHANGED <<running, exited>>

Start(d) ==
  /\ ~exited /\ d \in open /\ running = Nothing
  /\ running' = d
  /\ UNCHANGED <<unopened, open, exited>>

End ==
  /\ running # Nothing /\ running' = Nothing
  /\ UNCHANGED <<unopened, open, exited>>

Close(d) ==
  /\ ~exited /\ d \in open /\ running # d
  /\ open' = open \ {d}
  /\ UNCHANGED <<unopened, running, exited>>

Exit ==
  /\ ~exited /\ open = {} /\ running = Nothing
  /\ exited' = TRUE
  /\ UNCHANGED <<unopened, open, running>>

Next == (\E d \in Documents : Open(d) \/ Start(d) \/ Close(d)) \/ End \/ Exit

Spec == Init /\ [][Next]_vars
=============================================================================
