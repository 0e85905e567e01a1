------------------------------ MODULE MCFrontend ------------------------------
(***************************************************************************)
(* Instances of Frontend for TLC: document d owns the sessions 10 * d + 1, *)
(* 10 * d + 2 ... of its steps; a standalone document owns one.            *)
(***************************************************************************)
EXTENDS Frontend

OwnerByNumber == [s \in Sessions |-> s \div 10]
=============================================================================
