------------------------------ MODULE Handlers ------------------------------
(***************************************************************************)
(* The requests a server handles at a time. A handler that reads before it *)
(* writes keeps what it read in a record between its steps.                *)
(***************************************************************************)
EXTENDS Naturals, FiniteSets

CONSTANT Handlers

Idle == [op |-> "idle"]
=============================================================================
