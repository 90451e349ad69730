------------------------------ MODULE MCPunch -------------------------------
(***************************************************************************)
(* The client that is asked may be started again once.                     *)
(***************************************************************************)
EXTENDS Punch

CONSTANTS a, b

MCLives == [c \in {a, b} |-> IF c = a THEN 1 ELSE 2]
=============================================================================
