------------------------------- MODULE MCFec -------------------------------
(***************************************************************************)
(* Groups of up to two packets, with one parity packet each, and packets   *)
(* of two lengths; the receiving client has compression.                   *)
(***************************************************************************)
EXTENDS Fec
=============================================================================
