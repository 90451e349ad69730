------------------------------- MODULE MCJoin -------------------------------
(***************************************************************************)
(* Two servers, two addresses they can give to the client.                 *)
(***************************************************************************)
EXTENDS Join

CONSTANTS i1, i2, s1, s2
=============================================================================
