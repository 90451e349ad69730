---------------------------- MODULE MCClientList ----------------------------
(***************************************************************************)
(* Versions up to MaxVersion, so that a restarted server can be behind,    *)
(* level with and ahead of the client.                                     *)
(***************************************************************************)
EXTENDS ClientList
=============================================================================
