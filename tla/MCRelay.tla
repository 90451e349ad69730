------------------------------ MODULE MCRelay ------------------------------
(***************************************************************************)
(* Three clients, one of which only uses direct routes, and two servers.   *)
(***************************************************************************)
EXTENDS Relay, TLC

CONSTANTS c1, c2, c3, s1, s2
MCClients == {c1, c2, c3}
MCServers == {s1, s2}
MCP2pOnly == {c3}
=============================================================================
