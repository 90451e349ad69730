---------------------------- MODULE MCPeerServer ----------------------------
(***************************************************************************)
(* One configured address, two requests that may overlap and three tasks,  *)
(* so that an address is added again after a task was replaced; two        *)
(* connections and one route per address, so that a list overflows.        *)
(***************************************************************************)
EXTENDS PeerServer
=============================================================================
