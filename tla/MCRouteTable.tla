---------------------------- MODULE MCRouteTable ----------------------------
(***************************************************************************)
(* A client behind two keys, and a second one that comes over the first    *)
(* key, a TCP tunnel, as well.  Heartbeats are faster or slower than the   *)
(* default.                                                                *)
(***************************************************************************)
EXTENDS RouteTable

CONSTANTS c1, c2, k1, k2

MCLinks == {<<c1, k1>>, <<c1, k2>>, <<c2, k1>>}
=============================================================================
