--------------------------- MODULE MCNetworkState ---------------------------
(***************************************************************************)
(* Two devices share the addresses 2 and 3 of the subnet 0..4 (gateway 1). *)
(* Clients may ask for an address in the subnet or for the gateway's.  The *)
(* network is loaded with one device that has a lease and one whose lease  *)
(* has ended; it also becomes empty, when both are deleted or expire.      *)
(***************************************************************************)
EXTENDS NetworkState, TLC

CONSTANTS d1, d2

MCInitRows ==
    {(d1 :> [ip |-> 3]) @@ (d2 :> [ip |-> None])}

\* No guard reads a version and every step that sets one adds one to
\* data_version, so states that differ only in versions behave alike.
WithoutVersions ==
    <<[d \in Devices |-> IF Known(d)
                         THEN [device_map[d] EXCEPT !.data_version = 0]
                         ELSE None],
      device_ip_map, sender_map, session, sweep, admin>>

Symmetry == Permutations(Sessions)
=============================================================================
