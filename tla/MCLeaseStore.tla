---------------------------- MODULE MCLeaseStore ----------------------------
(***************************************************************************)
(* The addresses 2 and 3 of the subnet 0..4, a few connections and one     *)
(* restart.  The network is loaded with the first device on address 3.     *)
(***************************************************************************)
EXTENDS LeaseStore

CONSTANT d1

MCInitRows ==
    {[d \in Devices |-> [ip |-> IF d = d1 THEN 3 ELSE None]]}
=============================================================================
