-------------------------- MODULE MCControlService --------------------------
(***************************************************************************)
(* One network that may be deleted, with two subnets to choose from, two   *)
(* clients and the administrator.                                          *)
(***************************************************************************)
EXTENDS ControlService, TLC

CONSTANTS n1, net1

MCConfigNets == n1 :> net1
Symmetry ==
    Permutations(Clients) \cup Permutations(StateIds) \cup Permutations(Admins)
=============================================================================
