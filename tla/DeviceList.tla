----------------------------- MODULE DeviceList -----------------------------
(***************************************************************************)
(* What a network's server promises about the device list it publishes:    *)
(* addresses are unique, every change moves the version up by one, and a   *)
(* device that was changed carries the new version.  NetworkState          *)
(* implements it; the synchronisation of the clients relies on nothing     *)
(* else (changed_client_simple_list).                                      *)
(*                                                                         *)
(* A device without an address is not published and counts as absent.      *)
(***************************************************************************)
EXTENDS Naturals

CONSTANTS
    Devices,     \* device ids
    Addresses,   \* virtual addresses
    None         \* no entry

Entry == [ip : Addresses, online : BOOLEAN, data_version : Nat]

\* Address ip is not held by a device other than d.
FreeFor(l, d, ip) == \A e \in Devices \ {d} : l[e] # None => l[e].ip # ip

\* Device d is set to e and stamped with the version that follows v.
Renewed(l, v, d, ip, on) ==
    [l EXCEPT ![d] = [ip |-> ip, online |-> on, data_version |-> v + 1]]

Removed(l, ds) == [d \in Devices |-> IF d \in ds THEN None ELSE l[d]]

\* A list as it is loaded: everybody is offline and has version 0.
LoadedLists ==
    {l \in [Devices -> [ip : Addresses, online : {FALSE}, data_version : {0}]
                          \cup {None}] :
        \A d \in Devices : l[d] # None => FreeFor(l, d, l[d].ip)}

VARIABLES list, data_version

listVars == <<list, data_version>>

Init == list \in LoadedLists /\ data_version = 0

Renew(d, ip, on) ==
    /\ FreeFor(list, d, ip)
    /\ list' = Renewed(list, data_version, d, ip, on)

\* Also of nobody: a change that other clients do not see.
Remove(ds) == list' = Removed(list, ds)

Next ==
    /\ data_version' = data_version + 1
    /\ \/ \E d \in Devices, ip \in Addresses, on \in BOOLEAN : Renew(d, ip, on)
       \/ \E ds \in SUBSET Devices : Remove(ds)

Spec == Init /\ [][Next]_listVars
=============================================================================
