------------------------- MODULE NetworkStateProofs -------------------------
(***************************************************************************)
(* Proofs about NetworkState, for every set of devices, sessions and       *)
(* requested addresses and every subnet, and about LeaseStore, which puts  *)
(* the database and restarts around it.                                    *)
(***************************************************************************)
EXTENDS LeaseStore, WellFoundedInduction, TLAPS

\* The scan of find_available_ip ends at the lowest free address: it is one
\* of the subnet, not the gateway's, and nobody's.
LEMMA FindAvailableIp ==
    ASSUME FreeIps # {}
    PROVE  /\ find_available_ip \in FreeIps
           /\ find_available_ip \in Net \ {Gateway}
           /\ device_ip_map[find_available_ip] = None
<1>1. FreeIps \subseteq Nat
  BY NetAssumption DEF FreeIps
<1>2. PICK x \in FreeIps : \A y \in FreeIps : ~(<<y, x>> \in OpToRel(<, Nat))
  BY <1>1, NatLessThanWellFounded, WFMin
<1>3. \A y \in FreeIps : x <= y
  <2> SUFFICES ASSUME NEW y \in FreeIps, y < x PROVE FALSE
    BY <1>1
  <2>1. <<y, x>> \in {ss \in Nat \X Nat : ss[1] < ss[2]}
    BY <1>1
  <2>2. <<y, x>> \in OpToRel(<, Nat)
    BY <2>1, Zenon DEF OpToRel
  <2>3. QED
    BY <1>2, <2>2
<1>4. find_available_ip \in FreeIps
  BY <1>3 DEF find_available_ip
<1>5. QED
  BY <1>4, NetAssumption DEF FreeIps, Net, Gateway

\* Addresses are numbers, and None is none of them.
LEMMA IpsAreNumbers ==
    Ips \subseteq Nat /\ None \notin Ips /\ Net \ {Gateway} \subseteq Ips
<1>1. Net \subseteq Nat
  BY NetAssumption DEF Net
<1>2. QED
  BY <1>1, NetAssumption, NoneAssumption DEF Ips

\* A session that has registered knows its device and its address, and a
\* deletion under way knows its device.
Bound ==
    /\ \A s \in Sessions :
          session[s].status \in {"pending", "confirming", "confirmed", "releasing"}
          => session[s].device \in Devices /\ session[s].ip \in Ips
    /\ admin.pc # "idle" => admin.device \in Devices

\* The common tail of a registration keeps the types.
LEMMA RegisteredType ==
    ASSUME TypeOK, Bound, NEW s \in Sessions, NEW req \in Request,
           NEW ip \in Ips, NEW old,
           LeaseTo(s, req, ip), Registered(s, req, ip, old),
           device_ip_map' \in [Ips -> Devices \cup {None}],
           UNCHANGED <<sweep, admin>>
    PROVE  TypeOK' /\ Bound'
<1>1. ConnectedEntry(s, ip) \in DeviceEntry
  BY DEF TypeOK, ConnectedEntry, DeviceEntry
<1>2. device_map' \in [Devices -> DeviceEntry \cup {None}] /\ data_version' \in Nat
  BY <1>1 DEF LeaseTo, TypeOK, Request
<1>3. sender_map' \in [Ips -> Sessions \cup {None}]
  BY DEF Registered, TypeOK
<1>4. session' \in [Sessions -> SessionState]
  BY DEF Registered, TypeOK, SessionState, Status, Request
<1>5. Bound'
  BY DEF Bound, Registered, TypeOK, Request, SessionState
<1>6. QED
  BY <1>2, <1>3, <1>4, <1>5 DEF TypeOK

\* register keeps the types, whatever it answers.
LEMMA RegisterType ==
    ASSUME TypeOK, Bound, NEW s \in Sessions, NEW req \in Request,
           register(s, req)
    PROVE  TypeOK' /\ Bound'
<1> USE DEF register
<1>0. OldIp(req) \in Ips \cup {None} /\ req.device \in Devices /\ req.ip \in Ips \cup {None}
  BY DEF OldIp, Known, TypeOK, DeviceEntry, Request, Ips
<1>1. CASE ReuseLease(s, req)
  BY <1>0, <1>1, RegisteredType DEF ReuseLease, TypeOK
<1>2. CASE RenewLease(s, req)
  <2>1. find_available_ip \in Ips
    BY <1>2, FindAvailableIp DEF RenewLease, Ips
  <2>2. QED
    BY <1>0, <1>2, <2>1, RegisteredType DEF RenewLease, TypeOK
<1>3. CASE TakeExpected(s, req)
  BY <1>0, <1>3, RegisteredType DEF TakeExpected, TypeOK
<1>4. CASE TakeAvailable(s, req)
  <2>1. find_available_ip \in Ips
    BY <1>4, FindAvailableIp DEF TakeAvailable, Ips
  <2>2. QED
    BY <1>0, <1>4, <2>1, RegisteredType DEF TakeAvailable, TypeOK
<1>5. CASE RefuseLease(s, req)
  BY <1>5 DEF RefuseLease, TypeOK, Bound, inner, Closed, SessionState, Status
<1>6. QED
  BY <1>1, <1>2, <1>3, <1>4, <1>5

\* Every step keeps the types and the bindings of sessions and requests.
LEMMA StepType == TypeOK /\ Bound /\ [Next]_vars => TypeOK' /\ Bound'
<1> SUFFICES ASSUME TypeOK, Bound, [Next]_vars PROVE TypeOK' /\ Bound'
  OBVIOUS
<1> USE DEF TypeOK, Bound
<1>1. ASSUME NEW s \in Sessions, NEW req \in Request, register(s, req)
      PROVE  TypeOK' /\ Bound'
  BY <1>1, RegisterType
<1>2. ASSUME NEW s \in Sessions, confirm_registration(s) PROVE TypeOK' /\ Bound'
  BY <1>2 DEF confirm_registration, inner, SessionState, Status
<1>3. ASSUME NEW s \in Sessions, NEW ok \in BOOLEAN, ConfirmAnswer(s, ok)
      PROVE  TypeOK' /\ Bound'
  BY <1>3 DEF ConfirmAnswer, inner, SessionState, Status
<1>4. ASSUME NEW s \in Sessions, offline_ip(s) PROVE TypeOK' /\ Bound'
  <2>1. session' \in [Sessions -> SessionState] /\ Bound'
    BY <1>4 DEF offline_ip, SessionState, Status, Closed
  <2>2. session[s].device \in Devices
    BY <1>4 DEF offline_ip
  <2>3. CASE IsCurrent(s)
    <3>1. device_map[session[s].device] \in DeviceEntry
      BY <2>2, <2>3 DEF IsCurrent, Known
    <3> DEFINE e == [device_map[session[s].device] EXCEPT !.is_connected = FALSE,
                        !.lapsed = FALSE, !.data_version = data_version + 1]
    <3>a. e \in DeviceEntry
      <4>1. data_version + 1 \in Nat
        OBVIOUS
      <4> HIDE DEF TypeOK, Bound
      <4>2. QED
        BY <3>1, <4>1 DEF DeviceEntry
    <3>b. device_map' = [device_map EXCEPT ![session[s].device] = e]
      BY <1>4, <2>3 DEF offline_ip
    <3>2. device_map' \in [Devices -> DeviceEntry \cup {None}]
      BY <3>a, <3>b
    <3>3. QED
      BY <1>4, <2>1, <2>3, <3>2 DEF offline_ip
  <2>4. CASE ~IsCurrent(s)
    BY <1>4, <2>1, <2>4 DEF offline_ip
  <2>5. QED
    BY <2>3, <2>4
<1>5. ASSUME NEW s \in Sessions, release_pre_registered_ip(s) PROVE TypeOK' /\ Bound'
  <2>1. CASE IsCurrent(s)
    <3>1. session' \in [Sessions -> SessionState] /\ Bound'
      <4> DEFINE r == [session[s] EXCEPT !.status = "releasing"]
      <4>1. /\ session[s] \in SessionState
            /\ session[s].device \in Devices /\ session[s].ip \in Ips
        BY <1>5 DEF release_pre_registered_ip
      <4>2. /\ r \in SessionState /\ r.status = "releasing"
            /\ r.device = session[s].device /\ r.ip = session[s].ip
        BY <4>1 DEF SessionState, Status
      <4>3. session' = [session EXCEPT ![s] = r] /\ admin' = admin
        BY <1>5, <2>1 DEF release_pre_registered_ip
      <4> HIDE DEF r
      <4>4. \A t \in Sessions : session'[t] = IF t = s THEN r ELSE session[t]
        BY <4>3
      <4>5. QED
        BY <4>1, <4>2, <4>3, <4>4
    <3>2. QED
      BY <1>5, <2>1, <3>1 DEF release_pre_registered_ip
  <2>2. CASE ~IsCurrent(s)
    BY <1>5, <2>2 DEF release_pre_registered_ip, inner, SessionState, Status, Closed
  <2>3. QED
    BY <2>1, <2>2
<1>6. ASSUME NEW s \in Sessions, ReleaseSender(s) PROVE TypeOK' /\ Bound'
  BY <1>6 DEF ReleaseSender, inner, SessionState, Status, Closed
<1>7. ASSUME NEW d \in Devices, LeaseLapses(d) PROVE TypeOK' /\ Bound'
  <2>1. device_map[d] \in DeviceEntry
    BY <1>7 DEF LeaseLapses, Known
  <2>2. QED
    BY <1>7, <2>1 DEF LeaseLapses, DeviceEntry
<1>8. ASSUME NEW d \in Devices, DeleteCheck(d) PROVE TypeOK' /\ Bound'
  BY <1>8 DEF DeleteCheck, inner
<1>9. CASE SweepCollect
  BY <1>9 DEF SweepCollect, inner, collect_expired_devices
<1>10. CASE SweepRemove
  BY <1>10 DEF SweepRemove, remove_devices
<1>11. ASSUME NEW d \in Devices, SweepRelease(d) PROVE TypeOK' /\ Bound'
  BY <1>11 DEF SweepRelease, inner
<1>12. CASE remove_device_from_memory
  <2>1. CASE Known(admin.device)
    BY <1>12, <2>1 DEF remove_device_from_memory
  <2>2. CASE ~Known(admin.device)
    BY <1>12, <2>2 DEF remove_device_from_memory, inner
  <2>3. QED
    BY <2>1, <2>2
<1>13. CASE DeleteRow
  BY <1>13 DEF DeleteRow, inner
<1>14. CASE UNCHANGED vars
  BY <1>14 DEF vars
<1>15. QED
  BY <1>1, <1>2, <1>3, <1>4, <1>5, <1>6, <1>7, <1>8, <1>9, <1>10, <1>11,
     <1>12, <1>13, <1>14 DEF Next, Drop, Sweep

\* What load_network_state makes of orderly rows has its type.
LEMMA InitType == Init => TypeOK /\ Bound
<1> SUFFICES ASSUME NEW rows \in InitRows, LoadedFrom(rows) PROVE TypeOK /\ Bound
  BY DEF Init
<1>1. rows \in [Devices -> DeviceRecord \cup {None}]
  BY RowsAssumption DEF OrderlyRows
<1>2. device_map \in [Devices -> DeviceEntry \cup {None}]
  BY <1>1 DEF LoadedFrom, DeviceMapOf, DeviceEntryFromRecord, DeviceRecord, DeviceEntry
<1>3. device_ip_map \in [Ips -> Devices \cup {None}]
  BY DEF LoadedFrom, IpMapsOf
<1>4. QED
  BY <1>2, <1>3 DEF LoadedFrom, TypeOK, Bound, SessionState, Status

\* The maps, the sessions and the requests under way stay well-formed through
\* every interleaving of registrations, drops, sweeps and deletions.
THEOREM TypeCorrect == Spec => []TypeOK
<1>1. Init => TypeOK /\ Bound
  BY InitType
<1>2. TypeOK /\ Bound /\ [Next]_vars => TypeOK' /\ Bound'
  BY StepType
<1>3. QED
  BY <1>1, <1>2, PTL DEF Spec

-----------------------------------------------------------------------------
\* What the leases need to stay consistent, as one inductive invariant.
LeaseInv == LeaseIndexed /\ LeaseInNet /\ SenderIsLessee

\* What a successful registration does, whichever way the address was found:
\* the address was free or the device's own, no other device's address leaves
\* the index, and only the Senders of the new and the old address change.
LeaseMoves(s, d, ip) ==
    /\ ip \in Net \ {Gateway}
    /\ device_map' = [device_map EXCEPT ![d] = ConnectedEntry(s, ip)]
    /\ device_ip_map[ip] = None \/ (HasIp(d) /\ device_map[d].ip = ip)
    /\ device_ip_map'[ip] = d
    /\ \A i \in Ips : \/ device_ip_map'[i] = device_ip_map[i]
                      \/ i = ip
                      \/ HasIp(d) /\ device_map[d].ip = i
    /\ sender_map'[ip] = s
    /\ \A i \in Ips : i # ip => sender_map'[i] \in {sender_map[i], None}
    /\ session'[s].device = d /\ session'[s].ip = ip
    /\ session'[s].status \in {"pending", "confirmed"}
    /\ \A t \in Sessions : t # s => session'[t] = session[t]
    /\ data_version' = data_version + 1

\* A registration is refused, or moves the lease of its device.
LEMMA RegisterMoves ==
    ASSUME TypeOK, LeaseIndexed, LeaseInNet, NEW s \in Sessions,
           NEW req \in Request, register(s, req)
    PROVE  RefuseLease(s, req) \/ \E ip \in Ips : LeaseMoves(s, req.device, ip)
<1> DEFINE d == req.device
<1>0. d \in Devices
  BY DEF Request
<1> DEFINE Tail(ip) ==
      /\ sender_map'[ip] = s
      /\ \A i \in Ips : i # ip => sender_map'[i] \in {sender_map[i], None}
      /\ session'[s].device = d /\ session'[s].ip = ip
      /\ session'[s].status \in {"pending", "confirmed"}
      /\ \A t \in Sessions : t # s => session'[t] = session[t]
<1>1. ASSUME NEW ip \in Net \ {Gateway}, NEW old, Registered(s, req, ip, old)
      PROVE  Tail(ip)
  BY <1>1, IpsAreNumbers DEF Registered, TypeOK
<1> HIDE DEF Tail
<1>2. CASE ReuseLease(s, req)
  <2>1. HasIp(d) /\ OldIp(req) = device_map[d].ip
    BY <1>2 DEF ReuseLease, IpMatches, OldIp, HasIp
  <2>2. OldIp(req) \in Net \ {Gateway}
    BY <1>0, <2>1 DEF LeaseInNet
  <2>3. device_ip_map'[OldIp(req)] = d
    BY <1>0, <1>2, <2>1 DEF ReuseLease, LeaseIndexed
  <2>4. Tail(OldIp(req))
    BY <1>1, <1>2, <2>2 DEF ReuseLease
  <2>a. UNCHANGED device_ip_map /\ LeaseTo(s, req, OldIp(req))
    BY <1>2 DEF ReuseLease
  <2>b. \A i \in Ips : device_ip_map'[i] = device_ip_map[i]
    BY <2>a
  <2>5. LeaseMoves(s, d, OldIp(req))
    BY <2>1, <2>2, <2>3, <2>4, <2>a, <2>b, Zenon DEF LeaseMoves, LeaseTo, Tail
  <2>6. QED
    BY <2>2, <2>5, IpsAreNumbers
<1>3. CASE RenewLease(s, req)
  <2>1. find_available_ip \in Net \ {Gateway} /\ device_ip_map[find_available_ip] = None
    BY <1>3, FindAvailableIp DEF RenewLease
  <2>2. Tail(find_available_ip)
    BY <1>1, <1>3, <2>1 DEF RenewLease
  <2>a. /\ device_ip_map'[find_available_ip] = d
        /\ \A i \in Ips : \/ device_ip_map'[i] = device_ip_map[i]
                          \/ i = find_available_ip
                          \/ HasIp(d) /\ device_map[d].ip = i
    BY <1>3, <2>1, IpsAreNumbers DEF RenewLease, TypeOK
  <2>b. LeaseTo(s, req, find_available_ip)
    BY <1>3 DEF RenewLease
  <2>3. LeaseMoves(s, d, find_available_ip)
    BY <2>1, <2>2, <2>a, <2>b, Zenon DEF LeaseMoves, LeaseTo, Tail
  <2>4. QED
    BY <2>1, <2>3, IpsAreNumbers
<1>4. CASE TakeExpected(s, req)
  <2>1. req.ip \in Net \ {Gateway} /\ device_ip_map[req.ip] = None
    BY <1>4 DEF TakeExpected, ExpectedIsFree
  <2>2. \A i \in Ips : i = OldIp(req) => HasIp(d) /\ device_map[d].ip = i
    BY IpsAreNumbers DEF OldIp, HasIp
  <2>3. Tail(req.ip)
    BY <1>1, <1>4, <2>1 DEF TakeExpected
  <2>a. /\ device_ip_map'[req.ip] = d
        /\ \A i \in Ips : \/ device_ip_map'[i] = device_ip_map[i]
                          \/ i = req.ip
                          \/ HasIp(d) /\ device_map[d].ip = i
    BY <1>4, <2>1, <2>2, IpsAreNumbers DEF TakeExpected
  <2>b. LeaseTo(s, req, req.ip)
    BY <1>4 DEF TakeExpected
  <2>4. LeaseMoves(s, d, req.ip)
    BY <2>1, <2>3, <2>a, <2>b, Zenon DEF LeaseMoves, LeaseTo, Tail
  <2>5. QED
    BY <2>1, <2>4, IpsAreNumbers
<1>5. CASE TakeAvailable(s, req)
  <2>1. find_available_ip \in Net \ {Gateway} /\ device_ip_map[find_available_ip] = None
    BY <1>5, FindAvailableIp DEF TakeAvailable
  <2>2. Tail(find_available_ip)
    BY <1>1, <1>5, <2>1 DEF TakeAvailable
  <2>a. /\ device_ip_map'[find_available_ip] = d
        /\ \A i \in Ips : \/ device_ip_map'[i] = device_ip_map[i]
                          \/ i = find_available_ip
                          \/ HasIp(d) /\ device_map[d].ip = i
    BY <1>5, <2>1, IpsAreNumbers DEF TakeAvailable, TypeOK
  <2>b. LeaseTo(s, req, find_available_ip)
    BY <1>5 DEF TakeAvailable
  <2>3. LeaseMoves(s, d, find_available_ip)
    BY <2>1, <2>2, <2>a, <2>b, Zenon DEF LeaseMoves, LeaseTo, Tail
  <2>4. QED
    BY <2>1, <2>3, IpsAreNumbers
<1>6. QED
  BY <1>2, <1>3, <1>4, <1>5 DEF register

\* A registration keeps the leases consistent.
LEMMA RegisterLease ==
    ASSUME TypeOK, LeaseInv, NEW s \in Sessions, NEW req \in Request,
           register(s, req)
    PROVE  LeaseInv'
<1> USE DEF LeaseInv
<1>1. CASE RefuseLease(s, req)
  BY <1>1 DEF RefuseLease, inner, LeaseIndexed, LeaseInNet, SenderIsLessee, HasIp, Known
<1>2. ASSUME NEW ip \in Ips, LeaseMoves(s, req.device, ip) PROVE LeaseInv'
  <2> DEFINE d == req.device
  <2>0. d \in Devices /\ Net \ {Gateway} \subseteq Ips /\ None \notin Ips
    BY IpsAreNumbers DEF Request
  <2>a. ConnectedEntry(s, ip) # None
    <3>1. ConnectedEntry(s, ip) \in DeviceEntry
      BY DEF TypeOK, ConnectedEntry, DeviceEntry
    <3>2. QED
      BY <3>1, NoneAssumption
  <2>b. /\ device_map'[d] = ConnectedEntry(s, ip)
        /\ \A e \in Devices : e # d => device_map'[e] = device_map[e]
    BY <1>2, <2>0 DEF LeaseMoves, TypeOK
  <2>1. HasIp(d)' /\ device_map'[d].ip = ip /\ device_map'[d].random_id = s
    BY <2>0, <2>a, <2>b DEF ConnectedEntry, HasIp, Known
  <2>2. ASSUME NEW e \in Devices, e # d, HasIp(e)
        PROVE  /\ device_map[e].ip # ip
               /\ device_map[e].ip \in Ips
               /\ device_ip_map'[device_map[e].ip] = e
    <3>1. device_ip_map[device_map[e].ip] = e /\ device_map[e].ip \in Ips
      BY <2>0, <2>2 DEF LeaseIndexed, LeaseInNet
    <3>2. HasIp(d) => device_ip_map[device_map[d].ip] = d
      BY <2>0 DEF LeaseIndexed
    <3>3. QED
      BY <1>2, <2>2, <3>1, <3>2, NoneAssumption DEF LeaseMoves
  <2>3. LeaseIndexed' /\ LeaseInNet'
    BY <1>2, <2>0, <2>b, <2>1, <2>2 DEF LeaseMoves, LeaseIndexed, LeaseInNet, HasIp, Known
  <2>4. SenderIsLessee'
    BY <1>2, <2>0, <2>b, <2>1, <2>2 DEF LeaseMoves, SenderIsLessee, HasIp, Known
  <2>5. QED
    BY <2>3, <2>4
<1>3. QED
  BY <1>1, <1>2, RegisterMoves

\* Devices leave the map together with their addresses: what the sweep, the
\* administrator and the release of a pre-registration have in common.
LEMMA RemovalLease ==
    ASSUME TypeOK, LeaseInv, NEW ids \in SUBSET Devices,
           device_map' = [d \in Devices |-> IF d \in ids THEN None ELSE device_map[d]],
           \A ip \in Ips : device_ip_map'[ip] = device_ip_map[ip]
                           \/ \E d \in ids : HasIp(d) /\ device_map[d].ip = ip,
           \A ip \in Ips : sender_map'[ip] \in {sender_map[ip], None}
    PROVE  LeaseInv'
<1> USE DEF LeaseInv
<1>1. ASSUME NEW e \in Devices, HasIp(e)'
      PROVE  /\ e \notin ids /\ HasIp(e) /\ device_map'[e] = device_map[e]
             /\ device_map[e].ip \in Ips
             /\ device_ip_map'[device_map[e].ip] = e
  <2>1. e \notin ids /\ HasIp(e) /\ device_map'[e] = device_map[e]
    BY <1>1 DEF HasIp, Known
  <2>2. device_map[e].ip \in Ips /\ device_ip_map[device_map[e].ip] = e
    BY <2>1 DEF LeaseIndexed, LeaseInNet, Ips
  <2>3. \A d \in ids : HasIp(d) => device_map[d].ip # device_map[e].ip
    BY <2>1, <2>2 DEF LeaseIndexed
  <2>4. QED
    BY <2>1, <2>2, <2>3
<1>2. LeaseIndexed' /\ LeaseInNet'
  BY <1>1 DEF LeaseIndexed, LeaseInNet
<1>3. SenderIsLessee'
  BY <1>1 DEF SenderIsLessee
<1>4. QED
  BY <1>2, <1>3

\* Every step keeps the leases consistent.
LEMMA StepLease == TypeOK /\ Bound /\ LeaseInv /\ [Next]_vars => LeaseInv'
<1> SUFFICES ASSUME TypeOK, Bound, LeaseInv, [Next]_vars PROVE LeaseInv'
  OBVIOUS
<1> DEFINE Same == UNCHANGED <<device_map, device_ip_map, sender_map>>
<1>0. Same => LeaseInv'
  BY DEF LeaseInv, LeaseIndexed, LeaseInNet, SenderIsLessee, HasIp, Known
<1>1. ASSUME NEW s \in Sessions, NEW req \in Request, register(s, req)
      PROVE  LeaseInv'
  BY <1>1, RegisterLease
<1>2. ASSUME NEW s \in Sessions, confirm_registration(s) PROVE LeaseInv'
  BY <1>0, <1>2 DEF confirm_registration, inner
<1>3. ASSUME NEW s \in Sessions, NEW ok \in BOOLEAN, ConfirmAnswer(s, ok)
      PROVE  LeaseInv'
  BY <1>0, <1>3 DEF ConfirmAnswer, inner
<1>4. ASSUME NEW s \in Sessions, offline_ip(s) PROVE LeaseInv'
  <2>1. CASE ~IsCurrent(s)
    BY <1>0, <1>4, <2>1 DEF offline_ip
  <2>2. CASE IsCurrent(s)
    <3> DEFINE d == session[s].device
    <3>1. d \in Devices /\ session[s].ip \in Ips /\ session[s].ip # None
      BY <1>4, IpsAreNumbers DEF offline_ip, Bound
    <3>2. device_map[d] \in DeviceEntry /\ device_map[d].ip = session[s].ip
      BY <2>2, <3>1 DEF IsCurrent, Known, TypeOK
    <3>3. device_map' = [device_map EXCEPT ![d] =
              [device_map[d] EXCEPT !.is_connected = FALSE, !.lapsed = FALSE,
                                    !.data_version = data_version + 1]]
      BY <1>4, <2>2 DEF offline_ip
    <3>4. /\ device_map'[d].ip = session[s].ip
          /\ \A e \in Devices : e # d => device_map'[e] = device_map[e]
      BY <3>1, <3>2, <3>3 DEF TypeOK, DeviceEntry
    <3>5. \A e \in Devices : HasIp(e)' => /\ HasIp(e)
                                         /\ device_map'[e].ip = device_map[e].ip
      BY <2>2, <3>1, <3>2, <3>4 DEF HasIp, Known, IsCurrent
    <3>6. LeaseIndexed' /\ LeaseInNet'
      BY <1>4, <3>5 DEF LeaseInv, LeaseIndexed, LeaseInNet, offline_ip
    <3>7. sender_map' = [sender_map EXCEPT ![session[s].ip] = None]
      BY <1>4, <2>2 DEF offline_ip
    <3>8. SenderIsLessee'
      <4> SUFFICES ASSUME NEW e \in Devices, HasIp(e)', sender_map'[device_map'[e].ip] # None
                   PROVE  sender_map'[device_map'[e].ip] = device_map'[e].random_id
        BY DEF SenderIsLessee
      <4>1. HasIp(e) /\ device_map'[e].ip = device_map[e].ip /\ device_map[e].ip \in Ips
        BY <3>5, IpsAreNumbers DEF LeaseInv, LeaseInNet
      <4>2. device_map[e].ip # session[s].ip
        BY <3>1, <3>7, <4>1 DEF TypeOK
      <4>3. e # d
        BY <3>2, <4>2
      <4>4. QED
        BY <3>1, <3>4, <3>7, <4>1, <4>2, <4>3 DEF LeaseInv, SenderIsLessee, TypeOK
    <3>9. QED
      BY <3>6, <3>8 DEF LeaseInv
  <2>3. QED
    BY <2>1, <2>2
<1>5. ASSUME NEW s \in Sessions, release_pre_registered_ip(s) PROVE LeaseInv'
  <2>1. CASE ~IsCurrent(s)
    BY <1>0, <1>5, <2>1 DEF release_pre_registered_ip, inner
  <2>2. CASE IsCurrent(s)
    <3> DEFINE d == session[s].device
    <3>1. d \in Devices /\ session[s].ip \in Ips
      BY <1>5 DEF release_pre_registered_ip, Bound
    <3>2. HasIp(d) /\ device_map[d].ip = session[s].ip
      BY <2>2, <3>1, IpsAreNumbers DEF IsCurrent, HasIp
    <3>3. device_map' = [e \in Devices |-> IF e \in {d} THEN None ELSE device_map[e]]
      BY <1>5, <2>2, <3>1 DEF release_pre_registered_ip, TypeOK
    <3>4. \A ip \in Ips : device_ip_map'[ip] = device_ip_map[ip]
                          \/ \E e \in {d} : HasIp(e) /\ device_map[e].ip = ip
      BY <1>5, <2>2, <3>1, <3>2 DEF release_pre_registered_ip, TypeOK
    <3>5. \A ip \in Ips : sender_map'[ip] \in {sender_map[ip], None}
      BY <1>5 DEF release_pre_registered_ip
    <3>6. {d} \in SUBSET Devices
      BY <3>1
    <3> HIDE DEF d
    <3>7. QED
      BY <3>3, <3>4, <3>5, <3>6, RemovalLease
  <2>3. QED
    BY <2>1, <2>2
<1>6. ASSUME NEW s \in Sessions, ReleaseSender(s) PROVE LeaseInv'
  <2>1. \A ip \in Ips : sender_map'[ip] \in {sender_map[ip], None}
    BY <1>6 DEF ReleaseSender, TypeOK
  <2>2. device_map' = [e \in Devices |-> IF e \in {} THEN None ELSE device_map[e]]
    BY <1>6 DEF ReleaseSender, inner, TypeOK
  <2>3. \A ip \in Ips : device_ip_map'[ip] = device_ip_map[ip]
                        \/ \E d \in {} : HasIp(d) /\ device_map[d].ip = ip
    BY <1>6 DEF ReleaseSender, inner
  <2>4. {} \in SUBSET Devices
    OBVIOUS
  <2>5. QED
    BY <2>1, <2>2, <2>3, <2>4, RemovalLease
<1>7. ASSUME NEW d \in Devices, LeaseLapses(d) PROVE LeaseInv'
  <2>1. device_map[d] \in DeviceEntry
    BY <1>7 DEF LeaseLapses, Known, TypeOK
  <2>2. \A e \in Devices : HasIp(e)' =>
          /\ HasIp(e) /\ device_map'[e].ip = device_map[e].ip
          /\ device_map'[e].random_id = device_map[e].random_id
    BY <1>7, <2>1 DEF LeaseLapses, Known, HasIp, TypeOK, DeviceEntry
  <2>3. QED
    BY <1>7, <2>2 DEF LeaseLapses, LeaseInv, LeaseIndexed, LeaseInNet, SenderIsLessee
<1>8. ASSUME NEW d \in Devices, DeleteCheck(d) PROVE LeaseInv'
  BY <1>0, <1>8 DEF DeleteCheck, inner
<1>9. CASE SweepCollect
  BY <1>0, <1>9 DEF SweepCollect, inner
<1>10. CASE SweepRemove
  <2>1. sweep.ids \in SUBSET Devices
    BY DEF TypeOK
  <2>2. \A d \in sweep.ids, ip \in Ips :
          Known(d) /\ device_map[d].ip = ip => HasIp(d)
    BY IpsAreNumbers DEF HasIp
  <2>3. device_map' = [d \in Devices |-> IF d \in sweep.ids THEN None ELSE device_map[d]]
    BY <1>10 DEF SweepRemove, remove_devices
  <2>4. \A ip \in Ips : device_ip_map'[ip] = device_ip_map[ip]
                        \/ \E d \in sweep.ids : HasIp(d) /\ device_map[d].ip = ip
    BY <1>10, <2>2 DEF SweepRemove, remove_devices
  <2>5. \A ip \in Ips : sender_map'[ip] \in {sender_map[ip], None}
    BY <1>10 DEF SweepRemove
  <2>6. QED
    BY <2>1, <2>3, <2>4, <2>5, RemovalLease
<1>11. ASSUME NEW d \in Devices, SweepRelease(d) PROVE LeaseInv'
  BY <1>0, <1>11 DEF SweepRelease, inner
<1>12. CASE remove_device_from_memory
  <2> DEFINE d == admin.device
  <2>1. CASE ~Known(d)
    BY <1>0, <1>12, <2>1 DEF remove_device_from_memory, inner
  <2>2. CASE Known(d)
    <3>1. d \in Devices /\ {d} \in SUBSET Devices
      BY <1>12 DEF remove_device_from_memory, Bound
    <3>2. device_map' = [e \in Devices |-> IF e \in {d} THEN None ELSE device_map[e]]
      BY <1>12, <2>2, <3>1 DEF remove_device_from_memory, TypeOK
    <3>3. \A ip \in Ips : device_ip_map'[ip] = device_ip_map[ip]
                          \/ \E e \in {d} : HasIp(e) /\ device_map[e].ip = ip
      BY <1>12, <2>2, <3>1 DEF remove_device_from_memory, TypeOK, HasIp
    <3>4. \A ip \in Ips : sender_map'[ip] \in {sender_map[ip], None}
      BY <1>12, <2>2, <3>1 DEF remove_device_from_memory, TypeOK
    <3> HIDE DEF d
    <3>5. QED
      BY <3>1, <3>2, <3>3, <3>4, RemovalLease
  <2>3. QED
    BY <2>1, <2>2
<1>13. CASE DeleteRow
  BY <1>0, <1>13 DEF DeleteRow, inner
<1>14. CASE UNCHANGED vars
  BY <1>0, <1>14 DEF vars
<1>15. QED
  BY <1>1, <1>2, <1>3, <1>4, <1>5, <1>6, <1>7, <1>8, <1>9, <1>10, <1>11,
     <1>12, <1>13, <1>14 DEF Next, Drop, Sweep

\* A network loaded from rows without a conflict starts consistent.
LEMMA InitLease == Init => LeaseInv
<1> SUFFICES ASSUME NEW rows \in InitRows, LoadedFrom(rows) PROVE LeaseInv
  BY DEF Init
<1>1. rows \in OrderlyRows
  BY RowsAssumption
<1>2. ASSUME NEW d \in Devices, HasIp(d)
      PROVE  /\ rows[d] # None /\ device_map[d].ip = rows[d].ip
             /\ rows[d].ip \in Net \ {Gateway}
  BY <1>1, <1>2 DEF LoadedFrom, DeviceMapOf, DeviceEntryFromRecord, HasIp, Known, OrderlyRows
<1>3. ASSUME NEW d \in Devices, HasIp(d) PROVE device_ip_map[device_map[d].ip] = d
  <2> DEFINE ip == rows[d].ip
  <2>1. ip \in Ips /\ ip \in Net \ {Gateway} /\ ip # None
    BY <1>2, <1>3, IpsAreNumbers
  <2>2. d \in Claimants(rows, ip) /\ \A e \in Claimants(rows, ip) : e = d
    BY <1>1, <1>2, <1>3, <2>1 DEF Claimants, OrderlyRows
  <2>3. device_ip_map[ip] \in Claimants(rows, ip)
    BY <2>1, <2>2 DEF LoadedFrom, IpMapsOf
  <2>4. QED
    BY <1>2, <1>3, <2>2, <2>3
<1>4. \A ip \in Ips : sender_map[ip] = None
  BY DEF LoadedFrom
<1>5. QED
  BY <1>2, <1>3, <1>4, IpsAreNumbers DEF LeaseInv, LeaseIndexed, LeaseInNet, SenderIsLessee

\* The leases and the maps over them agree in every state.
LEMMA SpecLeaseInv == Spec => []LeaseInv
<1>1. Init => TypeOK /\ Bound /\ LeaseInv
  BY InitType, InitLease
<1>2. TypeOK /\ Bound /\ LeaseInv /\ [Next]_vars => TypeOK' /\ Bound' /\ LeaseInv'
  BY StepType, StepLease
<1>3. QED
  BY <1>1, <1>2, PTL DEF Spec

\* No two devices of a network hold the same address, for any number of
\* devices and sessions and any subnet: allocate_ip, offline_ip, the sweep,
\* deletions and releases in any order keep it so within one lifetime.
THEOREM LeasesAreUnique == Spec => []UniqueLease
<1>1. LeaseInv => UniqueLease
  BY DEF LeaseInv, LeaseIndexed, UniqueLease
<1>2. QED
  BY <1>1, SpecLeaseInv, PTL

\* Frames for a leased address go to the session that holds it or nowhere.
THEOREM SendersAreLessees == Spec => []SenderIsLessee
<1>1. LeaseInv => SenderIsLessee
  BY DEF LeaseInv
<1>2. QED
  BY <1>1, SpecLeaseInv, PTL

\* Neither the gateway's address nor one outside the subnet is ever leased.
THEOREM LeasesAreInNet == Spec => []LeaseInNet
<1>1. LeaseInv => LeaseInNet
  BY DEF LeaseInv
<1>2. QED
  BY <1>1, SpecLeaseInv, PTL

-----------------------------------------------------------------------------
\* What a registration does to devices and sessions, also where the index of
\* addresses is not in order.
LeaseGoesTo(s, d, ip) ==
    /\ ip \in Net \ {Gateway}
    /\ device_map' = [device_map EXCEPT ![d] = ConnectedEntry(s, ip)]
    /\ session'[s].device = d /\ session'[s].ip = ip
    /\ session'[s].status \in {"pending", "confirmed"}
    /\ \A t \in Sessions : t # s => session'[t] = session[t]

\* A registration is refused, or gives its device an address of the subnet.
LEMMA RegisterServes ==
    ASSUME TypeOK, LeaseInNet, NEW s \in Sessions, NEW req \in Request, register(s, req)
    PROVE  RefuseLease(s, req) \/ \E ip \in Ips : LeaseGoesTo(s, req.device, ip)
<1> DEFINE d == req.device
<1>1. ASSUME NEW ip \in Net \ {Gateway}, NEW old, LeaseTo(s, req, ip),
             Registered(s, req, ip, old)
      PROVE  LeaseGoesTo(s, d, ip) /\ ip \in Ips
  BY <1>1, IpsAreNumbers DEF LeaseTo, Registered, LeaseGoesTo, TypeOK
<1>2. CASE ReuseLease(s, req)
  <2>1. HasIp(d) /\ OldIp(req) = device_map[d].ip
    BY <1>2 DEF ReuseLease, IpMatches, OldIp, HasIp
  <2>2. OldIp(req) \in Net \ {Gateway}
    BY <2>1 DEF LeaseInNet, Request
  <2>3. QED
    BY <1>1, <1>2, <2>2 DEF ReuseLease
<1>3. CASE RenewLease(s, req)
  BY <1>1, <1>3, FindAvailableIp DEF RenewLease
<1>4. CASE TakeExpected(s, req)
  BY <1>1, <1>4 DEF TakeExpected, ExpectedIsFree
<1>5. CASE TakeAvailable(s, req)
  BY <1>1, <1>5, FindAvailableIp DEF TakeAvailable
<1>6. QED
  BY <1>2, <1>3, <1>4, <1>5 DEF register

\* Every step keeps the tie between a connected device and its session.
LEMMA StepConnected ==
    TypeOK /\ Bound /\ LeaseInNet /\ ConnectedHasSession /\ [Next]_vars
        => ConnectedHasSession'
<1> SUFFICES ASSUME TypeOK, Bound, LeaseInNet, ConnectedHasSession, [Next]_vars
             PROVE  ConnectedHasSession'
  OBVIOUS
\* Enough: every device connected afterwards was connected by the same
\* session before, at the same address, and that session is still live.
<1> DEFINE Kept(e) ==
      LET r == device_map[e].random_id
      IN /\ Known(e) /\ device_map[e].is_connected
         /\ device_map'[e].random_id = r /\ device_map'[e].ip = device_map[e].ip
         /\ session'[r].status \in {"pending", "confirming", "confirmed"}
         /\ session'[r].device = session[r].device
         /\ session'[r].ip = session[r].ip
<1>0. ASSUME NEW e \in Devices, Known(e), device_map[e].is_connected
      PROVE  /\ device_map[e].random_id \in Sessions
             /\ session[device_map[e].random_id].status
                   \in {"pending", "confirming", "confirmed"}
             /\ session[device_map[e].random_id].device = e
             /\ session[device_map[e].random_id].ip = device_map[e].ip
  BY <1>0 DEF ConnectedHasSession
<1>a. ASSUME \A e \in Devices : device_map'[e] # None /\ device_map'[e].is_connected
                => Kept(e)
      PROVE  ConnectedHasSession'
  BY <1>0, <1>a DEF ConnectedHasSession, Known
<1>b. ASSUME UNCHANGED session,
             \A e \in Devices : device_map'[e] \in {device_map[e], None}
      PROVE  ConnectedHasSession'
  BY <1>0, <1>b DEF ConnectedHasSession, Known
<1>1. ASSUME NEW s \in Sessions, NEW req \in Request, register(s, req)
      PROVE  ConnectedHasSession'
  <2>0. session[s].status = "new"
    BY <1>1 DEF register
  <2>1. CASE RefuseLease(s, req)
    BY <1>0, <1>a, <2>0, <2>1 DEF RefuseLease, inner, Known, TypeOK
  <2>2. ASSUME NEW ip \in Ips, LeaseGoesTo(s, req.device, ip)
        PROVE  ConnectedHasSession'
    <3> DEFINE d == req.device
    <3>1. d \in Devices
      BY DEF Request
    <3>2. /\ device_map'[d] = ConnectedEntry(s, ip)
          /\ \A e \in Devices : e # d => device_map'[e] = device_map[e]
      BY <2>2, <3>1 DEF LeaseGoesTo, TypeOK
    <3>3. ASSUME NEW e \in Devices, e # d, Known(e)', device_map'[e].is_connected
          PROVE  LET r == device_map'[e].random_id
                 IN /\ r \in Sessions
                    /\ session'[r].status \in {"pending", "confirming", "confirmed"}
                    /\ session'[r].device = e
                    /\ session'[r].ip = device_map'[e].ip
      <4>1. device_map'[e] = device_map[e] /\ Known(e)
        BY <3>2, <3>3 DEF Known
      <4>2. device_map[e].random_id # s
        BY <1>0, <2>0, <3>3, <4>1
      <4>3. QED
        BY <1>0, <2>2, <3>3, <4>1, <4>2 DEF LeaseGoesTo
    <3>4. LET r == device_map'[d].random_id
          IN /\ r \in Sessions
             /\ session'[r].status \in {"pending", "confirming", "confirmed"}
             /\ session'[r].device = d
             /\ session'[r].ip = device_map'[d].ip
      BY <2>2, <3>2 DEF LeaseGoesTo, ConnectedEntry
    <3>5. QED
      BY <3>3, <3>4 DEF ConnectedHasSession
  <2>3. QED
    BY <1>1, <2>1, <2>2, RegisterServes
<1>2. ASSUME NEW s \in Sessions, confirm_registration(s) PROVE ConnectedHasSession'
  BY <1>0, <1>2, <1>a DEF confirm_registration, inner, Known, TypeOK, SessionState
<1>3. ASSUME NEW s \in Sessions, NEW ok \in BOOLEAN, ConfirmAnswer(s, ok)
      PROVE  ConnectedHasSession'
  BY <1>0, <1>3, <1>a DEF ConfirmAnswer, inner, Known, TypeOK, SessionState
<1>4. ASSUME NEW s \in Sessions, offline_ip(s) PROVE ConnectedHasSession'
  <2> DEFINE d == session[s].device
  <2>1. \A r \in Sessions : r # s => session'[r] = session[r]
    BY <1>4 DEF offline_ip, TypeOK
  <2>2. d \in Devices
    BY <1>4 DEF offline_ip, Bound
  <2>3. \A e \in Devices : e # d => device_map'[e] = device_map[e]
    BY <1>4, <2>2 DEF offline_ip, TypeOK
  <2>4. ASSUME IsCurrent(s) PROVE device_map'[d].is_connected = FALSE
    <3>1. device_map[d] \in DeviceEntry
      BY <2>2, <2>4 DEF IsCurrent, Known, TypeOK
    <3>2. device_map' = [device_map EXCEPT ![d] =
            [device_map[d] EXCEPT !.is_connected = FALSE, !.lapsed = FALSE,
                                  !.data_version = data_version + 1]]
      BY <1>4, <2>4 DEF offline_ip
    <3>3. QED
      BY <2>2, <3>1, <3>2 DEF TypeOK, DeviceEntry
  <2>5. ASSUME NEW e \in Devices, device_map'[e] # None, device_map'[e].is_connected
        PROVE  Kept(e)
    <3>1. CASE IsCurrent(s)
      <4>3. e # d /\ device_map'[e] = device_map[e]
        BY <2>3, <2>4, <2>5, <3>1
      <4>4. device_map[e].random_id # s
        BY <1>0, <2>5, <4>3 DEF Known
      <4>5. QED
        BY <1>0, <2>1, <2>5, <4>3, <4>4 DEF Known
    <3>2. CASE ~IsCurrent(s)
      <4>1. device_map' = device_map
        BY <1>4, <3>2 DEF offline_ip
      <4>2. device_map[e].random_id # s
        BY <1>0, <2>5, <3>2, <4>1 DEF IsCurrent, Known
      <4>3. QED
        BY <1>0, <2>1, <2>5, <4>1, <4>2 DEF Known
    <3>3. QED
      BY <3>1, <3>2
  <2>6. QED
    BY <1>a, <2>5
<1>5. ASSUME NEW s \in Sessions, release_pre_registered_ip(s) PROVE ConnectedHasSession'
  <2> DEFINE d == session[s].device
  <2>1. \A r \in Sessions : r # s => session'[r] = session[r]
    BY <1>5 DEF release_pre_registered_ip, TypeOK
  <2>2. d \in Devices
    BY <1>5 DEF release_pre_registered_ip, Bound
  <2>3. ASSUME NEW e \in Devices, device_map'[e] # None, device_map'[e].is_connected
        PROVE  Kept(e)
    <3>1. device_map'[e] = device_map[e] /\ (IsCurrent(s) => e # d)
      BY <1>5, <2>2, <2>3 DEF release_pre_registered_ip, inner, TypeOK
    <3>2. device_map[e].random_id # s
      BY <1>0, <2>3, <3>1 DEF IsCurrent, Known
    <3>3. QED
      BY <1>0, <2>1, <2>3, <3>1, <3>2 DEF Known
  <2>4. QED
    BY <1>a, <2>3
<1>6. ASSUME NEW s \in Sessions, ReleaseSender(s) PROVE ConnectedHasSession'
  BY <1>0, <1>6, <1>a DEF ReleaseSender, inner, Known, TypeOK
<1>7. ASSUME NEW d \in Devices, LeaseLapses(d) PROVE ConnectedHasSession'
  <2>1. device_map[d] \in DeviceEntry
    BY <1>7 DEF LeaseLapses, Known, TypeOK
  <2>2. device_map'[d].is_connected = FALSE
        /\ \A e \in Devices : e # d => device_map'[e] = device_map[e]
    BY <1>7, <2>1 DEF LeaseLapses, TypeOK, DeviceEntry
  <2>3. QED
    BY <1>0, <1>7, <1>a, <2>2 DEF LeaseLapses, Known
<1>8. ASSUME NEW d \in Devices, DeleteCheck(d) PROVE ConnectedHasSession'
  BY <1>8, <1>b DEF DeleteCheck, inner
<1>9. CASE SweepCollect
  BY <1>9, <1>b DEF SweepCollect, inner
<1>10. CASE SweepRemove
  BY <1>10, <1>b DEF SweepRemove, remove_devices
<1>11. ASSUME NEW d \in Devices, SweepRelease(d) PROVE ConnectedHasSession'
  BY <1>11, <1>b DEF SweepRelease, inner
<1>12. CASE remove_device_from_memory
  <2>1. \A e \in Devices : device_map'[e] \in {device_map[e], None}
    BY <1>12 DEF remove_device_from_memory, inner, TypeOK
  <2>2. QED
    BY <1>12, <1>b, <2>1 DEF remove_device_from_memory
<1>13. CASE DeleteRow
  BY <1>13, <1>b DEF DeleteRow, inner
<1>14. CASE UNCHANGED vars
  BY <1>14, <1>b DEF vars
<1>15. QED
  BY <1>1, <1>2, <1>3, <1>4, <1>5, <1>6, <1>7, <1>8, <1>9, <1>10, <1>11,
     <1>12, <1>13, <1>14 DEF Next, Drop, Sweep

\* A device shown as connected always has a live session for its address.
THEOREM ConnectedDevicesAreServed == Spec => []ConnectedHasSession
<1>1. Init => ConnectedHasSession
  BY DEF Init, LoadedFrom, DeviceMapOf, DeviceEntryFromRecord, ConnectedHasSession, Known
<1>2. Init => TypeOK /\ Bound /\ LeaseInv
  BY InitType, InitLease
<1>3. TypeOK /\ Bound /\ LeaseInv /\ [Next]_vars => TypeOK' /\ Bound' /\ LeaseInv'
  BY StepType, StepLease
<1>4. LeaseInv => LeaseInNet
  BY DEF LeaseInv
<1>5. QED
  BY <1>1, <1>2, <1>3, <1>4, StepConnected, PTL DEF Spec

\* A step that forgets devices is a removal from the published list.
LEMMA Removes ==
    ASSUME NEW ds \in SUBSET Devices, data_version' = data_version + 1,
           device_map' = [d \in Devices |-> IF d \in ds THEN None
                                            ELSE device_map[d]]
    PROVE  Published!Next
<1>1. PublishedList' = Published!Removed(PublishedList, ds)
  BY DEF PublishedList, HasIp, Known, Published!Removed
<1>2. QED
  BY <1>1 DEF Published!Next, Published!Remove

\* A step that renews the entry of one device and keeps the leases apart is
\* a renewal of the published list.
LEMMA Renews ==
    ASSUME TypeOK, TypeOK', LeaseInv', NEW d \in Devices, NEW ip \in Ips,
           NEW on \in BOOLEAN, data_version' = data_version + 1,
           device_map'[d] # None, device_map'[d].ip = ip,
           device_map'[d].is_connected = on,
           device_map'[d].data_version = data_version + 1,
           \A e \in Devices \ {d} : device_map'[e] = device_map[e]
    PROVE  Published!Next
<1>1. ip # None
  BY IpsAreNumbers
<1>2. HasIp(d)'
  BY <1>1 DEF HasIp, Known
<1>3. ASSUME NEW e \in Devices \ {d}, HasIp(e) PROVE device_map[e].ip # ip
  <2>1. HasIp(e)' /\ device_map'[e].ip = device_map[e].ip
    BY <1>3 DEF HasIp, Known
  <2>2. device_ip_map'[device_map'[e].ip] = e /\ device_ip_map'[ip] = d
    BY <1>2, <2>1 DEF LeaseInv, LeaseIndexed
  <2>3. QED
    BY <2>1, <2>2
<1>4. Published!FreeFor(PublishedList, d, ip)
  <2> SUFFICES ASSUME NEW e \in Devices \ {d}, PublishedList[e] # None
               PROVE  PublishedList[e].ip # ip
    BY DEF Published!FreeFor
  <2>1. HasIp(e)
    BY DEF PublishedList
  <2>2. QED
    BY <1>3, <2>1 DEF PublishedList
<1>5. PublishedList' = Published!Renewed(PublishedList, data_version, d, ip, on)
  <2>1. ASSUME NEW e \in Devices \ {d} PROVE PublishedList'[e] = PublishedList[e]
    BY DEF PublishedList, HasIp, Known
  <2>2. PublishedList'[d] = [ip |-> ip, online |-> on,
                             data_version |-> data_version + 1]
    BY <1>2 DEF PublishedList
  <2>3. QED
    BY <2>1, <2>2 DEF PublishedList, Published!Renewed
<1>6. QED
  BY <1>4, <1>5 DEF Published!Next, Published!Renew

\* A step of a network is a step of the published list, or leaves it alone.
LEMMA StepPublish ==
    ASSUME TypeOK, Bound, LeaseInv, TypeOK', LeaseInv', [Next]_vars
    PROVE  [Published!Next]_(Published!listVars)
<1> DEFINE Goal == Published!Next \/ UNCHANGED <<PublishedList, data_version>>
<1> SUFFICES Goal
  BY DEF Published!listVars
<1>0. UNCHANGED <<device_map, data_version>> => Goal
  BY DEF PublishedList, HasIp, Known
<1>s. CASE UNCHANGED vars
  BY <1>0, <1>s DEF vars
<1>1. ASSUME NEW s \in Sessions, NEW req \in Request, register(s, req)
      PROVE  Goal
  <2>1. CASE RefuseLease(s, req)
    BY <1>0, <2>1 DEF RefuseLease, inner
  <2>2. ASSUME NEW ip \in Ips, LeaseMoves(s, req.device, ip) PROVE Goal
    <3> DEFINE d == req.device
    <3>1. d \in Devices /\ device_map'[d] = ConnectedEntry(s, ip)
          /\ \A e \in Devices \ {d} : device_map'[e] = device_map[e]
      BY <2>2 DEF LeaseMoves, TypeOK, Request
    <3>2. data_version' = data_version + 1
      BY <2>2 DEF LeaseMoves
    <3>3. ConnectedEntry(s, ip) \in DeviceEntry
          /\ ConnectedEntry(s, ip).ip = ip
          /\ ConnectedEntry(s, ip).is_connected = TRUE
          /\ ConnectedEntry(s, ip).data_version = data_version + 1
      BY DEF ConnectedEntry, DeviceEntry, TypeOK
    <3>4. device_map'[d] # None
      BY <3>1, <3>3, NoneAssumption
    <3> HIDE DEF d
    <3>5. QED
      BY <3>1, <3>2, <3>3, <3>4, Renews
  <2>3. QED
    BY <1>1, <2>1, <2>2, RegisterMoves DEF LeaseInv
<1>2. ASSUME NEW s \in Sessions, confirm_registration(s) PROVE Goal
  BY <1>0, <1>2 DEF confirm_registration, inner
<1>3. ASSUME NEW s \in Sessions, NEW ok \in BOOLEAN, ConfirmAnswer(s, ok)
      PROVE  Goal
  BY <1>0, <1>3 DEF ConfirmAnswer, inner
<1>4. ASSUME NEW s \in Sessions, offline_ip(s) PROVE Goal
  <2> DEFINE d == session[s].device
             ip == session[s].ip
  <2>1. CASE ~IsCurrent(s)
    BY <1>0, <1>4, <2>1 DEF offline_ip
  <2>2. CASE IsCurrent(s)
    <3>1. d \in Devices /\ ip \in Ips
      BY <1>4 DEF offline_ip, Bound
    <3>2. device_map[d] \in DeviceEntry /\ device_map[d].ip = ip
      BY <2>2, <3>1 DEF IsCurrent, Known, TypeOK
    <3> DEFINE e == [device_map[d] EXCEPT !.is_connected = FALSE,
                        !.lapsed = FALSE, !.data_version = data_version + 1]
    <3>3. device_map' = [device_map EXCEPT ![d] = e]
          /\ data_version' = data_version + 1
      BY <1>4, <2>2 DEF offline_ip
    <3>4. e \in DeviceEntry /\ e.ip = ip /\ e.is_connected = FALSE
          /\ e.data_version = data_version + 1
      <4> HIDE DEF d, ip
      <4>1. data_version + 1 \in Nat
        BY DEF TypeOK
      <4>2. QED
        BY <3>2, <4>1 DEF DeviceEntry
    <3>5. device_map'[d] = e
          /\ \A x \in Devices \ {d} : device_map'[x] = device_map[x]
      BY <3>1, <3>3 DEF TypeOK
    <3>6. e # None
      BY <3>4, NoneAssumption
    <3> HIDE DEF d, e, ip
    <3>7. QED
      BY <3>1, <3>3, <3>4, <3>5, <3>6, Renews
  <2>3. QED
    BY <2>1, <2>2
<1>5. ASSUME NEW s \in Sessions, release_pre_registered_ip(s) PROVE Goal
  <2>1. CASE IsCurrent(s)
    <3>1. device_map' = [d \in Devices |-> IF d \in {session[s].device} THEN None
                                           ELSE device_map[d]]
          /\ data_version' = data_version + 1
      BY <1>5, <2>1 DEF release_pre_registered_ip, TypeOK
    <3>2. {session[s].device} \in SUBSET Devices
      BY <1>5 DEF release_pre_registered_ip, Bound
    <3>3. QED
      BY <3>1, <3>2, Removes
  <2>2. CASE ~IsCurrent(s)
    BY <1>0, <1>5, <2>2 DEF release_pre_registered_ip, inner
  <2>3. QED
    BY <2>1, <2>2
<1>6. ASSUME NEW s \in Sessions, ReleaseSender(s) PROVE Goal
  BY <1>0, <1>6 DEF ReleaseSender, inner
<1>7. ASSUME NEW d \in Devices, LeaseLapses(d) PROVE Goal
  <2>1. device_map[d] \in DeviceEntry
    BY <1>7 DEF LeaseLapses, Known, TypeOK
  <2> DEFINE e == [device_map[d] EXCEPT !.lapsed = TRUE]
  <2>2. e \in DeviceEntry /\ e.ip = device_map[d].ip
        /\ e.is_connected = device_map[d].is_connected
        /\ e.data_version = device_map[d].data_version
    BY <2>1 DEF DeviceEntry
  <2>3. device_map'[d] = e /\ \A x \in Devices : x # d => device_map'[x] = device_map[x]
    BY <1>7 DEF LeaseLapses, TypeOK
  <2>4. e # None /\ device_map[d] # None
    BY <2>1, <2>2, NoneAssumption
  <2> HIDE DEF e
  <2>5. PublishedList'[d] = PublishedList[d]
    BY <2>2, <2>3, <2>4 DEF PublishedList, HasIp, Known
  <2>6. \A x \in Devices : x # d => PublishedList'[x] = PublishedList[x]
    BY <2>3 DEF PublishedList, HasIp, Known
  <2>7. PublishedList' = PublishedList
    BY <2>5, <2>6 DEF PublishedList
  <2>8. QED
    BY <1>7, <2>7 DEF LeaseLapses
<1>8. ASSUME NEW d \in Devices, DeleteCheck(d) PROVE Goal
  BY <1>0, <1>8 DEF DeleteCheck, inner
<1>9. CASE SweepCollect
  BY <1>0, <1>9 DEF SweepCollect, inner
<1>10. CASE SweepRemove
  <2>1. sweep.ids \in SUBSET Devices
    BY DEF TypeOK
  <2>2. QED
    BY <1>10, <2>1, Removes DEF SweepRemove, remove_devices
<1>11. ASSUME NEW d \in Devices, SweepRelease(d) PROVE Goal
  BY <1>0, <1>11 DEF SweepRelease, inner
<1>12. CASE remove_device_from_memory
  <2>1. CASE Known(admin.device)
    <3>1. device_map' = [d \in Devices |-> IF d \in {admin.device} THEN None
                                           ELSE device_map[d]]
          /\ data_version' = data_version + 1
      BY <1>12, <2>1 DEF remove_device_from_memory, TypeOK
    <3>2. {admin.device} \in SUBSET Devices
      BY <1>12 DEF remove_device_from_memory, Bound
    <3>3. QED
      BY <3>1, <3>2, Removes
  <2>2. CASE ~Known(admin.device)
    BY <1>0, <1>12, <2>2 DEF remove_device_from_memory, inner
  <2>3. QED
    BY <2>1, <2>2
<1>13. CASE DeleteRow
  BY <1>0, <1>13 DEF DeleteRow, inner
<1>14. QED
  BY <1>s, <1>1, <1>2, <1>3, <1>4, <1>5, <1>6, <1>7, <1>8, <1>9, <1>10, <1>11,
     <1>12, <1>13 DEF Next, Drop, Sweep

\* The list a network starts with is one the abstract list may start with.
LEMMA InitPublish == Init => Published!Init
<1> SUFFICES ASSUME NEW rows \in InitRows, LoadedFrom(rows) PROVE Published!Init
  BY DEF Init
<1>1. rows \in [Devices -> DeviceRecord \cup {None}]
      /\ \A d, e \in Devices : /\ d # e /\ rows[d] # None /\ rows[e] # None
                               /\ rows[d].ip # None
                               => rows[d].ip # rows[e].ip
  BY RowsAssumption, Zenon DEF OrderlyRows
<1>2. ASSUME NEW d \in Devices, HasIp(d)
      PROVE  /\ rows[d] # None /\ rows[d].ip # None /\ rows[d].ip \in Ips
             /\ PublishedList[d] = [ip |-> rows[d].ip, online |-> FALSE,
                                    data_version |-> 0]
  BY <1>1, <1>2 DEF LoadedFrom, DeviceMapOf, DeviceEntryFromRecord, HasIp, Known,
                    PublishedList, DeviceRecord
<1>3. \A d \in Devices : ~HasIp(d) => PublishedList[d] = None
  BY DEF PublishedList
<1>4. PublishedList \in
        [Devices -> [ip : Ips, online : {FALSE}, data_version : {0}] \cup {None}]
  <2>1. ASSUME NEW d \in Devices
        PROVE  PublishedList[d] \in
                 [ip : Ips, online : {FALSE}, data_version : {0}] \cup {None}
    <3>1. CASE HasIp(d)
      <4>1. PublishedList[d] = [ip |-> rows[d].ip, online |-> FALSE,
                                data_version |-> 0] /\ rows[d].ip \in Ips
        BY <1>2, <3>1
      <4>2. QED
        BY <4>1
    <3>2. QED
      BY <1>3, <3>1
  <2>2. QED
    BY <2>1 DEF PublishedList
<1>5. ASSUME NEW d \in Devices, PublishedList[d] # None
      PROVE  Published!FreeFor(PublishedList, d, PublishedList[d].ip)
  <2>1. HasIp(d)
    BY <1>3, <1>5
  <2>2. ASSUME NEW e \in Devices \ {d}, PublishedList[e] # None
        PROVE  PublishedList[e].ip # PublishedList[d].ip
    <3>1. HasIp(e)
      BY <1>3, <2>2
    <3>2. /\ PublishedList[e].ip = rows[e].ip /\ rows[e] # None
          /\ PublishedList[d].ip = rows[d].ip /\ rows[d] # None
          /\ rows[d].ip # None
      <4>1. \A x \in Devices : HasIp(x) => /\ PublishedList[x].ip = rows[x].ip
                                           /\ rows[x] # None /\ rows[x].ip # None
        BY <1>1 DEF LoadedFrom, DeviceMapOf, DeviceEntryFromRecord, HasIp, Known,
                    PublishedList, DeviceRecord
      <4>2. QED
        BY <2>1, <3>1, <4>1
    <3>3. QED
      BY <1>1, <3>2
  <2>3. QED
    BY <2>2 DEF Published!FreeFor
<1>6. QED
  BY <1>4, <1>5 DEF Published!Init, Published!LoadedLists, LoadedFrom

\* Refinement: the leases implement the device list the clients synchronise
\* with; the initial states map to its initial states and every step to a
\* renewal, a removal or a stutter.
THEOREM LeasesImplementDeviceList == Spec => ImplementsDeviceList
<1>1. Init => TypeOK /\ Bound /\ LeaseInv
  BY InitType, InitLease
<1>2. TypeOK /\ Bound /\ LeaseInv /\ [Next]_vars => TypeOK' /\ Bound' /\ LeaseInv'
  BY StepType, StepLease
<1>3. TypeOK /\ Bound /\ LeaseInv /\ TypeOK' /\ LeaseInv' /\ [Next]_vars
        => [Published!Next]_(Published!listVars)
  BY StepPublish
<1>4. QED
  BY <1>1, <1>2, <1>3, InitPublish, PTL DEF Spec, ImplementsDeviceList, Published!Spec

-----------------------------------------------------------------------------
\* The address a session was given stays one of the subnet for as long as
\* the session may come back to it: Drop and the spawned writes use it.
SessionsInNet ==
    \A s \in Sessions :
        session[s].status \in {"pending", "confirming", "confirmed", "releasing"}
        => session[s].ip \in Net \ {Gateway}

\* Every step keeps the addresses of devices and sessions in the subnet.
LEMMA StepInNet ==
    TypeOK /\ Bound /\ LeaseInNet /\ SessionsInNet /\ [Next]_vars
        => LeaseInNet' /\ SessionsInNet'
<1> SUFFICES ASSUME TypeOK, Bound, LeaseInNet, SessionsInNet, [Next]_vars
             PROVE  LeaseInNet' /\ SessionsInNet'
  OBVIOUS
<1> DEFINE Live == {"pending", "confirming", "confirmed", "releasing"}
\* Enough: entries keep their address or go, sessions keep theirs or end.
<1>a. ASSUME \A e \in Devices : device_map'[e] # None
                => device_map[e] # None /\ device_map'[e].ip = device_map[e].ip
      PROVE  LeaseInNet'
  BY <1>a DEF LeaseInNet, HasIp, Known
<1>b. ASSUME \A r \in Sessions : session'[r].status \in Live
                => session[r].status \in Live /\ session'[r].ip = session[r].ip
      PROVE  SessionsInNet'
  BY <1>b DEF SessionsInNet
<1>c. UNCHANGED device_map => LeaseInNet'
  BY DEF LeaseInNet, HasIp, Known
<1>d. UNCHANGED session => SessionsInNet'
  BY DEF SessionsInNet
<1>1. ASSUME NEW s \in Sessions, NEW req \in Request, register(s, req)
      PROVE  LeaseInNet' /\ SessionsInNet'
  <2>1. CASE RefuseLease(s, req)
    BY <2>1, <1>b, <1>c DEF RefuseLease, inner, TypeOK, Closed
  <2>2. ASSUME NEW ip \in Ips, LeaseGoesTo(s, req.device, ip)
        PROVE  LeaseInNet' /\ SessionsInNet'
    <3>1. req.device \in Devices
      BY DEF Request
    <3>2. LeaseInNet'
      BY <2>2, <3>1 DEF LeaseGoesTo, ConnectedEntry, LeaseInNet, HasIp, Known, TypeOK
    <3>3. SessionsInNet'
      BY <2>2 DEF LeaseGoesTo, SessionsInNet
    <3>4. QED
      BY <3>2, <3>3
  <2>3. QED
    BY <1>1, <2>1, <2>2, RegisterServes
<1>2. ASSUME NEW s \in Sessions, confirm_registration(s)
      PROVE  LeaseInNet' /\ SessionsInNet'
  BY <1>2, <1>b, <1>c DEF confirm_registration, inner, TypeOK, SessionState
<1>3. ASSUME NEW s \in Sessions, NEW ok \in BOOLEAN, ConfirmAnswer(s, ok)
      PROVE  LeaseInNet' /\ SessionsInNet'
  BY <1>3, <1>b, <1>c DEF ConfirmAnswer, inner, TypeOK, SessionState
<1>4. ASSUME NEW s \in Sessions, offline_ip(s) PROVE LeaseInNet' /\ SessionsInNet'
  <2> DEFINE d == session[s].device
  <2>1. SessionsInNet'
    BY <1>4, <1>b DEF offline_ip, TypeOK, Closed
  <2>2. CASE IsCurrent(s)
    <3>1. d \in Devices /\ device_map[d] \in DeviceEntry
      BY <1>4, <2>2 DEF offline_ip, Bound, IsCurrent, Known, TypeOK
    <3>2. device_map' = [device_map EXCEPT ![d] =
            [device_map[d] EXCEPT !.is_connected = FALSE, !.lapsed = FALSE,
                                  !.data_version = data_version + 1]]
      BY <1>4, <2>2 DEF offline_ip
    <3>3. /\ \A e \in Devices : e # d => device_map'[e] = device_map[e]
          /\ device_map'[d].ip = device_map[d].ip /\ device_map[d] # None
      BY <2>2, <3>1, <3>2 DEF TypeOK, DeviceEntry, IsCurrent, Known
    <3> HIDE DEF d
    <3>4. QED
      BY <1>a, <2>1, <3>3
  <2>3. CASE ~IsCurrent(s)
    BY <1>4, <1>c, <2>1, <2>3 DEF offline_ip
  <2>4. QED
    BY <2>2, <2>3
<1>5. ASSUME NEW s \in Sessions, release_pre_registered_ip(s)
      PROVE  LeaseInNet' /\ SessionsInNet'
  <2>1. \A e \in Devices : device_map'[e] \in {device_map[e], None}
    BY <1>5 DEF release_pre_registered_ip, inner, TypeOK
  <2>2. SessionsInNet'
    BY <1>5, <1>b DEF release_pre_registered_ip, TypeOK, SessionState, Closed
  <2>3. QED
    BY <1>a, <2>1, <2>2
<1>6. ASSUME NEW s \in Sessions, ReleaseSender(s) PROVE LeaseInNet' /\ SessionsInNet'
  BY <1>6, <1>b, <1>c DEF ReleaseSender, inner, TypeOK, Closed
<1>7. ASSUME NEW d \in Devices, LeaseLapses(d) PROVE LeaseInNet' /\ SessionsInNet'
  <2>1. device_map[d] \in DeviceEntry
    BY <1>7 DEF LeaseLapses, Known, TypeOK
  <2>2. device_map'[d].ip = device_map[d].ip /\ device_map[d] # None
        /\ \A e \in Devices : e # d => device_map'[e] = device_map[e]
    BY <1>7, <2>1 DEF LeaseLapses, TypeOK, DeviceEntry, Known
  <2>3. QED
    BY <1>7, <1>a, <1>d, <2>2 DEF LeaseLapses
<1>8. ASSUME NEW d \in Devices, DeleteCheck(d) PROVE LeaseInNet' /\ SessionsInNet'
  BY <1>8, <1>c, <1>d DEF DeleteCheck, inner
<1>9. CASE SweepCollect
  BY <1>9, <1>c, <1>d DEF SweepCollect, inner
<1>10. CASE SweepRemove
  BY <1>10, <1>a, <1>d DEF SweepRemove, remove_devices
<1>11. ASSUME NEW d \in Devices, SweepRelease(d) PROVE LeaseInNet' /\ SessionsInNet'
  BY <1>11, <1>c, <1>d DEF SweepRelease, inner
<1>12. CASE remove_device_from_memory
  <2>1. \A e \in Devices : device_map'[e] \in {device_map[e], None}
    BY <1>12 DEF remove_device_from_memory, inner, TypeOK
  <2>2. QED
    BY <1>12, <1>a, <1>d, <2>1 DEF remove_device_from_memory
<1>13. CASE DeleteRow
  BY <1>13, <1>c, <1>d DEF DeleteRow, inner
<1>14. CASE UNCHANGED vars
  BY <1>14, <1>c, <1>d DEF vars
<1>15. QED
  BY <1>1, <1>2, <1>3, <1>4, <1>5, <1>6, <1>7, <1>8, <1>9, <1>10, <1>11,
     <1>12, <1>13, <1>14 DEF Next, Drop, Sweep

-----------------------------------------------------------------------------
\* The rows, and what is on its way into them, carry addresses of the subnet
\* or none; they need not be distinct, nor those of the devices in memory.
RowsInNet ==
    LET Leasable == (Net \ {Gateway}) \cup {None}
    IN /\ \A d \in Devices : db[d] # None => db[d].ip \in Leasable
       /\ \A t \in saves : t.record.ip \in Leasable
       /\ \A s \in Sessions : confirm[s] # None => confirm[s].ip \in Leasable

\* What a lifetime leaves to the next: everything needed to start from any
\* rows that were ever written.
StoreIInv == /\ StoreTypeOK /\ Bound /\ ConnectedHasSession
             /\ LeaseInNet /\ SessionsInNet /\ RowsInNet

\* A step of the network, with what it does to the rows, keeps the invariant
\* if the rows stay in order.
LEMMA NetworkStepStored ==
    ASSUME StoreIInv, [Next]_vars, restarts' = restarts, RowsInNet',
           db' \in [Devices -> DeviceRecord \cup {None}],
           saves' \subseteq SaveTask,
           confirm' \in [Sessions -> DeviceRecord \cup {None}]
    PROVE  StoreIInv'
<1>1. TypeOK' /\ Bound' /\ ConnectedHasSession' /\ LeaseInNet' /\ SessionsInNet'
  BY StepType, StepConnected, StepInNet DEF StoreIInv, StoreTypeOK
<1>2. QED
  BY <1>1 DEF StoreIInv, StoreTypeOK

\* A row may be written when its address is one of the subnet.
LEMMA WriteKeepsRows ==
    ASSUME StoreIInv, NEW d \in Devices, NEW row \in DeviceRecord \cup {None},
           row # None => row.ip \in (Net \ {Gateway}) \cup {None},
           MayWrite(d, row)
    PROVE  /\ db' \in [Devices -> DeviceRecord \cup {None}]
           /\ \A e \in Devices : db'[e] # None =>
                 db'[e].ip \in (Net \ {Gateway}) \cup {None}
  BY DEF MayWrite, StoreIInv, StoreTypeOK, RowsInNet

\* A task is spawned with the address of its session.
LEMMA SpawnKeepsRows ==
    ASSUME StoreIInv, NEW s \in Sessions, NEW kind \in {"register", "offline"},
           NEW d \in Devices, NEW ip \in Net \ {Gateway}, Spawn(s, kind, d, ip)
    PROVE  /\ saves' \subseteq SaveTask
           /\ \A t \in saves' : t.record.ip \in (Net \ {Gateway}) \cup {None}
<1>1. [ip |-> ip] \in DeviceRecord
  BY IpsAreNumbers DEF DeviceRecord
<1>2. QED
  BY <1>1 DEF Spawn, SaveTask, StoreIInv, StoreTypeOK, RowsInNet

\* The process comes back with the addresses of the rows, and nobody connected.
LEMMA RestartStored == StoreIInv /\ Restart => StoreIInv'
<1> SUFFICES ASSUME StoreIInv, Restart PROVE StoreIInv'
  OBVIOUS
<1> USE DEF StoreIInv, StoreTypeOK, Restart
<1>a. /\ data_version' \in Nat
      /\ sender_map' \in [Ips -> Sessions \cup {None}]
      /\ session' \in [Sessions -> SessionState]
      /\ sweep' \in [pc : {"idle", "remove", "db"}, ids : SUBSET Devices]
      /\ admin' \in [pc : {"idle", "remove", "db"}, device : Devices \cup {None}]
      /\ Bound' /\ SessionsInNet'
  BY DEF TypeOK, Bound, SessionsInNet, Closed, SessionState, Status
<1>b. /\ RowsInNet' /\ db' \in [Devices -> DeviceRecord \cup {None}]
      /\ saves' \subseteq SaveTask
      /\ confirm' \in [Sessions -> DeviceRecord \cup {None}]
      /\ restarts' \in 0 .. MaxRestarts
  BY MaxRestartsAssumption DEF RowsInNet
<1>1. CASE /\ device_map' = DeviceMapOf(db)
           /\ device_ip_map' \in IpMapsOf(db)
  <2>1. device_map' \in [Devices -> DeviceEntry \cup {None}]
    BY <1>1 DEF DeviceMapOf, DeviceEntryFromRecord, DeviceRecord, DeviceEntry
  <2>2. ASSUME NEW d \in Devices, device_map'[d] # None
        PROVE  /\ db[d] # None /\ device_map'[d].ip = db[d].ip
               /\ device_map'[d].is_connected = FALSE
    BY <1>1, <2>2 DEF DeviceMapOf, DeviceEntryFromRecord
  <2>3. device_ip_map' \in [Ips -> Devices \cup {None}]
    BY <1>1 DEF IpMapsOf
  <2>4. LeaseInNet' /\ ConnectedHasSession'
    BY <2>2 DEF LeaseInNet, HasIp, Known, ConnectedHasSession, RowsInNet
  <2>5. QED
    BY <1>a, <1>b, <2>1, <2>3, <2>4, Zenon DEF TypeOK
<1>2. CASE /\ device_map' = [d \in Devices |-> None]
           /\ device_ip_map' = [ip \in Ips |-> None]
  <2>1. device_map' \in [Devices -> DeviceEntry \cup {None}]
        /\ device_ip_map' \in [Ips -> Devices \cup {None}]
    BY <1>2
  <2>2. LeaseInNet' /\ ConnectedHasSession'
    BY <1>2 DEF LeaseInNet, HasIp, Known, ConnectedHasSession
  <2>3. QED
    BY <1>a, <1>b, <2>1, <2>2, Zenon DEF TypeOK
<1>3. QED
  BY <1>1, <1>2

\* Every step of the server with its database keeps the invariant.
LEMMA StepStored == StoreIInv /\ [StoreNext]_storeVars => StoreIInv'
<1> SUFFICES ASSUME StoreIInv, [StoreNext]_storeVars PROVE StoreIInv'
  OBVIOUS
<1> DEFINE Leasable == (Net \ {Gateway}) \cup {None}
<1>0. /\ db \in [Devices -> DeviceRecord \cup {None}] /\ saves \subseteq SaveTask
      /\ confirm \in [Sessions -> DeviceRecord \cup {None}]
      /\ session \in [Sessions -> SessionState]
      /\ device_map \in [Devices -> DeviceEntry \cup {None}]
      /\ \A d \in Devices : db[d] # None => db[d].ip \in Leasable
      /\ \A t \in saves : t.record.ip \in Leasable
      /\ \A s \in Sessions : confirm[s] # None => confirm[s].ip \in Leasable
  BY DEF StoreIInv, StoreTypeOK, RowsInNet, TypeOK
<1>b. \A s \in Sessions :
         session[s].status \in {"pending", "confirming", "confirmed", "releasing"}
         => session[s].device \in Devices /\ session[s].ip \in Net \ {Gateway}
  BY DEF StoreIInv, Bound, SessionsInNet
<1>1. ASSUME NEW s \in Sessions, NEW req \in Request, StoreRegister(s, req)
      PROVE  StoreIInv'
  <2>1. [Next]_vars
    BY <1>1 DEF StoreRegister, Next
  <2>2. req.device \in Devices
    BY DEF Request
  <2>3. CASE session'[s].status = "confirmed"
    <3>1. SessionsInNet'
      BY <2>1, StepInNet DEF StoreIInv, StoreTypeOK
    <3>2. session'[s].ip \in Net \ {Gateway}
      BY <2>3, <3>1 DEF SessionsInNet
    <3>3. Spawn(s, "register", req.device, session'[s].ip)
      BY <1>1, <2>3 DEF StoreRegister
    <3>4. saves' \subseteq SaveTask /\ \A t \in saves' : t.record.ip \in Leasable
      BY <2>2, <3>2, <3>3, SpawnKeepsRows
    <3>5. QED
      BY <1>0, <1>1, <2>1, <3>4, NetworkStepStored DEF StoreRegister, RowsInNet
  <2>4. CASE session'[s].status # "confirmed"
    BY <1>0, <1>1, <2>1, <2>4, NetworkStepStored DEF StoreRegister, RowsInNet
  <2>5. QED
    BY <2>3, <2>4
<1>2. ASSUME NEW s \in Sessions, StoreConfirm(s) PROVE StoreIInv'
  <2>1. [Next]_vars
    BY <1>2 DEF StoreConfirm, Next
  <2> DEFINE d == session[s].device
             r == IF Known(d) THEN [ip |-> device_map[d].ip] ELSE None
  <2>2. d \in Devices
    BY <1>2, <1>b DEF StoreConfirm, confirm_registration
  <2>3. r \in DeviceRecord \cup {None} /\ (r # None => r.ip \in Leasable)
    BY <1>0, <2>2 DEF Known, HasIp, DeviceEntry, DeviceRecord, StoreIInv, LeaseInNet
  <2>4. confirm' = [confirm EXCEPT ![s] = r]
    BY <1>2 DEF StoreConfirm
  <2> HIDE DEF r
  <2>5. confirm' \in [Sessions -> DeviceRecord \cup {None}]
        /\ \A q \in Sessions : confirm'[q] # None => confirm'[q].ip \in Leasable
    BY <1>0, <2>3, <2>4
  <2>6. QED
    BY <1>0, <1>2, <2>1, <2>5, NetworkStepStored DEF StoreConfirm, RowsInNet
<1>3. ASSUME NEW s \in Sessions, StoreConfirmAnswer(s) PROVE StoreIInv'
  <2>1. [Next]_vars
    BY <1>3 DEF StoreConfirmAnswer, Next
  <2>2. session[s].device \in Devices
    BY <1>3, <1>b DEF StoreConfirmAnswer, ConfirmAnswer
  <2>3. (MayWrite(session[s].device, confirm[s]) /\ confirm[s] # None) \/ db' = db
    BY <1>3 DEF StoreConfirmAnswer, MayWrite
  <2>4. /\ db' \in [Devices -> DeviceRecord \cup {None}]
        /\ \A e \in Devices : db'[e] # None => db'[e].ip \in Leasable
    BY <1>0, <2>2, <2>3, WriteKeepsRows
  <2>5. confirm' \in [Sessions -> DeviceRecord \cup {None}]
        /\ \A q \in Sessions : confirm'[q] # None => confirm'[q].ip \in Leasable
    BY <1>0, <1>3 DEF StoreConfirmAnswer
  <2>6. QED
    BY <1>0, <1>3, <2>1, <2>4, <2>5, NetworkStepStored DEF StoreConfirmAnswer, RowsInNet
<1>4. ASSUME NEW s \in Sessions, StoreDrop(s) PROVE StoreIInv'
  <2>1. [Next]_vars
    BY <1>4 DEF StoreDrop, Next
  <2>2. CASE session[s].status = "confirmed" /\ IsCurrent(s)
    <3>1. Spawn(s, "offline", session[s].device, session[s].ip)
      BY <1>4, <2>2 DEF StoreDrop
    <3>2. saves' \subseteq SaveTask /\ \A t \in saves' : t.record.ip \in Leasable
      BY <1>b, <2>2, <3>1, SpawnKeepsRows
    <3>3. QED
      BY <1>0, <1>4, <2>1, <3>2, NetworkStepStored DEF StoreDrop, RowsInNet
  <2>3. CASE ~(session[s].status = "confirmed" /\ IsCurrent(s))
    BY <1>0, <1>4, <2>1, <2>3, NetworkStepStored DEF StoreDrop, RowsInNet
  <2>4. QED
    BY <2>2, <2>3
<1>5. CASE StoreSweep
  <2>1. [Next]_vars
    BY <1>5 DEF StoreSweep, Next, Sweep
  <2>2. db' = db \/ \E d \in Devices : MayWrite(d, [ip |-> None])
    BY <1>5 DEF StoreSweep
  <2>3. [ip |-> None] \in DeviceRecord
    BY DEF DeviceRecord
  <2>4. /\ db' \in [Devices -> DeviceRecord \cup {None}]
        /\ \A e \in Devices : db'[e] # None => db'[e].ip \in Leasable
    BY <1>0, <2>2, <2>3, WriteKeepsRows
  <2>5. QED
    BY <1>0, <1>5, <2>1, <2>4, NetworkStepStored DEF StoreSweep, RowsInNet
<1>6. CASE StoreDelete
  <2>1. [Next]_vars
    BY <1>6 DEF StoreDelete, Next
  <2>2. db' = db \/ (admin.device \in Devices /\ MayWrite(admin.device, None))
    BY <1>6 DEF StoreDelete, DeleteRow, StoreIInv, Bound
  <2>3. /\ db' \in [Devices -> DeviceRecord \cup {None}]
        /\ \A e \in Devices : db'[e] # None => db'[e].ip \in Leasable
    BY <1>0, <2>2, WriteKeepsRows
  <2>4. QED
    BY <1>0, <1>6, <2>1, <2>3, NetworkStepStored DEF StoreDelete, RowsInNet
<1>7. CASE StoreLapse
  <2>1. [Next]_vars
    BY <1>7 DEF StoreLapse, Next
  <2>2. QED
    BY <1>0, <1>7, <2>1, NetworkStepStored DEF StoreLapse, RowsInNet
<1>8. ASSUME NEW t \in saves, save_or_update_device(t) PROVE StoreIInv'
  <2>1. [Next]_vars /\ UNCHANGED <<confirm, restarts>> /\ saves' \subseteq saves
    BY <1>8 DEF save_or_update_device
  <2>2. t.device \in Devices /\ t.record \in DeviceRecord /\ t.record.ip \in Leasable
    BY <1>0 DEF SaveTask
  <2>3. /\ db' \in [Devices -> DeviceRecord \cup {None}]
        /\ \A e \in Devices : db'[e] # None => db'[e].ip \in Leasable
    BY <1>8, <2>2, WriteKeepsRows DEF save_or_update_device
  <2>4. QED
    BY <1>0, <2>1, <2>3, NetworkStepStored DEF RowsInNet
<1>9. CASE Restart
  BY <1>9, RestartStored
<1>10. CASE UNCHANGED storeVars
  <2>1. [Next]_vars
    BY <1>10 DEF storeVars
  <2>2. QED
    BY <1>0, <1>10, <2>1, NetworkStepStored DEF storeVars, RowsInNet
<1>11. QED
  BY <1>1, <1>2, <1>3, <1>4, <1>5, <1>6, <1>7, <1>8, <1>9, <1>10 DEF StoreNext

\* A server that is started for the first time has rows in order.
LEMMA InitStored == StoreInit => StoreIInv
<1> SUFFICES ASSUME StoreInit PROVE StoreIInv
  OBVIOUS
<1>1. TypeOK /\ Bound
  BY InitType DEF StoreInit, Init
<1>2. db \in OrderlyRows
  BY RowsAssumption DEF StoreInit
<1>3. RowsInNet /\ db \in [Devices -> DeviceRecord \cup {None}]
  BY <1>2 DEF OrderlyRows, RowsInNet, StoreInit
<1>4. ConnectedHasSession /\ LeaseInNet /\ SessionsInNet
  BY <1>3 DEF StoreInit, LoadedFrom, DeviceMapOf, DeviceEntryFromRecord, RowsInNet,
              ConnectedHasSession, LeaseInNet, SessionsInNet, HasIp, Known
<1>5. QED
  BY <1>1, <1>3, <1>4, MaxRestartsAssumption
     DEF StoreInit, StoreIInv, StoreTypeOK

\* Crash recovery: through any number of restarts, whatever rows were written
\* in whatever order and whichever writes failed, nobody is shown as connected
\* who is not and no address outside the subnet is leased
\* (build_initial_inner_state, save_or_update_device).
THEOREM RestartsAreSound == StoreSpec => []StoreInv
<1>1. StoreIInv => StoreInv
  BY DEF StoreIInv, StoreInv
<1>2. QED
  BY <1>1, InitStored, StepStored, PTL DEF StoreSpec

-----------------------------------------------------------------------------
\* But for a restart, a step of the server with its database is one of the
\* network.
LEMMA StoreStepsAreNetworkSteps ==
    ASSUME [StoreNext]_storeVars, ~Restart
    PROVE  [Next]_vars
<1>1. CASE UNCHANGED storeVars
  BY <1>1 DEF storeVars
<1>2. ASSUME NEW s \in Sessions, NEW req \in Request, StoreRegister(s, req)
      PROVE  Next
  BY <1>2 DEF StoreRegister, Next
<1>3. ASSUME NEW s \in Sessions,
             StoreConfirm(s) \/ StoreConfirmAnswer(s) \/ StoreDrop(s)
      PROVE  Next
  BY <1>3 DEF StoreConfirm, StoreConfirmAnswer, StoreDrop, Next
<1>4. CASE StoreSweep
  BY <1>4 DEF StoreSweep, Next, Sweep
<1>5. CASE StoreDelete
  BY <1>5 DEF StoreDelete, Next
<1>6. CASE StoreLapse
  BY <1>6 DEF StoreLapse, Next
<1>7. ASSUME NEW t \in saves, save_or_update_device(t) PROVE UNCHANGED vars
  BY <1>7 DEF save_or_update_device
<1>8. QED
  BY <1>1, <1>2, <1>3, <1>4, <1>5, <1>6, <1>7 DEF StoreNext

\* The leases loaded from rows without a conflict, or from none, agree.
LEMMA OrderlyRestart ==
    ASSUME db \in OrderlyRows, Restart
    PROVE  LeaseInv'
<1>1. \A ip \in Ips : sender_map'[ip] = None
  BY DEF Restart
<1>2. CASE /\ device_map' = DeviceMapOf(db)
           /\ device_ip_map' \in IpMapsOf(db)
  <2>1. ASSUME NEW d \in Devices, HasIp(d)'
        PROVE  /\ db[d] # None /\ device_map'[d].ip = db[d].ip
               /\ db[d].ip \in Net \ {Gateway}
    BY <1>2, <2>1 DEF DeviceMapOf, DeviceEntryFromRecord, HasIp, Known, OrderlyRows
  <2>2. ASSUME NEW d \in Devices, HasIp(d)'
        PROVE  device_ip_map'[device_map'[d].ip] = d
    <3> DEFINE ip == db[d].ip
    <3>1. ip \in Ips /\ ip \in Net \ {Gateway} /\ ip # None
      BY <2>1, <2>2, IpsAreNumbers
    <3>2. d \in Claimants(db, ip) /\ \A e \in Claimants(db, ip) : e = d
      BY <2>1, <2>2, <3>1 DEF Claimants, OrderlyRows
    <3>3. device_ip_map'[ip] \in Claimants(db, ip)
      BY <1>2, <3>1, <3>2 DEF IpMapsOf
    <3>4. QED
      BY <2>1, <2>2, <3>2, <3>3
  <2>3. QED
    BY <1>1, <2>1, <2>2, IpsAreNumbers
       DEF LeaseInv, LeaseIndexed, LeaseInNet, SenderIsLessee
<1>3. CASE /\ device_map' = [d \in Devices |-> None]
           /\ device_ip_map' = [ip \in Ips |-> None]
  BY <1>1, <1>3
     DEF LeaseInv, LeaseIndexed, LeaseInNet, SenderIsLessee, HasIp, Known
<1>4. QED
  BY <1>2, <1>3 DEF Restart

\* Two devices come to hold one address only by a restart that finds
\* conflicting rows: nothing else that the server does with its database, in
\* any order and with any failures, takes an address twice.
ConflictsComeFromRows ==
    [][LeaseInv /\ (Restart => db \in OrderlyRows) => LeaseInv']_storeVars

THEOREM OnlyRowsConflict == StoreSpec => ConflictsComeFromRows
<1>1. StoreIInv /\ [StoreNext]_storeVars
          => [LeaseInv /\ (Restart => db \in OrderlyRows) => LeaseInv']_storeVars
  <2> SUFFICES ASSUME StoreIInv, [StoreNext]_storeVars, LeaseInv,
                      Restart => db \in OrderlyRows
               PROVE  LeaseInv'
    OBVIOUS
  <2>1. CASE Restart
    BY <2>1, OrderlyRestart
  <2>2. CASE ~Restart
    <3>1. [Next]_vars
      BY <2>2, StoreStepsAreNetworkSteps
    <3>2. QED
      BY <3>1, StepLease DEF StoreIInv, StoreTypeOK
  <2>3. QED
    BY <2>1, <2>2
<1>2. QED
  BY <1>1, InitStored, StepStored, PTL DEF StoreSpec, ConflictsComeFromRows

\* Until the first restart no two devices hold the same address, and a frame
\* goes to the session that holds the address or nowhere, although rows and
\* memory disagree meanwhile; after it, unique_after_restart shows, they may.
THEOREM UniqueUntilRestart ==
    StoreSpec => [](restarts = 0 => UniqueLease /\ SenderIsLessee)
<1> DEFINE First == restarts = 0 => LeaseInv
<1>1. StoreInit => First
  BY InitLease DEF StoreInit, Init
<1>2. StoreIInv /\ First /\ [StoreNext]_storeVars => First'
  <2> SUFFICES ASSUME StoreIInv, First, [StoreNext]_storeVars, restarts' = 0
               PROVE  LeaseInv'
    OBVIOUS
  <2>1. ~Restart
    BY DEF StoreIInv, StoreTypeOK, Restart
  <2>2. [Next]_vars
    BY <2>1, StoreStepsAreNetworkSteps
  <2>3. restarts = 0
    BY <2>1 DEF StoreNext, storeVars, StoreRegister, StoreConfirm, StoreConfirmAnswer,
       StoreDrop, StoreSweep, StoreDelete, StoreLapse, save_or_update_device
  <2>4. QED
    BY <2>2, <2>3, StepLease DEF StoreIInv, StoreTypeOK
<1>3. First => (restarts = 0 => UniqueLease /\ SenderIsLessee)
  BY DEF LeaseInv, LeaseIndexed, UniqueLease
<1> HIDE DEF First
<1>4. QED
  BY <1>1, <1>2, <1>3, InitStored, StepStored, PTL DEF StoreSpec
=============================================================================
