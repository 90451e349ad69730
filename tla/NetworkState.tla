---------------------------- MODULE NetworkState ----------------------------
(***************************************************************************)
(* The address leases of one virtual network on the server (vnts).         *)
(*                                                                         *)
(* NetworkStateInner (data_version, device_map, device_ip_map) is guarded  *)
(* by the mutex lease_state; sender_map is a concurrent map of its own.    *)
(* Every critical section of the mutex is one action.  What the code does  *)
(* between two critical sections, or across an await, is two actions: the  *)
(* release of a pre-registered address, the expiry sweep, the deletion of  *)
(* a device by the administrator and the confirmation of a registration.   *)
(* What these awaits do to the database is added by LeaseStore.            *)
(*                                                                         *)
(* A session is identified by its random_id (64 random bits; a collision   *)
(* is not modelled) and its Sender by the session.  Times are abstracted   *)
(* to one bit per offline device: whether lease_duration has passed since  *)
(* its disconnect_time.  Names, versions, key signs, latencies and traffic *)
(* counters do not influence any of this and are left out.                 *)
(***************************************************************************)
EXTENDS Integers, FiniteSets

CONSTANTS
    Devices,     \* device ids
    Sessions,    \* random_ids: one per connection that tries to register
    Network,     \* first address of the subnet, net.network()
    Broadcast,   \* last address of the subnet, net.broadcast()
    Requested,   \* addresses a client may ask for, inside the subnet or not
    InitRows,    \* contents of the database the network may be loaded from
    None         \* Option::None

Gateway == Network + 1
Net == Network .. Broadcast
Ips == Net \cup Requested

\* Value of device_map.  lapsed: disconnect_time + lease_duration <= now.
DeviceEntry == [ip : Ips \cup {None}, random_id : Sessions \cup {None},
                is_connected : BOOLEAN, lapsed : BOOLEAN, data_version : Nat]

\* Row of the table devices, as far as the leases are concerned.
DeviceRecord == [ip : Ips \cup {None}]

Request == [device : Devices, ip : Requested \cup {None},
            ip_variable : BOOLEAN, mode : {"Normal", "PreRegister"}]

ASSUME NetAssumption ==
    /\ Network \in Nat /\ Broadcast \in Nat /\ Requested \subseteq Nat
    /\ Network + 1 < Broadcast

ASSUME NoneAssumption ==
    /\ None \notin Nat /\ None \notin Devices /\ None \notin Sessions
    /\ None \notin DeviceEntry /\ None \notin DeviceRecord

\* Rows without a conflict: the addresses are in the subnet and distinct.
OrderlyRows ==
    {rows \in [Devices -> DeviceRecord \cup {None}] :
        /\ \A d \in Devices : rows[d] # None =>
              rows[d].ip \in (Net \ {Gateway}) \cup {None}
        /\ \A d, e \in Devices :
              /\ d # e /\ rows[d] # None /\ rows[e] # None
              /\ rows[d].ip # None
              => rows[d].ip # rows[e].ip}

ASSUME RowsAssumption == InitRows \subseteq OrderlyRows

VARIABLES
    data_version,   \* version of the device list
    device_map,     \* device -> its entry, or None
    device_ip_map,  \* address -> the device that occupies it, or None
    sender_map,     \* address -> the session whose Sender gets its frames
    session,        \* the connections and their registration status
    sweep,          \* the expiry sweep of the cleanup task
    admin           \* a delete_device request of the administrator

inner == <<data_version, device_map, device_ip_map>>
vars == <<data_version, device_map, device_ip_map, sender_map, session,
          sweep, admin>>

\* "new": not registered; "confirming": the handler awaits the database;
\* "releasing": Drop has released the mutex but not yet removed the sender.
Status == {"new", "pending", "confirming", "confirmed", "releasing", "closed"}

SessionState == [status : Status, device : Devices \cup {None},
                 ip : Ips \cup {None}]

TypeOK ==
    /\ data_version \in Nat
    /\ device_map \in [Devices -> DeviceEntry \cup {None}]
    /\ device_ip_map \in [Ips -> Devices \cup {None}]
    /\ sender_map \in [Ips -> Sessions \cup {None}]
    /\ session \in [Sessions -> SessionState]
    /\ sweep \in [pc : {"idle", "remove", "db"}, ids : SUBSET Devices]
    /\ admin \in [pc : {"idle", "remove", "db"}, device : Devices \cup {None}]

Closed == [status |-> "closed", device |-> None, ip |-> None]

-----------------------------------------------------------------------------
(***************************************************************************)
(* Loading from the database                                               *)
(***************************************************************************)

\* Mutant: a device is loaded as connected.
LoadedAsConnected(record) ==
    [ip |-> record.ip, random_id |-> None, is_connected |-> TRUE,
     lapsed |-> FALSE, data_version |-> 0]

DeviceEntryFromRecord(record) ==
    [ip |-> record.ip, random_id |-> None, is_connected |-> FALSE,
     lapsed |-> FALSE, data_version |-> 0]

\* The rows that claim address ip.  When there are several, the row loaded
\* last wins the place in device_ip_map; the query has no order.
Claimants(rows, ip) ==
    {d \in Devices : rows[d] # None /\ rows[d].ip = ip}

IpMapsOf(rows) ==
    {m \in [Ips -> Devices \cup {None}] : \A ip \in Ips :
        IF ip \in Net \ {Gateway} /\ Claimants(rows, ip) # {}
        THEN m[ip] \in Claimants(rows, ip)
        ELSE m[ip] = None}

DeviceMapOf(rows) ==
    [d \in Devices |-> IF rows[d] = None THEN None
                       ELSE DeviceEntryFromRecord(rows[d])]

\* new_from_db: nobody is connected yet.
LoadedFrom(rows) ==
    /\ data_version = 0
    /\ device_map = DeviceMapOf(rows)
    /\ device_ip_map \in IpMapsOf(rows)
    /\ sender_map = [ip \in Ips |-> None]
    /\ session = [s \in Sessions |-> [status |-> "new", device |-> None,
                                      ip |-> None]]
    /\ sweep = [pc |-> "idle", ids |-> {}]
    /\ admin = [pc |-> "idle", device |-> None]

Init == \E rows \in InitRows : LoadedFrom(rows)

-----------------------------------------------------------------------------
(***************************************************************************)
(* Registration                                                            *)
(***************************************************************************)

\* Mutant: the scan ignores device_ip_map.
ScanIgnoresLeases ==
    {ip \in (Network + 1) .. (Broadcast - 1) : ip # Gateway}

FreeIps ==
    {ip \in (Network + 1) .. (Broadcast - 1) :
        ip # Gateway /\ device_ip_map[ip] = None}

find_available_ip ==
    CHOOSE ip \in FreeIps : \A other \in FreeIps : ip <= other

Known(d) == device_map[d] # None

\* The device is known and asks for nothing else than what it has.
IpMatches(req) ==
    /\ Known(req.device)
    /\ req.ip = None \/ device_map[req.device].ip = req.ip

OldIp(req) == IF Known(req.device) THEN device_map[req.device].ip ELSE None

\* Mutant: the gateway check is missing.
ExpectedMayBeGateway(req) ==
    req.ip \in Net /\ device_ip_map[req.ip] = None

\* The requested address can be given out.
ExpectedIsFree(req) ==
    /\ req.ip # Gateway
    /\ req.ip \in Net
    /\ device_ip_map[req.ip] = None

\* Mutant: the version is taken before it is counted up.
EntryWithOldVersion(s, ip) ==
    [ip |-> ip, random_id |-> s, is_connected |-> TRUE, lapsed |-> FALSE,
     data_version |-> data_version - 1]

ConnectedEntry(s, ip) ==
    [ip |-> ip, random_id |-> s, is_connected |-> TRUE, lapsed |-> FALSE,
     data_version |-> data_version + 1]

\* Mutant: a Sender that is already registered stays (entry().or_insert()).
RegisteredOrInsert(s, req, ip, old) ==
    /\ sender_map' = [i \in Ips |-> IF i = ip /\ sender_map[i] = None THEN s
                                    ELSE IF i = old THEN None
                                    ELSE sender_map[i]]
    /\ session' = [session EXCEPT ![s] =
          [status |-> IF req.mode = "Normal" THEN "confirmed" ELSE "pending",
           device |-> req.device, ip |-> ip]]

\* The rest of register once allocate_ip has returned: the new sender and
\* the session.
Registered(s, req, ip, old) ==
    /\ sender_map' = [i \in Ips |-> IF i = ip THEN s
                                    ELSE IF i = old THEN None
                                    ELSE sender_map[i]]
    /\ session' = [session EXCEPT ![s] =
          [status |-> IF req.mode = "Normal" THEN "confirmed" ELSE "pending",
           device |-> req.device, ip |-> ip]]

LeaseTo(s, req, ip) ==
    /\ data_version' = data_version + 1
    /\ device_map' = [device_map EXCEPT ![req.device] = ConnectedEntry(s, ip)]

\* allocate_ip, first return: the device reconnects to its own lease.
ReuseLease(s, req) ==
    /\ IpMatches(req)
    /\ OldIp(req) # None
    /\ LeaseTo(s, req, OldIp(req))
    /\ Registered(s, req, OldIp(req), None)
    /\ UNCHANGED device_ip_map

\* A device that is known without an address gets the first free one.
RenewLease(s, req) ==
    /\ IpMatches(req)
    /\ OldIp(req) = None
    /\ FreeIps # {}
    /\ LeaseTo(s, req, find_available_ip)
    /\ device_ip_map' = [device_ip_map EXCEPT ![find_available_ip] = req.device]
    /\ Registered(s, req, find_available_ip, None)

\* The requested address is free: the old one, if any, is given back.
TakeExpected(s, req) ==
    /\ ~IpMatches(req)
    /\ req.ip # None
    /\ ExpectedIsFree(req)
    /\ LeaseTo(s, req, req.ip)
    /\ device_ip_map' = [i \in Ips |-> IF i = req.ip THEN req.device
                                       ELSE IF i = OldIp(req) THEN None
                                       ELSE device_ip_map[i]]
    /\ Registered(s, req, req.ip, OldIp(req))

\* The fall-through: no address requested, or another one will do.  The old
\* address keeps its place in device_ip_map.
TakeAvailable(s, req) ==
    /\ ~IpMatches(req)
    /\ req.ip # None => req.ip_variable /\ ~ExpectedIsFree(req)
    /\ FreeIps # {}
    /\ LeaseTo(s, req, find_available_ip)
    /\ device_ip_map' = [device_ip_map EXCEPT ![find_available_ip] = req.device]
    /\ Registered(s, req, find_available_ip, OldIp(req))

\* Every bail! of allocate_ip: the client gets an error, the connection ends.
RefuseLease(s, req) ==
    /\ \/ IpMatches(req) /\ OldIp(req) = None /\ FreeIps = {}
       \/ /\ ~IpMatches(req) /\ req.ip # None
          /\ ~ExpectedIsFree(req) /\ ~req.ip_variable
       \/ /\ ~IpMatches(req) /\ FreeIps = {}
          /\ req.ip # None => ~ExpectedIsFree(req)
    /\ session' = [session EXCEPT ![s] = Closed]
    /\ UNCHANGED <<inner, sender_map>>

register(s, req) ==
    /\ session[s].status = "new"
    /\ \/ ReuseLease(s, req)
       \/ RenewLease(s, req)
       \/ TakeExpected(s, req)
       \/ TakeAvailable(s, req)
       \/ RefuseLease(s, req)
    /\ UNCHANGED <<sweep, admin>>

-----------------------------------------------------------------------------
(***************************************************************************)
(* Confirmation of a pre-registration: the entry is read under the mutex,  *)
(* the database is awaited, and only then the session becomes confirmed.   *)
(***************************************************************************)

confirm_registration(s) ==
    /\ session[s].status = "pending"
    /\ session' = [session EXCEPT ![s].status = "confirming"]
    /\ UNCHANGED <<inner, sender_map, sweep, admin>>

\* The write succeeded, or there was no entry to write; otherwise error 500
\* is sent and the session stays pending.
ConfirmAnswer(s, ok) ==
    /\ session[s].status = "confirming"
    /\ session' = [session EXCEPT ![s].status =
                      IF ok THEN "confirmed" ELSE "pending"]
    /\ UNCHANGED <<inner, sender_map, sweep, admin>>

-----------------------------------------------------------------------------
(***************************************************************************)
(* Drop of a session                                                       *)
(***************************************************************************)

\* The device is still held by session s at the session's address.
IsCurrent(s) ==
    LET d == session[s].device
    IN /\ Known(d)
       /\ device_map[d].random_id = s
       /\ device_map[d].ip = session[s].ip

\* Mutant: going offline forgets is_connected.
OfflineStaysConnected(s) ==
    /\ session[s].status = "confirmed"
    /\ session' = [session EXCEPT ![s] = Closed]
    /\ IF IsCurrent(s)
       THEN sender_map' = [sender_map EXCEPT ![session[s].ip] = None]
       ELSE UNCHANGED sender_map
    /\ UNCHANGED <<inner, sweep, admin>>

\* A confirmed session ends: the lease survives, the sender does not.
offline_ip(s) ==
    LET d == session[s].device
        ip == session[s].ip
    IN /\ session[s].status = "confirmed"
       /\ session' = [session EXCEPT ![s] = Closed]
       /\ IF IsCurrent(s)
          THEN /\ data_version' = data_version + 1
               /\ device_map' = [device_map EXCEPT ![d] =
                     [@ EXCEPT !.is_connected = FALSE, !.lapsed = FALSE,
                               !.data_version = data_version + 1]]
               /\ sender_map' = [sender_map EXCEPT ![ip] = None]
          ELSE UNCHANGED <<data_version, device_map, sender_map>>
       /\ UNCHANGED <<device_ip_map, sweep, admin>>

\* Mutant: the release of a pre-registration does not count up the version.
ReleaseUnversioned(s) ==
    /\ session[s].status = "pending" /\ IsCurrent(s)
    /\ device_map' = [device_map EXCEPT ![session[s].device] = None]
    /\ device_ip_map' = [device_ip_map EXCEPT ![session[s].ip] = None]
    /\ session' = [session EXCEPT ![s].status = "releasing"]
    /\ UNCHANGED <<data_version, sender_map, sweep, admin>>

\* A pending session ends: under the mutex the device is forgotten ...
release_pre_registered_ip(s) ==
    LET d == session[s].device
        ip == session[s].ip
    IN /\ session[s].status = "pending"
       /\ IF IsCurrent(s)
          THEN /\ data_version' = data_version + 1
               /\ device_map' = [device_map EXCEPT ![d] = None]
               /\ device_ip_map' = [device_ip_map EXCEPT ![ip] = None]
               /\ session' = [session EXCEPT ![s].status = "releasing"]
          ELSE /\ session' = [session EXCEPT ![s] = Closed]
               /\ UNCHANGED inner
       /\ UNCHANGED <<sender_map, sweep, admin>>

\* ... and after the mutex the sender of the address is removed.
ReleaseSender(s) ==
    /\ session[s].status = "releasing"
    /\ session' = [session EXCEPT ![s] = Closed]
    /\ sender_map' = [sender_map EXCEPT ![session[s].ip] = None]
    /\ UNCHANGED <<inner, sweep, admin>>

-----------------------------------------------------------------------------
(***************************************************************************)
(* Lease expiry                                                            *)
(***************************************************************************)

\* lease_duration passes for an offline device.
LeaseLapses(d) ==
    /\ Known(d) /\ ~device_map[d].is_connected /\ ~device_map[d].lapsed
    /\ device_map' = [device_map EXCEPT ![d].lapsed = TRUE]
    /\ UNCHANGED <<data_version, device_ip_map, sender_map, session,
                   sweep, admin>>

\* Mutant: devices without an address are not collected.
ExpiredWithAddress ==
    {d \in Devices : Known(d) /\ ~device_map[d].is_connected
                              /\ device_map[d].lapsed
                              /\ device_map[d].ip # None}

collect_expired_devices ==
    {d \in Devices : Known(d) /\ ~device_map[d].is_connected
                              /\ device_map[d].lapsed}

SweepCollect ==
    /\ sweep.pc = "idle"
    /\ collect_expired_devices # {}
    /\ sweep' = [pc |-> "remove", ids |-> collect_expired_devices]
    /\ UNCHANGED <<inner, sender_map, session, admin>>

\* The devices of ids are forgotten, with the addresses of their entries.
remove_devices(ids) ==
    /\ data_version' = data_version + 1
    /\ device_map' = [d \in Devices |-> IF d \in ids THEN None
                                        ELSE device_map[d]]
    /\ device_ip_map' = [ip \in Ips |->
          IF \E d \in ids : Known(d) /\ device_map[d].ip = ip
          THEN None ELSE device_ip_map[ip]]

SweepRemove ==
    /\ sweep.pc = "remove"
    /\ remove_devices(sweep.ids)
    /\ sweep' = [sweep EXCEPT !.pc = "db"]
    /\ UNCHANGED <<sender_map, session, admin>>

\* The database is awaited for one device after the other; an error is
\* logged and the sweep goes on.
SweepRelease(d) ==
    /\ sweep.pc = "db" /\ d \in sweep.ids
    /\ sweep' = [pc |-> IF sweep.ids = {d} THEN "idle" ELSE "db",
                 ids |-> sweep.ids \ {d}]
    /\ UNCHANGED <<inner, sender_map, session, admin>>

-----------------------------------------------------------------------------
(***************************************************************************)
(* Deletion of a device by the administrator                               *)
(***************************************************************************)

\* is_device_online answers no; otherwise the request is refused.
DeleteCheck(d) ==
    /\ admin.pc = "idle"
    /\ Known(d) => ~device_map[d].is_connected
    /\ admin' = [pc |-> "remove", device |-> d]
    /\ UNCHANGED <<inner, sender_map, session, sweep>>

remove_device_from_memory ==
    LET d == admin.device
    IN /\ admin.pc = "remove"
       /\ IF Known(d)
          THEN LET ip == device_map[d].ip
               IN /\ data_version' = data_version + 1
                  /\ device_map' = [device_map EXCEPT ![d] = None]
                  /\ IF ip = None
                     THEN UNCHANGED <<device_ip_map, sender_map>>
                     ELSE /\ device_ip_map' = [device_ip_map EXCEPT ![ip] = None]
                          /\ sender_map' = [sender_map EXCEPT ![ip] = None]
          ELSE UNCHANGED <<inner, sender_map>>
       /\ admin' = [admin EXCEPT !.pc = "db"]
       /\ UNCHANGED <<session, sweep>>

\* The database has deleted the row or failed: the request is answered.
DeleteRow ==
    /\ admin.pc = "db"
    /\ admin' = [pc |-> "idle", device |-> None]
    /\ UNCHANGED <<inner, sender_map, session, sweep>>

-----------------------------------------------------------------------------
Sweep == SweepCollect \/ SweepRemove \/ \E d \in Devices : SweepRelease(d)

Drop(s) == offline_ip(s) \/ release_pre_registered_ip(s) \/ ReleaseSender(s)

Next ==
    \/ \E s \in Sessions : \/ \E req \in Request : register(s, req)
                           \/ confirm_registration(s)
                           \/ \E ok \in BOOLEAN : ConfirmAnswer(s, ok)
                           \/ Drop(s)
    \/ \E d \in Devices : LeaseLapses(d) \/ DeleteCheck(d)
    \/ Sweep
    \/ remove_device_from_memory
    \/ DeleteRow

\* One lifetime of the process.
Spec == Init /\ [][Next]_vars

-----------------------------------------------------------------------------
(***************************************************************************)
(* Properties of one lifetime                                              *)
(***************************************************************************)

HasIp(d) == Known(d) /\ device_map[d].ip # None

\* Inductive core of UniqueLease: the address of an entry is indexed under
\* its device, whatever allocate_ip, the sweep, a deletion and the release
\* of pre-registrations do in between (NetworkStateInner, lines 486-686).
LeaseIndexed ==
    \A d \in Devices : HasIp(d) => device_ip_map[device_map[d].ip] = d

\* No two devices of a network hold the same address, online or offline:
\* what find_available_ip and the check of device_ip_map are there for.
UniqueLease ==
    \A d, e \in Devices :
        d # e /\ HasIp(d) /\ HasIp(e) => device_map[d].ip # device_map[e].ip

\* A frame is never handed to the wrong client: the Sender registered for a
\* leased address belongs to the latest session of the device that holds the
\* lease, although sender_map is changed outside the mutex too.
SenderIsLessee ==
    \A d \in Devices : HasIp(d) =>
        LET ip == device_map[d].ip
        IN sender_map[ip] # None => sender_map[ip] = device_map[d].random_id

\* A device shown as connected has a live session for exactly its address,
\* so the Drop of that session will take it offline and its lease can end.
ConnectedHasSession ==
    \A d \in Devices : Known(d) /\ device_map[d].is_connected =>
        LET s == device_map[d].random_id
        IN /\ s \in Sessions
           /\ session[s].status \in {"pending", "confirming", "confirmed"}
           /\ session[s].device = d
           /\ session[s].ip = device_map[d].ip

\* The gateway's address, and addresses outside the subnet, are never leased.
LeaseInNet ==
    \A d \in Devices : HasIp(d) => device_map[d].ip \in Net \ {Gateway}

\* What changed_client_simple_list publishes of the devices.
PublishedList ==
    [d \in Devices |->
        IF HasIp(d)
        THEN [ip |-> device_map[d].ip, online |-> device_map[d].is_connected,
              data_version |-> device_map[d].data_version]
        ELSE None]

Published == INSTANCE DeviceList WITH Addresses <- Ips, list <- PublishedList

\* The leases implement DeviceList: every change a client can see moves
\* data_version up by one, a changed device carries the new version and no
\* address is published twice.  changed_client_simple_list relies on all of
\* it, and every path through allocate_ip, Drop, the sweep and a deletion
\* has to keep it.
ImplementsDeviceList == Published!Spec

\* Cleanup task and clock run on; clients and the administrator need not.
Fairness ==
    /\ WF_vars(Sweep)
    /\ \A d \in Devices : WF_vars(LeaseLapses(d))

FairSpec == Spec /\ Fairness

\* The lease of a device that stays offline ends: its address becomes free
\* again (release_expired_ips).
OfflineLeaseEnds ==
    \A d \in Devices :
        (Known(d) /\ ~device_map[d].is_connected)
            ~> (~Known(d) \/ device_map[d].is_connected)
=============================================================================
