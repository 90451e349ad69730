----------------------------- MODULE LeaseStore -----------------------------
(***************************************************************************)
(* NetworkState together with the table devices of the database (db.rs)    *)
(* and with restarts of the server.                                        *)
(*                                                                         *)
(* A normal registration and the Drop of a confirmed session each spawn a  *)
(* task that writes the row; the tasks run in any order, may fail, and are *)
(* lost when the process dies.  A confirmation awaits its write, the sweep *)
(* and the administrator's deletion await theirs after the mutex has been  *)
(* released.                                                               *)
(***************************************************************************)
EXTENDS NetworkState

CONSTANT MaxRestarts   \* bound on the number of restarts

ASSUME MaxRestartsAssumption == MaxRestarts \in Nat

SaveTask == [session : Sessions, kind : {"register", "offline"},
             device : Devices, record : DeviceRecord]

VARIABLES
    db,        \* device -> its row, or None
    saves,     \* spawned save_or_update_device tasks that have not run yet
    confirm,   \* session -> the record its confirmation is writing, or None
    restarts   \* restarts so far

storeVars == <<vars, db, saves, confirm, restarts>>

StoreTypeOK ==
    /\ TypeOK
    /\ db \in [Devices -> DeviceRecord \cup {None}]
    /\ saves \subseteq SaveTask
    /\ confirm \in [Sessions -> DeviceRecord \cup {None}]
    /\ restarts \in 0 .. MaxRestarts

StoreInit ==
    /\ db \in InitRows
    /\ LoadedFrom(db)
    /\ saves = {}
    /\ confirm = [s \in Sessions |-> None]
    /\ restarts = 0

\* A write of the row of device d to the value row; it may fail.
MayWrite(d, row) == db' \in {[db EXCEPT ![d] = row], db}

Spawn(s, kind, d, ip) ==
    saves' = saves \cup {[session |-> s, kind |-> kind, device |-> d,
                          record |-> [ip |-> ip]]}

-----------------------------------------------------------------------------
\* register, with the task it spawns in normal mode.
StoreRegister(s, req) ==
    /\ register(s, req)
    /\ IF session'[s].status = "confirmed"
       THEN Spawn(s, "register", req.device, session'[s].ip)
       ELSE UNCHANGED saves
    /\ UNCHANGED <<db, confirm, restarts>>

\* confirm_registration reads the entry of the device ...
StoreConfirm(s) ==
    /\ confirm_registration(s)
    /\ confirm' = [confirm EXCEPT ![s] =
          IF Known(session[s].device)
          THEN [ip |-> device_map[session[s].device].ip] ELSE None]
    /\ UNCHANGED <<db, saves, restarts>>

\* ... and writes it; without an entry there is nothing to fail.
StoreConfirmAnswer(s) ==
    /\ \/ /\ confirm[s] # None
          /\ db' = [db EXCEPT ![session[s].device] = confirm[s]]
          /\ ConfirmAnswer(s, TRUE)
       \/ /\ confirm[s] # None
          /\ ConfirmAnswer(s, FALSE)
          /\ UNCHANGED db
       \/ /\ confirm[s] = None
          /\ ConfirmAnswer(s, TRUE)
          /\ UNCHANGED db
    /\ confirm' = [confirm EXCEPT ![s] = None]
    /\ UNCHANGED <<saves, restarts>>

\* Drop, with the task a confirmed session spawns when it was current.
StoreDrop(s) ==
    /\ Drop(s)
    /\ IF session[s].status = "confirmed" /\ IsCurrent(s)
       THEN Spawn(s, "offline", session[s].device, session[s].ip)
       ELSE UNCHANGED saves
    /\ UNCHANGED <<db, confirm, restarts>>

\* The sweep; release_device_ip clears the address of a row and keeps it.
StoreSweep ==
    /\ \/ (SweepCollect \/ SweepRemove) /\ UNCHANGED db
       \/ \E d \in Devices :
             /\ SweepRelease(d)
             /\ IF db[d] = None THEN UNCHANGED db
                ELSE MayWrite(d, [ip |-> None])
    /\ UNCHANGED <<saves, confirm, restarts>>

\* delete_device; the row goes last.
StoreDelete ==
    /\ \/ (\E d \in Devices : DeleteCheck(d)) /\ UNCHANGED db
       \/ remove_device_from_memory /\ UNCHANGED db
       \/ DeleteRow /\ MayWrite(admin.device, None)
    /\ UNCHANGED <<saves, confirm, restarts>>

StoreLapse ==
    /\ \E d \in Devices : LeaseLapses(d)
    /\ UNCHANGED <<db, saves, confirm, restarts>>

\* A spawned task runs.
save_or_update_device(t) ==
    /\ MayWrite(t.device, t.record)
    /\ saves' = saves \ {t}
    /\ UNCHANGED <<vars, confirm, restarts>>

\* The process dies and comes back: only the database survives.  When it
\* cannot be read, build_initial_inner_state starts with an empty network.
Restart ==
    /\ restarts < MaxRestarts
    /\ restarts' = restarts + 1
    /\ session' = [s \in Sessions |-> IF session[s].status = "new"
                                      THEN session[s] ELSE Closed]
    /\ \/ /\ device_map' = DeviceMapOf(db)
          /\ device_ip_map' \in IpMapsOf(db)
       \/ /\ device_map' = [d \in Devices |-> None]
          /\ device_ip_map' = [ip \in Ips |-> None]
    /\ data_version' = 0
    /\ sender_map' = [ip \in Ips |-> None]
    /\ sweep' = [pc |-> "idle", ids |-> {}]
    /\ admin' = [pc |-> "idle", device |-> None]
    /\ saves' = {}
    /\ confirm' = [s \in Sessions |-> None]
    /\ UNCHANGED db

StoreNext ==
    \/ \E s \in Sessions : \/ \E req \in Request : StoreRegister(s, req)
                           \/ StoreConfirm(s)
                           \/ StoreConfirmAnswer(s)
                           \/ StoreDrop(s)
    \/ StoreSweep
    \/ StoreDelete
    \/ StoreLapse
    \/ \E t \in saves : save_or_update_device(t)
    \/ Restart

\* The cleanup task and the clock run on.
StoreSpec ==
    /\ StoreInit
    /\ [][StoreNext]_storeVars
    /\ WF_storeVars(StoreSweep)
    /\ WF_storeVars(StoreLapse)

-----------------------------------------------------------------------------
\* What a restart may not break: whatever rows were written and in whatever
\* order, nobody is shown as connected who is not, and no address outside
\* the subnet is leased.
StoreInv == StoreTypeOK /\ ConnectedHasSession /\ LeaseInNet
=============================================================================
