----------------------------- MODULE ClientList -----------------------------
(***************************************************************************)
(* How a client learns which other devices exist and which are online.     *)
(*                                                                         *)
(* Every 5 seconds the client sends each of its servers a PingTurn with    *)
(* the version of the list it holds; a server whose list has another       *)
(* version answers with PushClientIps, complete when the client is ahead   *)
(* and with the changed devices only when it is behind.  The client keeps  *)
(* one map per server and merges them into client_simple_list.             *)
(*                                                                         *)
(* A connection delivers in order.  It may break at any time; the client   *)
(* then keeps its maps and versions and connects again.  An answer is lost *)
(* when the server's send queue for the client is full (try_send).  The    *)
(* server's list changes as DeviceList allows; the client's own entry is   *)
(* filtered out on both sides and is not modelled.  Round trip times are   *)
(* left out.                                                               *)
(***************************************************************************)
EXTENDS Naturals, Sequences

CONSTANTS
    Devices,       \* the other devices
    Addresses,     \* their virtual addresses
    Servers,       \* server ids of the client's configuration
    None,
    MaxVersion,    \* bound on data_version
    MaxUnderWay,   \* bound on the pings and answers under way on a link
    MaxDrops,      \* bound on answers lost to a full queue
    MaxRestarts    \* bound on restarts of a server

ASSUME BoundsAssumption ==
    {MaxVersion, MaxUnderWay, MaxDrops, MaxRestarts} \subseteq Nat

VARIABLES
    list,                \* server -> the device list it publishes
    data_version,        \* server -> the version of that list
    link,                \* server -> the client is connected and registered
    pings,               \* server -> versions in the PingTurns under way to it
    pushes,              \* server -> PushClientIps under way from it
    server_node_map,     \* client: server -> ServerNodeInfo
    client_simple_list,  \* client: the merged list, address -> online or None
    current,             \* history: the map of the server stems from its
                         \*   present lifetime, without a gap
    drops, restarts

serverVars == <<list, data_version>>
clientVars == <<server_node_map, client_simple_list>>
vars == <<list, data_version, link, pings, pushes, server_node_map,
          client_simple_list, current, drops, restarts>>

DL(v) == INSTANCE DeviceList WITH
    list <- list[v], data_version <- data_version[v]

ListEntry == [ip : Addresses, online : BOOLEAN, data_version : Nat]

ASSUME NoneAssumption == None \notin BOOLEAN /\ None \notin ListEntry

ClientMap == [Addresses -> BOOLEAN \cup {None}]
ServerNodeInfo == [connected : BOOLEAN, data_version : Nat, client_map : ClientMap]
\* since: history, the version of the ping that is answered.
ClientSimpleInfoList ==
    [data_version : Nat, is_all : BOOLEAN, since : Nat,
     list : SUBSET [ip : Addresses, online : BOOLEAN]]

TypeOK ==
    /\ list \in [Servers -> [Devices -> ListEntry \cup {None}]]
    /\ data_version \in [Servers -> Nat]
    /\ link \in [Servers -> BOOLEAN]
    /\ pings \in [Servers -> Seq(Nat)]
    /\ pushes \in [Servers -> Seq(ClientSimpleInfoList)]
    /\ server_node_map \in [Servers -> ServerNodeInfo]
    /\ client_simple_list \in ClientMap
    /\ current \in [Servers -> BOOLEAN]
    /\ drops \in 0 .. MaxDrops
    /\ restarts \in 0 .. MaxRestarts

NoClients == [ip \in Addresses |-> None]

\* update_server: the servers of the configuration, nothing known of them.
\* Registration has just succeeded everywhere.
Init ==
    /\ list \in [Servers -> DL(CHOOSE v \in Servers : TRUE)!LoadedLists]
    /\ data_version = [v \in Servers |-> 1]
    /\ link = [v \in Servers |-> TRUE]
    /\ pings = [v \in Servers |-> <<>>]
    /\ pushes = [v \in Servers |-> <<>>]
    /\ server_node_map = [v \in Servers |->
          [connected |-> TRUE, data_version |-> 0, client_map |-> NoClients]]
    /\ client_simple_list = NoClients
    /\ current = [v \in Servers |-> TRUE]
    /\ drops = 0
    /\ restarts = 0

-----------------------------------------------------------------------------
\* The server's list changes (register, offline_ip, the sweep ...).
ServerChanges(v) ==
    /\ data_version[v] < MaxVersion
    /\ data_version' = [data_version EXCEPT ![v] = @ + 1]
    /\ \/ \E d \in Devices, ip \in Addresses, on \in BOOLEAN :
             /\ DL(v)!FreeFor(list[v], d, ip)
             /\ list' = [list EXCEPT ![v] =
                            DL(v)!Renewed(@, data_version[v], d, ip, on)]
       \/ \E ds \in SUBSET Devices :
             list' = [list EXCEPT ![v] = DL(v)!Removed(@, ds)]
    /\ UNCHANGED <<link, pings, pushes, clientVars, current, drops, restarts>>

\* The tick of ping_interval.
handle_ping(v) ==
    /\ link[v]
    /\ Len(pings[v]) + Len(pushes[v]) < MaxUnderWay
    /\ pings' = [pings EXCEPT ![v] = Append(@, server_node_map[v].data_version)]
    /\ UNCHANGED <<serverVars, link, pushes, clientVars, current, drops, restarts>>

\* The published devices that changed after version since.
Published(v, since) ==
    {[ip |-> list[v][d].ip, online |-> list[v][d].online] :
        d \in {e \in Devices : /\ list[v][e] # None
                               /\ list[v][e].data_version > since}}

AllPublished(v) ==
    {[ip |-> list[v][d].ip, online |-> list[v][d].online] :
        d \in {e \in Devices : list[v][e] # None}}

\* Mutant: a client that is behind misses the change after its version.
IncrementalOffByOne(v, version) ==
    [data_version |-> data_version[v], is_all |-> version > data_version[v],
     since |-> version,
     list |-> IF version > data_version[v] THEN AllPublished(v)
              ELSE Published(v, version + 1)]

\* The answer to a client with another version.
changed_client_simple_list(v, version) ==
    [data_version |-> data_version[v], is_all |-> version > data_version[v],
     since |-> version,
     list |-> IF version > data_version[v] THEN AllPublished(v)
              ELSE Published(v, version)]

\* The server answers a PingTurn.  The PongTurn for a client that is up to
\* date changes nothing here; a PushClientIps may find the queue full.
AnswerPing(v) ==
    /\ pings[v] # <<>>
    /\ pings' = [pings EXCEPT ![v] = Tail(@)]
    /\ \/ /\ Head(pings[v]) = data_version[v]
          /\ UNCHANGED <<pushes, drops>>
       \/ /\ Head(pings[v]) # data_version[v]
          /\ pushes' = [pushes EXCEPT ![v] = Append(@,
                changed_client_simple_list(v, Head(pings[v])))]
          /\ UNCHANGED drops
       \/ /\ Head(pings[v]) # data_version[v]
          /\ drops < MaxDrops
          /\ drops' = drops + 1
          /\ UNCHANGED pushes
    /\ UNCHANGED <<serverVars, link, clientVars, current, restarts>>

-----------------------------------------------------------------------------
MapOf(infos) ==
    [ip \in Addresses |-> IF \E i \in infos : i.ip = ip
                          THEN (CHOOSE i \in infos : i.ip = ip).online
                          ELSE None]

Extended(m, n) == [ip \in Addresses |-> IF n[ip] = None THEN m[ip] ELSE n[ip]]

\* A device is online when it is online for one of the servers.
Merged(nodes) ==
    [ip \in Addresses |->
        LET said == {nodes[v].client_map[ip] : v \in Servers} \ {None}
        IN IF said = {} THEN None ELSE TRUE \in said]

\* Mutant: the version of the list is not taken over.
UpdateMapOnly(v, msg) ==
    LET m == MapOf(msg.list)
        node == [server_node_map[v] EXCEPT
                    !.client_map = IF msg.is_all THEN m ELSE Extended(@, m)]
    IN /\ server_node_map' = [server_node_map EXCEPT ![v] = node]
       /\ client_simple_list' = Merged(server_node_map')

update_client_simple_list(v, msg) ==
    LET m == MapOf(msg.list)
        node == [server_node_map[v] EXCEPT
                    !.data_version = msg.data_version,
                    !.client_map = IF msg.is_all THEN m ELSE Extended(@, m)]
    IN /\ server_node_map' = [server_node_map EXCEPT ![v] = node]
       /\ client_simple_list' = Merged(server_node_map')

\* handle_server_data, PushClientIps.
ReceivePush(v) ==
    /\ pushes[v] # <<>>
    /\ pushes' = [pushes EXCEPT ![v] = Tail(@)]
    /\ update_client_simple_list(v, Head(pushes[v]))
    /\ current' = [current EXCEPT ![v] =
          \/ Head(pushes[v]).is_all
          \/ @ /\ Head(pushes[v]).since <= server_node_map[v].data_version]
    /\ UNCHANGED <<serverVars, link, pings, drops, restarts>>

-----------------------------------------------------------------------------
\* The connection breaks (error, 20 seconds of silence) and with it
\* everything under way.
LinkBreaks(v) ==
    /\ link[v]
    /\ link' = [link EXCEPT ![v] = FALSE]
    /\ pings' = [pings EXCEPT ![v] = <<>>]
    /\ pushes' = [pushes EXCEPT ![v] = <<>>]
    /\ UNCHANGED <<serverVars, clientVars, current, drops, restarts>>

handle_disconnected(v) ==
    /\ ~link[v]
    /\ server_node_map[v].connected
    /\ server_node_map' = [server_node_map EXCEPT ![v].connected = FALSE]
    /\ UNCHANGED <<serverVars, link, pings, pushes, client_simple_list,
                   current, drops, restarts>>

\* connect_and_reg in Normal mode gives the client its address again (with
\* another one it stops), which is a change of the server's list.
handle_connected(v) ==
    /\ ~link[v]
    /\ ~server_node_map[v].connected
    /\ data_version[v] < MaxVersion
    /\ link' = [link EXCEPT ![v] = TRUE]
    /\ data_version' = [data_version EXCEPT ![v] = @ + 1]
    /\ server_node_map' = [server_node_map EXCEPT ![v].connected = TRUE]
    /\ UNCHANGED <<list, pings, pushes, client_simple_list, current, drops,
                   restarts>>

\* The server restarts, or drops the network and loads it again: the devices
\* come from the database, the version starts again at 0.
Restart(v) ==
    /\ restarts < MaxRestarts
    /\ restarts' = restarts + 1
    /\ \E l \in DL(v)!LoadedLists : list' = [list EXCEPT ![v] = l]
    /\ data_version' = [data_version EXCEPT ![v] = 0]
    /\ link' = [link EXCEPT ![v] = FALSE]
    /\ pings' = [pings EXCEPT ![v] = <<>>]
    /\ pushes' = [pushes EXCEPT ![v] = <<>>]
    /\ current' = [current EXCEPT ![v] = server_node_map[v].data_version = 0]
    /\ UNCHANGED <<clientVars, drops>>

Next ==
    \E v \in Servers :
        \/ ServerChanges(v) \/ Restart(v)
        \/ handle_ping(v) \/ AnswerPing(v) \/ ReceivePush(v)
        \/ LinkBreaks(v) \/ handle_disconnected(v) \/ handle_connected(v)

\* The client's loop and the server's handler run while the link is up, and
\* the client keeps reconnecting.
Fairness ==
    \A v \in Servers :
        /\ WF_vars(handle_ping(v)) /\ WF_vars(AnswerPing(v))
        /\ WF_vars(ReceivePush(v)) /\ WF_vars(handle_disconnected(v))
        /\ WF_vars(handle_connected(v))

Spec == Init /\ [][Next]_vars /\ Fairness

-----------------------------------------------------------------------------
(***************************************************************************)
(* Properties                                                              *)
(***************************************************************************)

\* The version a client sends stands for what it knows: everything that was
\* published up to that version in the server's present lifetime is in its
\* map with the present status, whatever answers were lost, answered late or
\* cut off by a broken connection.  (Removed devices are never announced, and
\* devices not seen since the server's start have version 0.)  After a
\* restart of the server this waits for a complete list; it is lost again
\* when an answer to a ping from before that list follows it.
ListIsComplete ==
    \A v \in Servers : current[v] =>
        /\ server_node_map[v].data_version <= data_version[v]
        /\ \A d \in Devices :
              LET e == list[v][d]
              IN /\ e # None
                 /\ 0 < e.data_version
                 /\ e.data_version <= server_node_map[v].data_version
                 => server_node_map[v].client_map[e.ip] = e.online

\* The client's maps are well formed and stand for its versions.
ListInv == TypeOK /\ ListIsComplete

\* Once the server's list has settled, a client that stays connected reaches
\* its version, although answers are lost; then ListIsComplete says that it
\* knows every device that has come online.
ClientCatchesUp ==
    \A v \in Servers :
        <>[]link[v] =>
            <>[](current[v] => server_node_map[v].data_version = data_version[v])
=============================================================================
