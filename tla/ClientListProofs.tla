-------------------------- MODULE ClientListProofs --------------------------
(***************************************************************************)
(* Proofs about ClientList, for any devices, addresses and servers and any *)
(* bounds on versions, messages under way, losses and restarts.            *)
(***************************************************************************)
EXTENDS ClientList, SequenceTheorems, TLAPS

\* A server's list is one that DeviceList allows: no entry is newer than the
\* list, and no address is published twice.
Orderly(v) ==
    \A d \in Devices : list[v][d] # None =>
        /\ list[v][d].data_version <= data_version[v]
        /\ \A e \in Devices \ {d} :
              list[v][e] # None => list[v][e].ip # list[v][d].ip

\* What an answer under way says of the devices that have not changed since:
\* it names all that changed after the version it answers, and nothing of
\* what it says about their addresses is out of date.
Tells(v, p) ==
    \A d \in Devices :
        LET e == list[v][d]
        IN e # None /\ e.data_version <= p.data_version =>
              /\ p.is_all \/ p.since < e.data_version => \E i \in p.list : i.ip = e.ip
              /\ \A i \in p.list : i.ip = e.ip => i.online = e.online

\* Answers arrive in the order in which they were given, none of them newer
\* than the server's list or, in one lifetime, older than the client's.
InOrder(v) ==
    \A k \in DOMAIN pushes[v] :
        LET p == pushes[v][k]
        IN /\ p.data_version <= data_version[v]
           /\ Tells(v, p)
           /\ current[v] => server_node_map[v].data_version <= p.data_version
           /\ \A j \in DOMAIN pushes[v] :
                 j < k => pushes[v][j].data_version <= p.data_version

\* ListIsComplete, for one server.
Complete(v) ==
    current[v] =>
        /\ server_node_map[v].data_version <= data_version[v]
        /\ \A d \in Devices :
              LET e == list[v][d]
              IN /\ e # None
                 /\ 0 < e.data_version
                 /\ e.data_version <= server_node_map[v].data_version
                 => server_node_map[v].client_map[e.ip] = e.online

ServerInv(v) == Orderly(v) /\ InOrder(v) /\ Complete(v)

ListIInv == TypeOK /\ \A v \in Servers : ServerInv(v)

\* A list as it is loaded is well formed, and everybody on it has version 0.
LEMMA LoadedIsOrderly ==
    ASSUME NEW v, NEW l \in DL(v)!LoadedLists
    PROVE  /\ l \in [Devices -> ListEntry \cup {None}]
           /\ \A d \in Devices : l[d] # None =>
                 /\ l[d].data_version = 0
                 /\ \A e \in Devices \ {d} : l[e] # None => l[e].ip # l[d].ip
<1>1. /\ l \in [Devices -> [ip : Addresses, online : {FALSE}, data_version : {0}]
                              \cup {None}]
      /\ \A d \in Devices : l[d] # None =>
            \A e \in Devices \ {d} : l[e] # None => l[e].ip # l[d].ip
  BY DEF DL!LoadedLists, DL!FreeFor
<1>2. [ip : Addresses, online : {FALSE}, data_version : {0}] \subseteq ListEntry
  <2>1. {FALSE} \subseteq BOOLEAN /\ {0} \subseteq Nat
    OBVIOUS
  <2>2. QED
    BY <2>1, Zenon DEF ListEntry
<1>3. \A e \in [ip : Addresses, online : {FALSE}, data_version : {0}] :
         e.data_version = 0
  OBVIOUS
<1>4. QED
  BY <1>1, <1>2, <1>3

-----------------------------------------------------------------------------
\* The initial states are well formed, and nothing is under way.
LEMMA InitList == Init => ListIInv
<1> SUFFICES ASSUME Init PROVE ListIInv
  OBVIOUS
<1>1. ASSUME NEW v \in Servers
      PROVE  /\ list[v] \in [Devices -> ListEntry \cup {None}]
             /\ \A d \in Devices : list[v][d] # None =>
                 /\ list[v][d].data_version = 0
                 /\ \A e \in Devices \ {d} :
                       list[v][e] # None => list[v][e].ip # list[v][d].ip
  <2>1. list[v] \in DL(CHOOSE x \in Servers : TRUE)!LoadedLists
    BY DEF Init
  <2>2. QED
    BY <2>1, LoadedIsOrderly
<1>2. NoClients \in ClientMap
  BY DEF NoClients, ClientMap
<1>3. list \in [Servers -> [Devices -> ListEntry \cup {None}]]
  BY <1>1 DEF Init
<1>4. TypeOK
  BY <1>2, <1>3, BoundsAssumption DEF Init, TypeOK, ServerNodeInfo
<1>5. ASSUME NEW v \in Servers PROVE ServerInv(v)
  <2>1. Orderly(v)
    BY <1>1 DEF Init, Orderly
  <2>2. InOrder(v)
    BY DEF Init, InOrder
  <2>3. Complete(v)
    BY <1>1 DEF Init, Complete
  <2>4. QED
    BY <2>1, <2>2, <2>3 DEF ServerInv
<1>6. QED
  BY <1>4, <1>5 DEF ListIInv

\* The merged list is well formed: a device is online, offline or unknown.
LEMMA MergedType == ASSUME NEW nodes PROVE Merged(nodes) \in ClientMap
<1>1. \A said : (IF said = {} THEN None ELSE TRUE \in said) \in BOOLEAN \cup {None}
  OBVIOUS
<1>2. QED
  BY <1>1 DEF Merged, ClientMap

\* What the client makes of an answer is well formed.
LEMMA NewMapType ==
    ASSUME NEW msg \in ClientSimpleInfoList, NEW m \in ClientMap
    PROVE  /\ MapOf(msg.list) \in ClientMap
           /\ Extended(m, MapOf(msg.list)) \in ClientMap
<1>1. ASSUME NEW ip \in Addresses PROVE MapOf(msg.list)[ip] \in BOOLEAN \cup {None}
  <2>1. CASE \E i \in msg.list : i.ip = ip
    <3>1. (CHOOSE i \in msg.list : i.ip = ip) \in [ip : Addresses, online : BOOLEAN]
      BY <2>1 DEF ClientSimpleInfoList
    <3>2. (CHOOSE i \in msg.list : i.ip = ip).online \in BOOLEAN
      BY <3>1
    <3>3. QED
      BY <2>1, <3>2 DEF MapOf
  <2>2. CASE ~\E i \in msg.list : i.ip = ip
    BY <2>2 DEF MapOf
  <2>3. QED
    BY <2>1, <2>2
<1>2. MapOf(msg.list) \in ClientMap
  BY <1>1 DEF MapOf, ClientMap
<1>3. QED
  BY <1>2 DEF Extended, ClientMap

\* The answer to a PingTurn is well formed.
LEMMA AnswerType ==
    ASSUME TypeOK, NEW v \in Servers, NEW version \in Nat
    PROVE  changed_client_simple_list(v, version) \in ClientSimpleInfoList
<1>1. \A d \in Devices : list[v][d] # None => list[v][d] \in ListEntry
  BY DEF TypeOK
<1>2. AllPublished(v) \subseteq [ip : Addresses, online : BOOLEAN]
  BY <1>1 DEF AllPublished, ListEntry
<1>3. Published(v, version) \subseteq [ip : Addresses, online : BOOLEAN]
  BY <1>1 DEF Published, ListEntry
<1>4. data_version[v] \in Nat
  BY DEF TypeOK
<1>5. QED
  BY <1>2, <1>3, <1>4 DEF changed_client_simple_list, ClientSimpleInfoList

-----------------------------------------------------------------------------
\* Every step keeps the types.
LEMMA StepType == TypeOK /\ [Next]_vars => TypeOK'
<1> SUFFICES ASSUME TypeOK, [Next]_vars PROVE TypeOK'
  OBVIOUS
<1> USE DEF TypeOK
<1>1. ASSUME NEW v \in Servers, ServerChanges(v) PROVE TypeOK'
  <2>1. data_version[v] + 1 \in Nat
    OBVIOUS
  <2>2. ASSUME NEW d \in Devices, NEW ip \in Addresses, NEW on \in BOOLEAN,
               list' = [list EXCEPT ![v] = DL(v)!Renewed(@, data_version[v], d, ip, on)]
        PROVE  list' \in [Servers -> [Devices -> ListEntry \cup {None}]]
    <3>1. [ip |-> ip, online |-> on, data_version |-> data_version[v] + 1] \in ListEntry
      BY <2>1 DEF ListEntry
    <3>2. DL(v)!Renewed(list[v], data_version[v], d, ip, on)
             \in [Devices -> ListEntry \cup {None}]
      BY <3>1 DEF DL!Renewed
    <3>3. QED
      BY <2>2, <3>2
  <2>3. ASSUME NEW ds \in SUBSET Devices,
               list' = [list EXCEPT ![v] = DL(v)!Removed(@, ds)]
        PROVE  list' \in [Servers -> [Devices -> ListEntry \cup {None}]]
    <3>1. DL(v)!Removed(list[v], ds) \in [Devices -> ListEntry \cup {None}]
      BY DEF DL!Removed
    <3>2. QED
      BY <2>3, <3>1
  <2>4. QED
    BY <1>1, <2>1, <2>2, <2>3 DEF ServerChanges, clientVars
<1>2. ASSUME NEW v \in Servers, Restart(v) PROVE TypeOK'
  <2>1. PICK l \in DL(v)!LoadedLists : list' = [list EXCEPT ![v] = l]
    BY <1>2 DEF Restart
  <2>2. list' \in [Servers -> [Devices -> ListEntry \cup {None}]]
    BY <2>1, LoadedIsOrderly
  <2>3. current' \in [Servers -> BOOLEAN]
    BY <1>2 DEF Restart
  <2>4. QED
    BY <1>2, <2>2, <2>3, BoundsAssumption DEF Restart, clientVars
<1>3. ASSUME NEW v \in Servers, handle_ping(v) PROVE TypeOK'
  <2>1. server_node_map[v].data_version \in Nat
    BY DEF ServerNodeInfo
  <2>2. Append(pings[v], server_node_map[v].data_version) \in Seq(Nat)
    BY <2>1
  <2>3. QED
    BY <1>3, <2>2 DEF handle_ping, serverVars, clientVars
<1>4. ASSUME NEW v \in Servers, AnswerPing(v) PROVE TypeOK'
  <2>1. Head(pings[v]) \in Nat /\ Tail(pings[v]) \in Seq(Nat)
    BY <1>4 DEF AnswerPing
  <2>2. changed_client_simple_list(v, Head(pings[v])) \in ClientSimpleInfoList
    BY <2>1, AnswerType
  <2>3. Append(pushes[v], changed_client_simple_list(v, Head(pings[v])))
           \in Seq(ClientSimpleInfoList)
    BY <2>2
  <2>4. pushes' \in [Servers -> Seq(ClientSimpleInfoList)]
    BY <1>4, <2>3 DEF AnswerPing
  <2>5. drops' \in 0 .. MaxDrops
    <3>1. drops \in 0 .. MaxDrops /\ MaxDrops \in Nat
      BY BoundsAssumption
    <3>2. drops' = drops \/ (drops < MaxDrops /\ drops' = drops + 1)
      BY <1>4 DEF AnswerPing
    <3> HIDE DEF TypeOK
    <3>3. QED
      BY <3>1, <3>2
  <2>6. pings' \in [Servers -> Seq(Nat)]
    BY <1>4, <2>1 DEF AnswerPing
  <2>7. UNCHANGED <<serverVars, link, clientVars, current, restarts>>
    BY <1>4 DEF AnswerPing
  <2>8. QED
    BY <2>4, <2>5, <2>6, <2>7 DEF serverVars, clientVars
<1>5. ASSUME NEW v \in Servers, ReceivePush(v) PROVE TypeOK'
  <2> DEFINE msg == Head(pushes[v])
             m == MapOf(msg.list)
             old == server_node_map[v]
             cm == IF msg.is_all THEN m ELSE Extended(old.client_map, m)
             node == [old EXCEPT !.data_version = msg.data_version, !.client_map = cm]
  <2>1. msg \in ClientSimpleInfoList /\ Tail(pushes[v]) \in Seq(ClientSimpleInfoList)
    BY <1>5 DEF ReceivePush
  <2>2. old \in ServerNodeInfo /\ old.client_map \in ClientMap
    BY DEF ServerNodeInfo
  <2>3. cm \in ClientMap
    BY <2>1, <2>2, NewMapType
  <2>4. msg.data_version \in Nat
    BY <2>1 DEF ClientSimpleInfoList
  <2>5. server_node_map' = [server_node_map EXCEPT ![v] = node]
        /\ client_simple_list' = Merged(server_node_map')
    BY <1>5 DEF ReceivePush, update_client_simple_list
  <2> HIDE DEF cm
  <2>6. node \in ServerNodeInfo
    <3> HIDE DEF TypeOK, old, msg
    <3>1. QED
      BY <2>2, <2>3, <2>4 DEF ServerNodeInfo
  <2> HIDE DEF node
  <2>7. server_node_map' \in [Servers -> ServerNodeInfo]
    BY <2>5, <2>6
  <2>8. client_simple_list' \in ClientMap
    BY <2>5, MergedType
  <2>9. current' \in [Servers -> BOOLEAN]
    BY <1>5 DEF ReceivePush
  <2>10. QED
    BY <1>5, <2>1, <2>7, <2>8, <2>9 DEF ReceivePush, serverVars
<1>6. ASSUME NEW v \in Servers, LinkBreaks(v) PROVE TypeOK'
  BY <1>6 DEF LinkBreaks, serverVars, clientVars
<1>7. ASSUME NEW v \in Servers, handle_disconnected(v) PROVE TypeOK'
  BY <1>7 DEF handle_disconnected, serverVars, ServerNodeInfo
<1>8. ASSUME NEW v \in Servers, handle_connected(v) PROVE TypeOK'
  <2>1. server_node_map' \in [Servers -> ServerNodeInfo]
    BY <1>8 DEF handle_connected, ServerNodeInfo
  <2>2. data_version' \in [Servers -> Nat]
    BY <1>8 DEF handle_connected
  <2>3. QED
    BY <1>8, <2>1, <2>2 DEF handle_connected
<1>9. CASE UNCHANGED vars
  BY <1>9 DEF vars
<1>10. QED
  BY <1>1, <1>2, <1>3, <1>4, <1>5, <1>6, <1>7, <1>8, <1>9 DEF Next

-----------------------------------------------------------------------------
\* What a server and the client's knowledge of it are, does not depend on the
\* other servers.
LEMMA OtherServers ==
    ASSUME NEW w \in Servers, ServerInv(w), list'[w] = list[w],
           data_version'[w] = data_version[w], pushes'[w] = pushes[w],
           current'[w] = current[w], server_node_map'[w] = server_node_map[w]
    PROVE  ServerInv(w)'
  BY DEF ServerInv, Orderly, InOrder, Tells, Complete

\* What the invariant says of the versions of one server, as numbers.
LEMMA VersionTypes ==
    ASSUME TypeOK, NEW v \in Servers
    PROVE  /\ data_version[v] \in Nat
           /\ server_node_map[v].data_version \in Nat
           /\ \A k \in DOMAIN pushes[v] :
                 pushes[v][k] \in ClientSimpleInfoList
                 /\ pushes[v][k].data_version \in Nat
           /\ \A d \in Devices : list[v][d] # None =>
                 list[v][d] \in ListEntry /\ list[v][d].data_version \in Nat
<1>1. \A k \in DOMAIN pushes[v] : pushes[v][k] \in ClientSimpleInfoList
  BY ElementOfSeq DEF TypeOK
<1>2. \A d \in Devices : list[v][d] # None => list[v][d] \in ListEntry
  BY DEF TypeOK
<1>3. QED
  BY <1>1, <1>2 DEF TypeOK, ServerNodeInfo, ClientSimpleInfoList, ListEntry

\* A list that has only entries of the old one and newer ones keeps what the
\* answers under way and the client's map say of it.
LEMMA ChangesAreNewer ==
    ASSUME TypeOK, NEW v \in Servers, ServerInv(v),
           \A d \in Devices : list'[v][d] # None =>
              list'[v][d] = list[v][d] \/ list'[v][d].data_version = data_version[v] + 1,
           data_version'[v] = data_version[v] + 1,
           UNCHANGED <<pushes, server_node_map, current>>
    PROVE  InOrder(v)' /\ Complete(v)'
<1>1. ASSUME NEW d \in Devices, list'[v][d] # None,
             list'[v][d].data_version <= data_version[v]
      PROVE  list'[v][d] = list[v][d]
  BY <1>1, VersionTypes
<1>2. ASSUME NEW k \in DOMAIN pushes[v] PROVE Tells(v, pushes[v][k])'
  <2> DEFINE p == pushes[v][k]
  <2>1. p.data_version <= data_version[v] /\ p.data_version \in Nat
        /\ data_version[v] \in Nat /\ Tells(v, p)
    BY VersionTypes DEF ServerInv, InOrder
  <2>2. ASSUME NEW d \in Devices, list'[v][d] # None,
               list'[v][d].data_version <= p.data_version
        PROVE  list'[v][d] = list[v][d]
    <3>1. CASE list'[v][d].data_version = data_version[v] + 1
      BY <2>1, <2>2, <3>1
    <3>2. QED
      BY <2>2, <3>1
  <2>3. p' = p
    OBVIOUS
  <2> HIDE DEF p
  <2>4. Tells(v, p)'
    BY <2>1, <2>2, <2>3 DEF Tells
  <2>5. QED
    BY <2>4 DEF p
<1>3. InOrder(v)'
  <2>1. \A k \in DOMAIN pushes[v] : pushes[v][k].data_version <= data_version'[v]
    BY VersionTypes DEF ServerInv, InOrder
  <2>2. QED
    BY <1>2, <2>1 DEF ServerInv, InOrder
<1>4. Complete(v)'
  <2> SUFFICES ASSUME current[v]
               PROVE  /\ server_node_map[v].data_version <= data_version'[v]
                      /\ \A d \in Devices :
                           LET e == list'[v][d]
                           IN /\ e # None /\ 0 < e.data_version
                              /\ e.data_version <= server_node_map[v].data_version
                              => server_node_map[v].client_map[e.ip] = e.online
    BY DEF Complete
  <2>1. server_node_map[v].data_version <= data_version[v]
    BY DEF ServerInv, Complete
  <2>2. ASSUME NEW d \in Devices, list'[v][d] # None,
               list'[v][d].data_version <= server_node_map[v].data_version
        PROVE  list'[v][d] = list[v][d]
    <3>1. CASE list'[v][d].data_version = data_version[v] + 1
      BY <2>1, <2>2, <3>1, VersionTypes
    <3>2. QED
      BY <2>2, <3>1
  <2>3. QED
    BY <2>1, <2>2, VersionTypes DEF ServerInv, Complete
<1>5. QED
  BY <1>3, <1>4

\* A change of the server's list concerns none of what was said of it.
LEMMA ChangeKeepsList ==
    ASSUME ListIInv, NEW v \in Servers, ServerChanges(v) PROVE ServerInv(v)'
<1>0. TypeOK /\ ServerInv(v)
  BY DEF ListIInv
<1>a. /\ data_version'[v] = data_version[v] + 1
      /\ UNCHANGED <<pushes, server_node_map, current>>
  BY <1>0 DEF ServerChanges, clientVars, TypeOK
<1>1. ASSUME NEW d \in Devices, NEW ip \in Addresses, NEW on \in BOOLEAN,
             DL(v)!FreeFor(list[v], d, ip),
             list' = [list EXCEPT ![v] = DL(v)!Renewed(@, data_version[v], d, ip, on)]
      PROVE  ServerInv(v)'
  <2> DEFINE new == [ip |-> ip, online |-> on, data_version |-> data_version[v] + 1]
  <2>1. list'[v][d] = new /\ \A e \in Devices \ {d} : list'[v][e] = list[v][e]
    BY <1>0, <1>1 DEF DL!Renewed, TypeOK
  <2>2. \A e \in Devices \ {d} : list[v][e] # None => list[v][e].ip # ip
    BY <1>1 DEF DL!FreeFor
  <2>3. Orderly(v)'
    BY <1>0, <1>a, <2>1, <2>2, VersionTypes DEF Orderly, ServerInv
  <2>4. InOrder(v)' /\ Complete(v)'
    BY <1>0, <1>a, <2>1, ChangesAreNewer
  <2>5. QED
    BY <2>3, <2>4 DEF ServerInv
<1>2. ASSUME NEW ds \in SUBSET Devices,
             list' = [list EXCEPT ![v] = DL(v)!Removed(@, ds)]
      PROVE  ServerInv(v)'
  <2>1. \A e \in Devices : list'[v][e] = IF e \in ds THEN None ELSE list[v][e]
    BY <1>0, <1>2 DEF DL!Removed, TypeOK
  <2>2. Orderly(v)'
    BY <1>0, <1>a, <2>1, VersionTypes DEF Orderly, ServerInv
  <2>3. InOrder(v)' /\ Complete(v)'
    BY <1>0, <1>a, <2>1, ChangesAreNewer
  <2>4. QED
    BY <2>2, <2>3 DEF ServerInv
<1>3. QED
  BY <1>1, <1>2 DEF ServerChanges

\* The client's registration counts the version up and changes nothing else.
LEMMA ConnectedKeepsList ==
    ASSUME ListIInv, NEW v \in Servers, handle_connected(v) PROVE ServerInv(v)'
<1>0. TypeOK /\ ServerInv(v)
  BY DEF ListIInv
<1>1. /\ data_version'[v] = data_version[v] + 1
      /\ server_node_map'[v].data_version = server_node_map[v].data_version
      /\ server_node_map'[v].client_map = server_node_map[v].client_map
      /\ UNCHANGED <<list, pushes, current>>
  BY <1>0 DEF handle_connected, TypeOK, ServerNodeInfo
<1>2. Orderly(v)'
  BY <1>0, <1>1, VersionTypes DEF Orderly, ServerInv
<1>3. InOrder(v)'
  BY <1>0, <1>1, VersionTypes DEF InOrder, Tells, ServerInv
<1>4. Complete(v)'
  BY <1>0, <1>1, VersionTypes DEF Complete, ServerInv
<1>5. QED
  BY <1>2, <1>3, <1>4 DEF ServerInv

\* A restart leaves nothing under way, and nothing that has been said.
LEMMA RestartKeepsList ==
    ASSUME ListIInv, NEW v \in Servers, Restart(v) PROVE ServerInv(v)'
<1>0. TypeOK /\ ServerInv(v)
  BY DEF ListIInv
<1>1. PICK l \in DL(v)!LoadedLists : list' = [list EXCEPT ![v] = l]
  BY DEF Restart
<1>2. /\ list'[v] = l /\ data_version'[v] = 0 /\ pushes'[v] = <<>>
      /\ current'[v] => server_node_map[v].data_version = 0
      /\ UNCHANGED server_node_map
  BY <1>0, <1>1 DEF Restart, TypeOK, clientVars
<1>3. Orderly(v)'
  BY <1>2, LoadedIsOrderly DEF Orderly
<1>4. InOrder(v)'
  BY <1>2 DEF InOrder
<1>5. Complete(v)'
  <2>1. current'[v] => server_node_map'[v].data_version <= data_version'[v]
    BY <1>2
  <2>2. \A d \in Devices : list'[v][d] # None => ~(0 < list'[v][d].data_version)
    BY <1>2, LoadedIsOrderly
  <2>3. QED
    BY <2>1, <2>2, Zenon DEF Complete
<1>6. QED
  BY <1>3, <1>4, <1>5 DEF ServerInv

-----------------------------------------------------------------------------
\* An answer tells what the server's list says when it is given.
LEMMA AnswerTells ==
    ASSUME TypeOK, NEW v \in Servers, Orderly(v), NEW version \in Nat
    PROVE  Tells(v, changed_client_simple_list(v, version))
<1> DEFINE p == changed_client_simple_list(v, version)
<1>0. /\ p.data_version = data_version[v] /\ p.since = version
      /\ p.is_all = (version > data_version[v])
      /\ p.list = IF version > data_version[v] THEN AllPublished(v)
                  ELSE Published(v, version)
  BY DEF changed_client_simple_list
<1> HIDE DEF p
<1>1. \A i \in p.list : \E d \in Devices :
         list[v][d] # None /\ i.ip = list[v][d].ip /\ i.online = list[v][d].online
  BY <1>0 DEF AllPublished, Published
<1>2. ASSUME NEW d \in Devices, list[v][d] # None,
             p.is_all \/ p.since < list[v][d].data_version
      PROVE  \E i \in p.list : i.ip = list[v][d].ip
  <2> DEFINE i == [ip |-> list[v][d].ip, online |-> list[v][d].online]
  <2>1. CASE version > data_version[v]
    <3>1. i \in AllPublished(v)
      BY <1>2 DEF AllPublished
    <3>2. QED
      BY <1>0, <2>1, <3>1
  <2>2. CASE ~(version > data_version[v])
    <3>1. version < list[v][d].data_version
      BY <1>0, <1>2, <2>2
    <3>2. i \in Published(v, version)
      BY <1>2, <3>1, VersionTypes DEF Published
    <3>3. QED
      BY <1>0, <2>2, <3>2
  <2>3. QED
    BY <2>1, <2>2
<1>3. ASSUME NEW d \in Devices, list[v][d] # None, NEW i \in p.list,
             i.ip = list[v][d].ip
      PROVE  i.online = list[v][d].online
  BY <1>1, <1>3 DEF Orderly
<1>4. Tells(v, p)
  BY <1>2, <1>3 DEF Tells
<1>5. QED
  BY <1>4 DEF p

\* The server's answer queues up behind the others, and is the newest.
LEMMA AnswerKeepsList ==
    ASSUME ListIInv, NEW v \in Servers, AnswerPing(v) PROVE ServerInv(v)'
<1>0. TypeOK /\ ServerInv(v)
  BY DEF ListIInv
<1>a. UNCHANGED <<list, data_version, server_node_map, current>>
  BY DEF AnswerPing, serverVars, clientVars
<1>b. Orderly(v)' /\ Complete(v)'
  BY <1>0, <1>a DEF ServerInv, Orderly, Complete
<1>1. CASE UNCHANGED pushes
  BY <1>0, <1>a, <1>b, <1>1 DEF ServerInv, InOrder, Tells
<1> DEFINE version == Head(pings[v])
           p == changed_client_simple_list(v, version)
<1>2. CASE pushes' = [pushes EXCEPT ![v] = Append(@, p)]
  <2>1. version \in Nat
    BY <1>0 DEF AnswerPing, TypeOK
  <2>2. p \in ClientSimpleInfoList /\ Tells(v, p)
    BY <1>0, <2>1, AnswerType, AnswerTells DEF ServerInv
  <2>3. p.data_version = data_version[v]
    BY DEF changed_client_simple_list
  <2>4. pushes[v] \in Seq(ClientSimpleInfoList) /\ pushes'[v] = Append(pushes[v], p)
    BY <1>0, <1>2 DEF TypeOK
  <2> HIDE DEF p
  <2>5. /\ Len(pushes[v]) \in Nat /\ DOMAIN pushes[v] = 1 .. Len(pushes[v])
        /\ DOMAIN pushes'[v] = 1 .. Len(pushes[v]) + 1
        /\ pushes'[v][Len(pushes[v]) + 1] = p
        /\ \A k \in DOMAIN pushes[v] : pushes'[v][k] = pushes[v][k]
    BY <2>2, <2>4
  <2>6. ASSUME NEW k \in DOMAIN pushes'[v]
        PROVE  /\ pushes'[v][k].data_version <= data_version[v]
               /\ Tells(v, pushes'[v][k])
               /\ current[v] => server_node_map[v].data_version
                                   <= pushes'[v][k].data_version
               /\ \A j \in DOMAIN pushes'[v] :
                     j < k => pushes'[v][j].data_version <= pushes'[v][k].data_version
    <3>1. CASE k \in DOMAIN pushes[v]
      BY <1>0, <2>5, <3>1 DEF ServerInv, InOrder
    <3>2. CASE k = Len(pushes[v]) + 1
      BY <1>0, <2>2, <2>3, <2>5, <3>2, VersionTypes DEF ServerInv, InOrder, Complete
    <3>3. QED
      BY <2>5, <2>6, <3>1, <3>2
  <2>7. ASSUME NEW k \in DOMAIN pushes'[v] PROVE Tells(v, pushes[v][k])' <=> Tells(v, pushes'[v][k])
    BY <1>a DEF Tells
  <2>8. InOrder(v)'
    BY <1>a, <2>6, <2>7 DEF InOrder
  <2>9. QED
    BY <1>b, <2>8 DEF ServerInv
<1>3. QED
  BY <1>1, <1>2 DEF AnswerPing

-----------------------------------------------------------------------------
\* Taking an answer over brings the client's map to its version: what it
\* names is as it says, and what it does not name has not changed since.
LEMMA ReceiveCompletes ==
    ASSUME ListIInv, NEW v \in Servers, ReceivePush(v) PROVE Complete(v)'
<1> DEFINE p == Head(pushes[v])
           m == MapOf(p.list)
           old == server_node_map[v]
           cm == IF p.is_all THEN m ELSE Extended(old.client_map, m)
<1>0. TypeOK /\ ServerInv(v)
  BY DEF ListIInv
<1>1. /\ p \in ClientSimpleInfoList /\ p = pushes[v][1] /\ 1 \in DOMAIN pushes[v]
  BY <1>0 DEF ReceivePush, TypeOK
<1>2. /\ p.data_version <= data_version[v] /\ Tells(v, p)
      /\ current[v] => old.data_version <= p.data_version
      /\ p.data_version \in Nat /\ old.data_version \in Nat /\ p.since \in Nat
  BY <1>0, <1>1, VersionTypes DEF ServerInv, InOrder, ClientSimpleInfoList
<1>3. /\ server_node_map'[v].data_version = p.data_version
      /\ server_node_map'[v].client_map = cm
      /\ UNCHANGED <<list, data_version>>
  <2>1. server_node_map' = [server_node_map EXCEPT ![v] =
          [old EXCEPT !.data_version = p.data_version, !.client_map = cm]]
    BY DEF ReceivePush, update_client_simple_list
  <2>2. old \in ServerNodeInfo /\ server_node_map \in [Servers -> ServerNodeInfo]
    BY <1>0 DEF TypeOK
  <2> HIDE DEF old, cm, p
  <2>3. QED
    BY <2>1, <2>2 DEF ReceivePush, serverVars, ServerNodeInfo
<1>4. current'[v] => p.is_all \/ (current[v] /\ p.since <= old.data_version)
  BY <1>0 DEF ReceivePush, TypeOK
<1>5. ASSUME NEW d \in Devices, list[v][d] # None, current'[v],
             0 < list[v][d].data_version, list[v][d].data_version <= p.data_version
      PROVE  cm[list[v][d].ip] = list[v][d].online
  <2> DEFINE e == list[v][d]
  <2>1. e \in ListEntry /\ e.ip \in Addresses /\ e.online \in BOOLEAN
        /\ e.data_version \in Nat
    BY <1>0, <1>5, VersionTypes DEF ListEntry
  <2>2. \A i \in p.list : i.ip = e.ip => i.online = e.online
    BY <1>2, <1>5 DEF Tells
  <2>3. ASSUME NEW i \in p.list, i.ip = e.ip PROVE m[e.ip] = e.online
    <3>1. (CHOOSE j \in p.list : j.ip = e.ip) \in p.list
          /\ (CHOOSE j \in p.list : j.ip = e.ip).ip = e.ip
      BY <2>3
    <3>2. m[e.ip] = (CHOOSE j \in p.list : j.ip = e.ip).online
      BY <2>1, <2>3 DEF MapOf
    <3>3. QED
      BY <2>2, <3>1, <3>2
  <2>4. ASSUME p.is_all \/ p.since < e.data_version PROVE cm[e.ip] = e.online
    <3>1. m[e.ip] = e.online
      BY <1>2, <1>5, <2>3, <2>4 DEF Tells
    <3>2. Extended(old.client_map, m)[e.ip] = e.online
      BY <2>1, <3>1, NoneAssumption DEF Extended
    <3>3. QED
      BY <3>1, <3>2
  <2>5. ASSUME ~(p.is_all \/ p.since < e.data_version) PROVE cm[e.ip] = e.online
    <3>1. e.data_version <= old.data_version /\ current[v]
      BY <1>2, <1>4, <1>5, <2>1, <2>5
    <3>2. old.client_map[e.ip] = e.online
      BY <1>0, <1>5, <3>1 DEF ServerInv, Complete
    <3>3. CASE \E i \in p.list : i.ip = e.ip
      <4>1. m[e.ip] = e.online
        BY <2>3, <3>3
      <4>2. Extended(old.client_map, m)[e.ip] = e.online
        BY <2>1, <3>2, <4>1 DEF Extended
      <4>3. QED
        BY <2>5, <4>2
    <3>4. CASE ~\E i \in p.list : i.ip = e.ip
      <4>1. m[e.ip] = None
        BY <2>1, <3>4 DEF MapOf
      <4>2. Extended(old.client_map, m)[e.ip] = e.online
        BY <2>1, <3>2, <4>1 DEF Extended
      <4>3. QED
        BY <2>5, <4>2
    <3>5. QED
      BY <3>3, <3>4
  <2>6. QED
    BY <2>4, <2>5
<1>6. QED
  BY <1>2, <1>3, <1>5 DEF Complete

\* The answers behind the one that is taken over are no older.
LEMMA ReceiveKeepsList ==
    ASSUME ListIInv, NEW v \in Servers, ReceivePush(v) PROVE ServerInv(v)'
<1>0. TypeOK /\ ServerInv(v)
  BY DEF ListIInv
<1>1. UNCHANGED <<list, data_version>>
  BY DEF ReceivePush, serverVars
<1>2. pushes[v] \in Seq(ClientSimpleInfoList) /\ pushes[v] # <<>>
      /\ pushes'[v] = Tail(pushes[v])
  BY <1>0 DEF ReceivePush, TypeOK
<1>3. /\ 1 \in DOMAIN pushes[v] /\ Head(pushes[v]) = pushes[v][1]
      /\ \A k \in DOMAIN pushes'[v] :
            /\ k \in Nat /\ k + 1 \in DOMAIN pushes[v] /\ 1 < k + 1
            /\ pushes'[v][k] = pushes[v][k + 1]
  BY <1>2
<1>4. server_node_map'[v].data_version = pushes[v][1].data_version
  BY <1>0, <1>3 DEF ReceivePush, update_client_simple_list, TypeOK, ServerNodeInfo
<1>5. ASSUME NEW k \in DOMAIN pushes'[v]
      PROVE  /\ pushes'[v][k].data_version <= data_version[v]
             /\ Tells(v, pushes'[v][k])
             /\ server_node_map'[v].data_version <= pushes'[v][k].data_version
             /\ \A j \in DOMAIN pushes'[v] :
                   j < k => pushes'[v][j].data_version <= pushes'[v][k].data_version
  <2>1. /\ pushes[v][k + 1].data_version <= data_version[v]
        /\ Tells(v, pushes[v][k + 1])
        /\ \A j \in DOMAIN pushes[v] :
              j < k + 1 => pushes[v][j].data_version <= pushes[v][k + 1].data_version
    BY <1>0, <1>3 DEF ServerInv, InOrder
  <2>2. ASSUME NEW j \in DOMAIN pushes'[v], j < k
        PROVE  pushes'[v][j].data_version <= pushes'[v][k].data_version
    BY <1>3, <2>1, <2>2
  <2>3. QED
    BY <1>3, <1>4, <2>1, <2>2
<1>6. \A k \in DOMAIN pushes'[v] : Tells(v, pushes[v][k])' <=> Tells(v, pushes'[v][k])
  BY <1>1 DEF Tells
<1>7. InOrder(v)'
  BY <1>1, <1>5, <1>6 DEF InOrder
<1>8. Orderly(v)'
  BY <1>0, <1>1 DEF ServerInv, Orderly
<1>9. QED
  BY <1>7, <1>8, ReceiveCompletes DEF ServerInv

\* Every step keeps the invariant.
LEMMA StepList == ListIInv /\ [Next]_vars => ListIInv'
<1> SUFFICES ASSUME ListIInv, [Next]_vars PROVE ListIInv'
  OBVIOUS
<1>0. TypeOK /\ TypeOK' /\ \A w \in Servers : ServerInv(w)
  BY StepType DEF ListIInv
<1>a. ASSUME NEW v \in Servers, ServerInv(v)',
             \A w \in Servers : w # v =>
                /\ list'[w] = list[w] /\ data_version'[w] = data_version[w]
                /\ pushes'[w] = pushes[w] /\ current'[w] = current[w]
                /\ server_node_map'[w] = server_node_map[w]
      PROVE  ListIInv'
  BY <1>0, <1>a, OtherServers DEF ListIInv
<1>1. ASSUME NEW v \in Servers, ServerChanges(v) PROVE ListIInv'
  BY <1>0, <1>1, <1>a, ChangeKeepsList DEF ServerChanges, clientVars, TypeOK
<1>2. ASSUME NEW v \in Servers, Restart(v) PROVE ListIInv'
  BY <1>0, <1>2, <1>a, RestartKeepsList DEF Restart, clientVars, TypeOK
<1>3. ASSUME NEW v \in Servers, handle_ping(v) PROVE ListIInv'
  BY <1>0, <1>3, OtherServers DEF ListIInv, handle_ping, serverVars, clientVars
<1>4. ASSUME NEW v \in Servers, AnswerPing(v) PROVE ListIInv'
  BY <1>0, <1>4, <1>a, AnswerKeepsList DEF AnswerPing, serverVars, clientVars, TypeOK
<1>5. ASSUME NEW v \in Servers, ReceivePush(v) PROVE ListIInv'
  BY <1>0, <1>5, <1>a, ReceiveKeepsList
     DEF ReceivePush, update_client_simple_list, serverVars, TypeOK
<1>6. ASSUME NEW v \in Servers, LinkBreaks(v) PROVE ListIInv'
  <2>1. pushes'[v] = <<>> /\ UNCHANGED <<serverVars, clientVars, current>>
        /\ \A w \in Servers : w # v => pushes'[w] = pushes[w]
    BY <1>0, <1>6 DEF LinkBreaks, TypeOK
  <2>2. ServerInv(v)'
    BY <1>0, <2>1 DEF ServerInv, Orderly, InOrder, Complete, serverVars, clientVars
  <2>3. QED
    BY <1>a, <2>1, <2>2 DEF serverVars, clientVars
<1>7. ASSUME NEW v \in Servers, handle_disconnected(v) PROVE ListIInv'
  <2>1. /\ server_node_map'[v].data_version = server_node_map[v].data_version
        /\ server_node_map'[v].client_map = server_node_map[v].client_map
        /\ \A w \in Servers : w # v => server_node_map'[w] = server_node_map[w]
        /\ UNCHANGED <<list, data_version, pushes, current>>
    BY <1>0, <1>7 DEF handle_disconnected, serverVars, TypeOK, ServerNodeInfo
  <2>2. ServerInv(v)'
    BY <1>0, <2>1 DEF ServerInv, Orderly, InOrder, Tells, Complete
  <2>3. QED
    BY <1>a, <2>1, <2>2
<1>8. ASSUME NEW v \in Servers, handle_connected(v) PROVE ListIInv'
  BY <1>0, <1>8, <1>a, ConnectedKeepsList DEF handle_connected, TypeOK
<1>9. CASE UNCHANGED vars
  BY <1>0, <1>9, OtherServers DEF vars, ListIInv
<1>10. QED
  BY <1>1, <1>2, <1>3, <1>4, <1>5, <1>6, <1>7, <1>8, <1>9 DEF Next

\* The version a client sends to a server stands for what it knows of that
\* server's list, whatever answers were lost, late or cut off, and whenever
\* the server was started again (update_client_simple_list,
\* changed_client_simple_list): ListIsComplete, with the types.
THEOREM VersionsMeanKnowledge == Spec => []ListInv
<1>1. ListIInv => ListInv
  BY DEF ListIInv, ServerInv, Complete, ListInv, ListIsComplete
<1>2. QED
  BY <1>1, InitList, StepList, PTL DEF Spec
=============================================================================
