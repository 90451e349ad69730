-------------------------- MODULE PeerServerProofs --------------------------
(***************************************************************************)
(* Proofs about PeerServer for any number of servers, tasks, connections,  *)
(* requests and clients: what the routes of an address are, what is left   *)
(* of a connection, and what is left of an address that was removed.       *)
(*                                                                         *)
(* The lists of a loop and the cleanup meet in ip_to_routes only, and each *)
(* touches the routes of its own connection, apart from the truncation,    *)
(* which only takes away.  So RoutesFollowSync and EndedLeavesNothing are  *)
(* inductive together with the types; ConnectedIsListed needs that every   *)
(* connection with a sender is in the list, and the limit that the sets of *)
(* routes are finite.  RemovedIsGone needs that a task which was not told  *)
(* to stop is the one its address is registered with.                      *)
(***************************************************************************)
EXTENDS PeerServer, FiniteSetTheorems, TLAPS

\* Every connection with a sender is listed.
SendersAreListed == \A c \in Conns : conn[c].connected => c \in peer_servers

\* The limit, with finiteness.
RoutesFit ==
    \A ip \in Ips :
        /\ IsFiniteSet(ip_to_routes[ip])
        /\ Cardinality(ip_to_routes[ip]) <= MaxRoutes
        /\ \A r, q \in ip_to_routes[ip] : r.peer = q.peer => r = q

\* The parts about the routes, and the parts about connections.
RouteInv ==
    /\ ip_to_routes \in [Ips -> SUBSET IpRouteInfo]
    /\ seen \in [Conns -> ClientList]
    /\ RoutesFit
    /\ RoutesFollowSync

ConnInv ==
    /\ conn \in [Conns -> Conn]
    /\ peer_servers \subseteq Conns
    /\ SendersAreListed

TaskInv ==
    /\ task \in [Tasks -> Task]
    /\ outbound_tasks \in [Addrs -> Tasks \cup {None}]
    /\ request \in [Requests -> Request]

\* The inductive invariant.
FederationInv == RouteInv /\ ConnInv /\ TaskInv /\ EndedLeavesNothing

-----------------------------------------------------------------------------
(* handle_client_info_response.                                            *)

\* The truncation takes away what is too much and nothing else.
LEMMA TruncatedFits ==
    ASSUME NEW routes, IsFiniteSet(routes), Cardinality(routes) <= MaxRoutes + 1,
           NEW f \in Truncated(routes)
    PROVE  f \subseteq routes /\ IsFiniteSet(f) /\ Cardinality(f) <= MaxRoutes
<1>1. CASE Cardinality(routes) <= MaxRoutes
    BY <1>1 DEF Truncated
<1>2. CASE ~(Cardinality(routes) <= MaxRoutes)
    <2>1. PICK r \in routes : f = routes \ {r}
        BY <1>2 DEF Truncated, Slowest
    <2>2. IsFiniteSet(f) /\ Cardinality(f) = Cardinality(routes) - 1
        BY <2>1, FS_RemoveElement
    <2>3. Cardinality(routes) \in Nat
        BY FS_CardinalityType
    <2> QED BY <2>1, <2>2, <2>3, LatencyAssumption
<1> QED BY <1>1, <1>2

\* What a list of connection c makes of the routes of an address: its route as
\* listed, and some of those of the others.
LEMMA SyncedIsSound ==
    ASSUME RouteInv, NEW c \in Conns, NEW clients \in ClientList, NEW ip \in Ips,
           NEW f \in Synced(c, clients, ip)
    PROVE  /\ f \subseteq IpRouteInfo
           /\ \A r \in f : \/ r.peer # c /\ r \in ip_to_routes[ip]
                           \/ r = [peer |-> c, client_latency_ms |-> clients[ip]]
           /\ IsFiniteSet(f) /\ Cardinality(f) <= MaxRoutes
<1> DEFINE old == ip_to_routes[ip]
           others == Without(old, c)
           new == [peer |-> c, client_latency_ms |-> clients[ip]]
<1>1. old \subseteq IpRouteInfo /\ IsFiniteSet(old) /\ Cardinality(old) <= MaxRoutes
    BY DEF RouteInv, RoutesFit
<1>2. others \subseteq old /\ \A r \in others : r.peer # c
    BY DEF Without
<1>3. IsFiniteSet(others) /\ Cardinality(others) <= Cardinality(old)
    BY <1>1, <1>2, FS_Subset
<1>4. Cardinality(others) \in Nat /\ Cardinality(old) \in Nat
    BY <1>1, <1>3, FS_CardinalityType
<1>5. CASE clients[ip] = None
    <2>1. f = others
        BY <1>5 DEF Synced
    <2> HIDE DEF others, old, new
    <2> QED BY <2>1, <1>1, <1>2, <1>3, <1>4, LatencyAssumption DEF old
<1>6. CASE clients[ip] # None
    <2>1. f \in Truncated(others \cup {new})
        BY <1>6 DEF Synced
    <2>2. new \in IpRouteInfo
        BY <1>6 DEF ClientList, IpRouteInfo
    <2> HIDE DEF others, old, new
    <2>3. /\ IsFiniteSet(others \cup {new})
          /\ \/ Cardinality(others \cup {new}) = Cardinality(others)
             \/ Cardinality(others \cup {new}) = Cardinality(others) + 1
        BY <1>3, FS_AddElement
    <2>4. Cardinality(others \cup {new}) <= MaxRoutes + 1
        BY <2>3, <1>1, <1>3, <1>4, LatencyAssumption
    <2>5. f \subseteq others \cup {new} /\ IsFiniteSet(f) /\ Cardinality(f) <= MaxRoutes
        BY <2>1, <2>3, <2>4, TruncatedFits
    <2> QED BY <2>2, <2>5, <1>1, <1>2 DEF old, new
<1> QED BY <1>5, <1>6

\* A list that is handled changes the routes over its own connection only.
LEMMA ResponseKeeps ==
    ASSUME FederationInv, NEW c \in Conns, NEW clients \in ClientList,
           handle_client_info_response(c, clients)
    PROVE  FederationInv'
<1>1. /\ ip_to_routes' \in [Ips -> UNION {Synced(c, clients, ip) : ip \in Ips}]
      /\ \A ip \in Ips : ip_to_routes'[ip] \in Synced(c, clients, ip)
      /\ seen' = [seen EXCEPT ![c] = clients]
      /\ Running(c)
      /\ UNCHANGED <<conn, peer_servers, task, outbound_tasks, request>>
    BY DEF handle_client_info_response
<1>2. \A ip \in Ips :
          /\ ip_to_routes'[ip] \subseteq IpRouteInfo
          /\ \A r \in ip_to_routes'[ip] :
                \/ r.peer # c /\ r \in ip_to_routes[ip]
                \/ r = [peer |-> c, client_latency_ms |-> clients[ip]]
          /\ IsFiniteSet(ip_to_routes'[ip])
          /\ Cardinality(ip_to_routes'[ip]) <= MaxRoutes
    BY <1>1, SyncedIsSound DEF FederationInv
<1>3. ip_to_routes' \in [Ips -> SUBSET IpRouteInfo] /\ seen' \in [Conns -> ClientList]
    BY <1>1, <1>2 DEF FederationInv, RouteInv
<1>4. RoutesFit'
    BY <1>2 DEF FederationInv, RouteInv, RoutesFit
<1>5. RoutesFollowSync'
    <2> SUFFICES ASSUME NEW ip \in Ips, NEW r \in ip_to_routes'[ip]
                 PROVE  seen'[r.peer][ip] = r.client_latency_ms
        BY DEF RoutesFollowSync
    <2>1. CASE r.peer # c /\ r \in ip_to_routes[ip]
        BY <2>1, <1>1, <1>3 DEF FederationInv, RouteInv, RoutesFollowSync
    <2>2. CASE r = [peer |-> c, client_latency_ms |-> clients[ip]]
        BY <2>2, <1>1 DEF FederationInv, RouteInv
    <2> QED BY <2>1, <2>2, <1>2
<1>6. EndedLeavesNothing'
    BY <1>1, <1>2 DEF FederationInv, EndedLeavesNothing, Running, Without
<1>7. ConnInv' /\ TaskInv'
    BY <1>1 DEF FederationInv, ConnInv, SendersAreListed, TaskInv
<1> QED BY <1>3, <1>4, <1>5, <1>6, <1>7 DEF FederationInv, RouteInv

\* A loop that leaves takes its routes, its sender and its place along.
LEMMA LoopEndsKeeps ==
    ASSUME FederationInv, NEW c \in Conns, LoopEnds(c)
    PROVE  FederationInv'
<1>1. /\ conn' = [conn EXCEPT ![c].loop = "ended", ![c].connected = FALSE,
                              ![c].link = "up"]
      /\ seen' = [seen EXCEPT ![c] = NoClients]
      /\ ip_to_routes' = cleanup_routes(c)
      /\ peer_servers' = peer_servers \ {c}
      /\ UNCHANGED <<outbound_tasks, request>>
    BY DEF LoopEnds
<1>2. \A ip \in Ips : ip_to_routes'[ip] = Without(ip_to_routes[ip], c)
    BY <1>1 DEF cleanup_routes
<1>3. \A ip \in Ips : /\ ip_to_routes'[ip] \subseteq ip_to_routes[ip]
                      /\ \A r \in ip_to_routes'[ip] : r.peer # c
    BY <1>2 DEF Without
<1>4. /\ ip_to_routes' \in [Ips -> SUBSET IpRouteInfo]
      /\ seen' \in [Conns -> ClientList]
    BY <1>1, <1>3 DEF FederationInv, RouteInv, cleanup_routes, NoClients, ClientList
<1>5. RoutesFit'
    <2> SUFFICES ASSUME NEW ip \in Ips
                 PROVE  /\ IsFiniteSet(ip_to_routes'[ip])
                        /\ Cardinality(ip_to_routes'[ip]) <= MaxRoutes
                        /\ \A r, q \in ip_to_routes'[ip] : r.peer = q.peer => r = q
        BY DEF RoutesFit
    <2>1. /\ IsFiniteSet(ip_to_routes[ip])
          /\ Cardinality(ip_to_routes[ip]) <= MaxRoutes
          /\ \A r, q \in ip_to_routes[ip] : r.peer = q.peer => r = q
        BY DEF FederationInv, RouteInv, RoutesFit
    <2>2. /\ IsFiniteSet(ip_to_routes'[ip])
          /\ Cardinality(ip_to_routes'[ip]) <= Cardinality(ip_to_routes[ip])
        BY <1>3, <2>1, FS_Subset
    <2>3. Cardinality(ip_to_routes'[ip]) \in Nat /\ Cardinality(ip_to_routes[ip]) \in Nat
        BY <2>1, <2>2, FS_CardinalityType
    <2> QED BY <1>3, <2>1, <2>2, <2>3, LatencyAssumption
<1>6. RoutesFollowSync'
    BY <1>1, <1>3, <1>4 DEF FederationInv, RouteInv, RoutesFollowSync
<1>7. EndedLeavesNothing'
    <2> SUFFICES ASSUME NEW d \in Conns, conn'[d].loop = "ended"
                 PROVE  /\ \A ip \in Ips : Without(ip_to_routes'[ip], d) = ip_to_routes'[ip]
                        /\ ~conn'[d].connected
                        /\ d \notin peer_servers'
        BY DEF EndedLeavesNothing, Without
    <2>1. CASE d = c
        BY <2>1, <1>1, <1>3 DEF FederationInv, ConnInv, Conn, Without
    <2>2. CASE d # c
        <3>1. conn'[d] = conn[d]
            BY <2>2, <1>1 DEF FederationInv, ConnInv
        <3>2. /\ \A ip \in Ips : Without(ip_to_routes[ip], d) = ip_to_routes[ip]
              /\ ~conn[d].connected /\ d \notin peer_servers
            BY <3>1 DEF FederationInv, EndedLeavesNothing
        <3> QED BY <3>1, <3>2, <1>1, <1>3 DEF Without
    <2> QED BY <2>1, <2>2
<1>8. ConnInv'
    <2>1. /\ [conn[c] EXCEPT !.loop = "ended", !.connected = FALSE, !.link = "up"] \in Conn
          /\ [conn[c] EXCEPT !.loop = "ended", !.connected = FALSE, !.link = "up"].connected
                = FALSE
        BY DEF FederationInv, ConnInv, Conn
    <2>2. conn' = [conn EXCEPT ![c] =
              [conn[c] EXCEPT !.loop = "ended", !.connected = FALSE, !.link = "up"]]
        BY <1>1 DEF FederationInv, ConnInv
    <2>3. conn' \in [Conns -> Conn]
        BY <2>1, <2>2 DEF FederationInv, ConnInv
    <2>4. SendersAreListed'
        BY <1>1, <2>1, <2>2 DEF FederationInv, ConnInv, SendersAreListed
    <2> QED BY <1>1, <2>3, <2>4 DEF FederationInv, ConnInv
<1>9. TaskInv'
    <2>1. task' = [t \in Tasks |->
              IF task[t].pc = "running" /\ task[t].conn = c
              THEN [task[t] EXCEPT !.pc = "delay", !.conn = None] ELSE task[t]]
        BY DEF LoopEnds
    <2> QED BY <2>1, <1>1 DEF FederationInv, TaskInv, Task
<1> QED BY <1>4, <1>5, <1>6, <1>7, <1>8, <1>9 DEF FederationInv, RouteInv

-----------------------------------------------------------------------------
(* The steps that leave the routes alone.                                  *)

\* What is said of the routes rests on the routes and the last lists only.
LEMMA RoutesUntouched ==
    ASSUME RouteInv, UNCHANGED <<ip_to_routes, seen>> PROVE RouteInv'
BY DEF RouteInv, RoutesFit, RoutesFollowSync

\* A new connection.
LEMMA EstablishedKeeps ==
    ASSUME ConnInv, EndedLeavesNothing, NEW c \in Conns,
           NEW addr \in Addrs \cup {None}, Established(c, addr),
           UNCHANGED ip_to_routes
    PROVE  ConnInv' /\ EndedLeavesNothing'
<1>1. /\ conn' = [conn EXCEPT ![c].loop = "running", ![c].connected = TRUE,
                              ![c].addr = addr]
      /\ peer_servers' = peer_servers \cup {c}
    BY DEF Established
<1>2. conn'[c].loop = "running" /\ \A d \in Conns \ {c} : conn'[d] = conn[d]
    BY <1>1 DEF ConnInv, Conn
<1>3. ConnInv'
    <2>1. [conn[c] EXCEPT !.loop = "running", !.connected = TRUE, !.addr = addr] \in Conn
        BY DEF ConnInv, Conn
    <2>2. conn' = [conn EXCEPT ![c] =
              [conn[c] EXCEPT !.loop = "running", !.connected = TRUE, !.addr = addr]]
        BY <1>1 DEF ConnInv
    <2>3. conn' \in [Conns -> Conn]
        BY <2>1, <2>2 DEF ConnInv
    <2>4. SendersAreListed'
        BY <1>1, <1>2 DEF ConnInv, SendersAreListed
    <2> QED BY <1>1, <2>3, <2>4 DEF ConnInv
<1>4. EndedLeavesNothing'
    BY <1>1, <1>2 DEF EndedLeavesNothing, Without
<1> QED BY <1>3, <1>4

\* A new connection, what its pings measure, and its failure.
LEMMA ConnectionKeeps ==
    ASSUME FederationInv, NEW c \in Conns,
           \/ \E l \in Latencies : handle_ping_response(c, l)
           \/ \E how \in {"eof", "error"} : LinkFails(c, how)
           \/ handle_peer_connection(c)
           \/ \E t \in Tasks : connect_to_peer_once(t, c)
    PROVE  FederationInv'
<1> USE DEF FederationInv
<1>1. CASE \E l \in Latencies : handle_ping_response(c, l)
    <2>1. ConnInv'
        BY <1>1 DEF ConnInv, SendersAreListed, Conn, handle_ping_response
    <2>2. EndedLeavesNothing'
        BY <1>1 DEF EndedLeavesNothing, Without, ConnInv, Conn, handle_ping_response
    <2>3. RouteInv' /\ TaskInv'
        BY <1>1, RoutesUntouched DEF TaskInv, handle_ping_response
    <2> QED BY <2>1, <2>2, <2>3
<1>2. CASE \E how \in {"eof", "error"} : LinkFails(c, how)
    <2>1. ConnInv'
        BY <1>2 DEF ConnInv, SendersAreListed, Conn, LinkFails
    <2>2. EndedLeavesNothing'
        BY <1>2 DEF EndedLeavesNothing, Without, ConnInv, Conn, LinkFails
    <2>3. RouteInv' /\ TaskInv'
        BY <1>2, RoutesUntouched DEF TaskInv, LinkFails
    <2> QED BY <2>1, <2>2, <2>3
<1>3. CASE handle_peer_connection(c)
    <2>1. ConnInv' /\ EndedLeavesNothing'
        BY <1>3, EstablishedKeeps DEF handle_peer_connection
    <2>2. RouteInv' /\ TaskInv'
        BY <1>3, RoutesUntouched DEF TaskInv, handle_peer_connection
    <2> QED BY <2>1, <2>2
<1>4. ASSUME NEW t \in Tasks, connect_to_peer_once(t, c) PROVE FederationInv'
    <2>1. task[t].addr \in Addrs \cup {None}
        BY DEF TaskInv, Task
    <2>2. ConnInv' /\ EndedLeavesNothing'
        BY <1>4, <2>1, EstablishedKeeps DEF connect_to_peer_once
    <2>3. RouteInv'
        BY <1>4, RoutesUntouched DEF connect_to_peer_once
    <2>4. TaskInv'
        BY <1>4 DEF TaskInv, Task, connect_to_peer_once
    <2> QED BY <2>2, <2>3, <2>4
<1> QED BY <1>1, <1>2, <1>3, <1>4

\* The tasks.  One that is told to stop drops the loop where it is.
LEMMA TaskKeeps ==
    ASSUME FederationInv, NEW t \in Tasks,
           ConnectFails(t) \/ Reconnect(t) \/ TaskStops(t)
    PROVE  FederationInv'
<1> USE DEF FederationInv
<1>1. RouteInv'
    BY RoutesUntouched DEF ConnectFails, Reconnect, TaskStops
<1>2. TaskInv'
    BY DEF TaskInv, Task, ConnectFails, Reconnect, TaskStops
<1>3. CASE conn' = conn
    BY <1>1, <1>2, <1>3 DEF ConnInv, SendersAreListed, EndedLeavesNothing, Without,
        ConnectFails, Reconnect, TaskStops
<1>4. CASE \E d : conn' = [conn EXCEPT ![d].loop = "cancelled"] /\ TaskStops(t)
    <2>1. PICK d : conn' = [conn EXCEPT ![d].loop = "cancelled"]
        BY <1>4
    <2>2. \A e \in Conns : /\ conn'[e].connected = conn[e].connected
                           /\ conn'[e].loop = "ended" => conn[e].loop = "ended"
        BY <2>1 DEF ConnInv, Conn
    <2>3. conn' \in [Conns -> Conn]
        BY <2>1 DEF ConnInv, Conn
    <2> QED BY <1>1, <1>2, <1>4, <2>2, <2>3
            DEF ConnInv, SendersAreListed, EndedLeavesNothing, Without, TaskStops
<1> QED BY <1>3, <1>4 DEF ConnectFails, Reconnect, TaskStops

\* The administrator.  What is listed for an address goes with its sender.
LEMMA RequestKeeps ==
    ASSUME FederationInv, NEW q \in Requests,
           \/ \E a \in Addrs : add_outbound_peer(q, a) \/ remove_outbound_peer(q, a)
           \/ \E t \in Tasks : AddStart(q, t)
           \/ AddFails(q) \/ RemoveScan(q)
    PROVE  FederationInv'
<1> USE DEF FederationInv
<1>1. RouteInv'
    BY RoutesUntouched DEF add_outbound_peer, remove_outbound_peer, AddStart, AddFails,
        RemoveScan
<1>2. ASSUME NEW a \in Addrs, add_outbound_peer(q, a) PROVE FederationInv'
    BY <1>1, <1>2 DEF add_outbound_peer, TaskInv, Request, ConnInv, SendersAreListed,
        EndedLeavesNothing, Without
<1>3. ASSUME NEW a \in Addrs, remove_outbound_peer(q, a) PROVE FederationInv'
    <2>1. TaskInv'
        <3>1. \A t \in Tasks : [task[t] EXCEPT !.stop = TRUE] \in Task
            BY DEF TaskInv, Task
        <3>2. task' \in [Tasks -> Task]
            BY <1>3, <3>1 DEF remove_outbound_peer, TaskInv
        <3>3. outbound_tasks' \in [Addrs -> Tasks \cup {None}]
            BY <1>3 DEF remove_outbound_peer, TaskInv
        <3>4. request' \in [Requests -> Request]
            BY <1>3 DEF remove_outbound_peer, TaskInv, Request
        <3> QED BY <3>2, <3>3, <3>4 DEF TaskInv
    <2> QED BY <1>1, <1>3, <2>1 DEF remove_outbound_peer, ConnInv, SendersAreListed,
            EndedLeavesNothing, Without
<1>4. ASSUME NEW t \in Tasks, AddStart(q, t) PROVE FederationInv'
    <2>1. TaskInv'
        <3>1. request[q].addr \in Addrs \cup {None}
            BY DEF TaskInv, Request
        <3>2. \A u \in Tasks : [task[u] EXCEPT !.stop = TRUE] \in Task
            BY DEF TaskInv, Task
        <3>3. Started(request[q].addr) \in Task
            BY <3>1 DEF Started, Task
        <3>4. task' \in [Tasks -> Task]
            BY <1>4, <3>2, <3>3 DEF AddStart, TaskInv
        <3>5. outbound_tasks' \in [Addrs -> Tasks \cup {None}]
            BY <1>4 DEF AddStart, TaskInv
        <3>6. request' \in [Requests -> Request]
            BY <1>4 DEF AddStart, TaskInv, Request, Idle
        <3> QED BY <3>4, <3>5, <3>6 DEF TaskInv
    <2> QED BY <1>1, <1>4, <2>1 DEF AddStart, ConnInv, SendersAreListed,
            EndedLeavesNothing, Without
<1>5. CASE AddFails(q)
    BY <1>1, <1>5 DEF AddFails, TaskInv, Request, Idle, ConnInv, SendersAreListed,
        EndedLeavesNothing, Without
<1>6. CASE RemoveScan(q)
    <2> DEFINE gone == {c \in peer_servers : conn[c].addr = request[q].addr}
    <2>1. /\ conn' = [c \in Conns |-> IF c \in gone
                                      THEN [conn[c] EXCEPT !.connected = FALSE]
                                      ELSE conn[c]]
          /\ peer_servers' = peer_servers \ gone
          /\ request' = [request EXCEPT ![q] = Idle]
          /\ UNCHANGED <<ip_to_routes, seen, task, outbound_tasks>>
        BY <1>6 DEF RemoveScan
    <2> HIDE DEF gone
    <2>2. \A c \in Conns : /\ conn'[c].loop = conn[c].loop
                           /\ conn'[c].connected =
                                 IF c \in gone THEN FALSE ELSE conn[c].connected
        BY <2>1 DEF ConnInv, Conn
    <2>3. ConnInv'
        <3>1. \A c \in Conns : [conn[c] EXCEPT !.connected = FALSE] \in Conn
            BY DEF ConnInv, Conn
        <3>2. conn' \in [Conns -> Conn]
            BY <2>1, <3>1 DEF ConnInv
        <3>3. SendersAreListed'
            BY <2>1, <2>2 DEF ConnInv, SendersAreListed
        <3> QED BY <2>1, <3>2, <3>3 DEF ConnInv
    <2>4. EndedLeavesNothing'
        BY <2>1, <2>2 DEF EndedLeavesNothing, Without
    <2>5. TaskInv'
        BY <2>1 DEF TaskInv, Request, Idle
    <2> QED BY <1>1, <2>3, <2>4, <2>5
<1> QED BY <1>2, <1>3, <1>4, <1>5, <1>6

-----------------------------------------------------------------------------
\* A server starts without connections, routes and senders.
LEMMA FederationInit == Init => FederationInv
<1> SUFFICES ASSUME Init PROVE FederationInv
    OBVIOUS
<1>1. RouteInv
    <2>1. IsFiniteSet({}) /\ Cardinality({}) = 0
        BY FS_EmptySet
    <2> QED BY <2>1, LatencyAssumption DEF Init, RouteInv, RoutesFit, RoutesFollowSync,
            NoClients, ClientList
<1>2. ConnInv
    BY DEF Init, ConnInv, SendersAreListed, Conn
<1>3. TaskInv
    <2>1. PICK start \in [Addrs -> Tasks \cup {None}] :
              /\ outbound_tasks = start
              /\ task = [t \in Tasks |->
                    IF \E a \in Addrs : start[a] = t
                    THEN Started(CHOOSE a \in Addrs : start[a] = t)
                    ELSE [addr |-> None, conn |-> None, stop |-> FALSE, pc |-> "none"]]
        BY DEF Init
    <2>2. \A a \in Addrs : Started(a) \in Task
        BY DEF Started, Task
    <2>3. [addr |-> None, conn |-> None, stop |-> FALSE, pc |-> "none"] \in Task
        BY DEF Task
    <2>4. task \in [Tasks -> Task]
        BY <2>1, <2>2, <2>3
    <2>5. request \in [Requests -> Request]
        BY DEF Init, Idle, Request
    <2> QED BY <2>1, <2>4, <2>5 DEF TaskInv
<1>4. EndedLeavesNothing
    BY DEF Init, EndedLeavesNothing
<1> QED BY <1>1, <1>2, <1>3, <1>4 DEF FederationInv

\* Every step is one of those above.
LEMMA FederationStep == FederationInv /\ [Next]_vars => FederationInv'
<1> SUFFICES ASSUME FederationInv, [Next]_vars PROVE FederationInv'
    OBVIOUS
<1>1. CASE UNCHANGED vars
    BY <1>1, RoutesUntouched DEF vars, FederationInv, ConnInv, SendersAreListed, TaskInv,
        EndedLeavesNothing, Without
<1>2. ASSUME NEW c \in Conns, LoopStep(c) PROVE FederationInv'
    BY <1>2, ResponseKeeps, LoopEndsKeeps, ConnectionKeeps DEF LoopStep
<1>3. ASSUME NEW c \in Conns,
             \/ \E how \in {"eof", "error"} : LinkFails(c, how)
             \/ handle_peer_connection(c)
             \/ \E t \in Tasks : connect_to_peer_once(t, c)
      PROVE  FederationInv'
    BY <1>3, ConnectionKeeps
<1>4. ASSUME NEW t \in Tasks, ConnectFails(t) \/ Reconnect(t) \/ TaskStops(t)
      PROVE  FederationInv'
    BY <1>4, TaskKeeps
<1>5. ASSUME NEW q \in Requests,
             \/ \E a \in Addrs : add_outbound_peer(q, a) \/ remove_outbound_peer(q, a)
             \/ \E t \in Tasks : AddStart(q, t)
             \/ AddFails(q) \/ RemoveScan(q)
      PROVE  FederationInv'
    BY <1>5, RequestKeeps
<1> QED BY <1>1, <1>2, <1>3, <1>4, <1>5 DEF Next

\* The invariant of every behaviour.
LEMMA FederationInvAlways == Spec => []FederationInv
<1>1. Init => FederationInv
    BY FederationInit
<1>2. FederationInv /\ [Next]_vars => FederationInv'
    BY FederationStep
<1> QED BY <1>1, <1>2, PTL DEF Spec

-----------------------------------------------------------------------------
(* What remove_outbound_peer leaves of an address.                          *)

LiveTask(t) == task[t].pc \in {"connecting", "running", "delay"}

\* A task that goes on is the one its address is registered with.
NoOrphan ==
    \A t \in Tasks : LiveTask(t) =>
        /\ task[t].addr \in Addrs
        /\ task[t].stop \/ outbound_tasks[task[t].addr] = t

\* An address is registered, being removed, outlived its removal, or has
\* neither a task nor a connection.
Accounted(a) ==
    \/ outbound_tasks[a] # None
    \/ \E q \in Requests : Removing(q, a)
    \/ a \in outlived
    \/ Alive(a) = {} /\ \A c \in peer_servers : conn[c].addr # a

GoneInv ==
    /\ outlived \subseteq Addrs
    /\ \A q \in Requests : request[q].pc # "idle" => request[q].addr \in Addrs
    /\ NoOrphan
    /\ \A a \in Addrs : Accounted(a)

\* A request is only given a place that is free.
LEMMA FreshIsIdle ==
    ASSUME NEW q \in Requests, q = Fresh({x \in Requests : request[x] = Idle})
    PROVE  request[q] = Idle
<1> DEFINE free == {x \in Requests : request[x] = Idle}
<1>1. free # {}
    BY NoneAssumption DEF Fresh
<1>2. q \in free
    BY <1>1 DEF Fresh
<1> QED BY <1>2

\* What takes tasks and listed connections away, or moves a task on, keeps it.
LEMMA LessIsGone ==
    ASSUME GoneInv, FederationInv, UNCHANGED <<outbound_tasks, request, outlived>>,
           peer_servers' \subseteq peer_servers,
           \A c \in Conns : conn'[c].addr = conn[c].addr,
           \A t \in Tasks : LiveTask(t)' => /\ LiveTask(t)
                                            /\ task'[t].addr = task[t].addr
                                            /\ task'[t].stop = task[t].stop
    PROVE  GoneInv'
<1>1. NoOrphan'
    BY DEF GoneInv, NoOrphan
<1>2. ASSUME NEW a \in Addrs PROVE Accounted(a)'
    <2>1. Accounted(a)
        BY DEF GoneInv
    <2>2. CASE Alive(a) = {} /\ \A c \in peer_servers : conn[c].addr # a
        <3>1. Alive(a)' = {}
            BY <2>2 DEF Alive, LiveTask
        <3>2. \A c \in peer_servers' : conn'[c].addr # a
            BY <2>2 DEF FederationInv, ConnInv
        <3> QED BY <3>1, <3>2 DEF Accounted
    <2>3. CASE ~(Alive(a) = {} /\ \A c \in peer_servers : conn[c].addr # a)
        BY <2>1, <2>3 DEF Accounted, Removing
    <2> QED BY <2>2, <2>3
<1> QED BY <1>1, <1>2 DEF GoneInv

\* The loops and the tasks; only a task that goes on makes a connection.
LEMMA WorkersLeaveGone ==
    ASSUME GoneInv, FederationInv,
           \/ \E c \in Conns : LoopStep(c)
           \/ \E c \in Conns, how \in {"eof", "error"} : LinkFails(c, how)
           \/ \E c \in Conns : handle_peer_connection(c)
           \/ \E t \in Tasks, c \in Conns : connect_to_peer_once(t, c)
           \/ \E t \in Tasks : ConnectFails(t) \/ Reconnect(t) \/ TaskStops(t)
    PROVE  GoneInv'
<1>0. conn \in [Conns -> Conn] /\ task \in [Tasks -> Task] /\ peer_servers \subseteq Conns
    BY DEF FederationInv, ConnInv, TaskInv
<1>1. ASSUME NEW c \in Conns, NEW clients \in ClientList,
             handle_client_info_response(c, clients)
      PROVE  GoneInv'
    BY <1>1, LessIsGone DEF handle_client_info_response, LiveTask
<1>2. ASSUME NEW c \in Conns,
             \/ \E l \in Latencies : handle_ping_response(c, l)
             \/ \E how \in {"eof", "error"} : LinkFails(c, how)
      PROVE  GoneInv'
    <2>1. \A d \in Conns : conn'[d].addr = conn[d].addr
        BY <1>0, <1>2 DEF handle_ping_response, LinkFails, Conn
    <2> QED BY <1>2, <2>1, LessIsGone DEF handle_ping_response, LinkFails, LiveTask
<1>3. ASSUME NEW c \in Conns, LoopEnds(c) PROVE GoneInv'
    <2>1. \A d \in Conns : conn'[d].addr = conn[d].addr
        BY <1>0, <1>3 DEF LoopEnds, Conn
    <2>2. \A t \in Tasks : LiveTask(t)' => /\ LiveTask(t)
                                           /\ task'[t].addr = task[t].addr
                                           /\ task'[t].stop = task[t].stop
        BY <1>0, <1>3 DEF LoopEnds, Task, LiveTask
    <2> QED BY <1>3, <2>1, <2>2, LessIsGone DEF LoopEnds
<1>4. ASSUME NEW t \in Tasks, ConnectFails(t) \/ Reconnect(t) PROVE GoneInv'
    <2>1. \A u \in Tasks : LiveTask(u)' => /\ LiveTask(u)
                                           /\ task'[u].addr = task[u].addr
                                           /\ task'[u].stop = task[u].stop
        BY <1>0, <1>4 DEF ConnectFails, Reconnect, Task, LiveTask
    <2> QED BY <1>4, <2>1, LessIsGone DEF ConnectFails, Reconnect
<1>5. ASSUME NEW t \in Tasks, TaskStops(t) PROVE GoneInv'
    <2>1. \A u \in Tasks : LiveTask(u)' => /\ LiveTask(u)
                                           /\ task'[u].addr = task[u].addr
                                           /\ task'[u].stop = task[u].stop
        BY <1>0, <1>5 DEF TaskStops, Task, LiveTask
    <2>2. \A d \in Conns : conn'[d].addr = conn[d].addr
        BY <1>0, <1>5 DEF TaskStops, Conn
    <2> QED BY <1>5, <2>1, <2>2, LessIsGone DEF TaskStops
<1>6. ASSUME NEW c \in Conns, handle_peer_connection(c) PROVE GoneInv'
    <2>1. /\ peer_servers' = peer_servers \cup {c}
          /\ conn'[c].addr = None /\ \A d \in Conns \ {c} : conn'[d] = conn[d]
          /\ UNCHANGED <<task, outbound_tasks, request, outlived>>
        BY <1>0, <1>6 DEF handle_peer_connection, Established, Conn
    <2>2. ASSUME NEW a \in Addrs PROVE Accounted(a)'
        <3>1. (\A d \in peer_servers : conn[d].addr # a)
                 => \A d \in peer_servers' : conn'[d].addr # a
            BY <1>0, <2>1, NoneAssumption
        <3> QED BY <2>1, <3>1 DEF GoneInv, Accounted, Alive, Removing
    <2> QED BY <2>1, <2>2 DEF GoneInv, NoOrphan, LiveTask
<1>7. ASSUME NEW t \in Tasks, NEW c \in Conns, connect_to_peer_once(t, c)
      PROVE  GoneInv'
    <2>1. /\ peer_servers' = peer_servers \cup {c}
          /\ conn'[c].addr = task[t].addr /\ \A d \in Conns \ {c} : conn'[d] = conn[d]
          /\ UNCHANGED <<outbound_tasks, request, outlived>>
        BY <1>0, <1>7 DEF connect_to_peer_once, Established, Conn
    <2>2. /\ LiveTask(t) /\ LiveTask(t)'
          /\ task'[t].addr = task[t].addr /\ task'[t].stop = task[t].stop
          /\ \A u \in Tasks \ {t} : task'[u] = task[u]
        BY <1>0, <1>7 DEF connect_to_peer_once, Task, LiveTask
    <2>3. NoOrphan'
        BY <2>1, <2>2 DEF GoneInv, NoOrphan, LiveTask
    <2>4. ASSUME NEW a \in Addrs PROVE Accounted(a)'
        <3>1. Alive(a)' = Alive(a)
            BY <2>2 DEF Alive, LiveTask
        <3>2. (Alive(a) = {} /\ \A d \in peer_servers : conn[d].addr # a)
                 => \A d \in peer_servers' : conn'[d].addr # a
            BY <1>0, <2>1, <2>2 DEF Alive, LiveTask
        <3> QED BY <2>1, <3>1, <3>2 DEF GoneInv, Accounted, Removing
    <2> QED BY <2>1, <2>3, <2>4 DEF GoneInv
<1> QED BY <1>1, <1>2, <1>3, <1>4, <1>5, <1>6, <1>7 DEF LoopStep

\* add_outbound_peer: a task that is replaced is told to stop.
LEMMA AddLeavesGone ==
    ASSUME GoneInv, FederationInv, NEW q \in Requests,
           \/ \E a \in Addrs : add_outbound_peer(q, a)
           \/ \E t \in Tasks : AddStart(q, t)
           \/ AddFails(q)
    PROVE  GoneInv'
<1>0. /\ task \in [Tasks -> Task] /\ request \in [Requests -> Request]
      /\ outbound_tasks \in [Addrs -> Tasks \cup {None}]
    BY DEF FederationInv, TaskInv
<1>1. ASSUME NEW b \in Addrs, add_outbound_peer(q, b) PROVE GoneInv'
    <2>1. request[q] = Idle
        BY <1>1, FreshIsIdle DEF add_outbound_peer
    <2>2. /\ request' = [request EXCEPT ![q] = [pc |-> "save", addr |-> b]]
          /\ UNCHANGED <<conn, peer_servers, task, outbound_tasks, outlived>>
        BY <1>1 DEF add_outbound_peer
    <2>3. \A a, r : r \in Requests /\ Removing(r, a) => Removing(r, a)'
        BY <1>0, <2>1, <2>2 DEF Removing, Idle
    <2>4. \A r \in Requests : request'[r].pc # "idle" => request'[r].addr \in Addrs
        BY <1>0, <2>2 DEF GoneInv
    <2> QED BY <2>2, <2>3, <2>4 DEF GoneInv, NoOrphan, LiveTask, Accounted, Alive
<1>2. CASE AddFails(q)
    <2>1. /\ request[q].pc = "save" /\ request' = [request EXCEPT ![q] = Idle]
          /\ UNCHANGED <<conn, peer_servers, task, outbound_tasks, outlived>>
        BY <1>2 DEF AddFails
    <2>2. \A a, r : r \in Requests /\ Removing(r, a) => Removing(r, a)'
        BY <1>0, <2>1 DEF Removing
    <2>3. \A r \in Requests : request'[r].pc # "idle" => request'[r].addr \in Addrs
        BY <1>0, <2>1 DEF GoneInv, Idle
    <2> QED BY <2>1, <2>2, <2>3 DEF GoneInv, NoOrphan, LiveTask, Accounted, Alive
<1>3. ASSUME NEW t \in Tasks, AddStart(q, t) PROVE GoneInv'
    <2> DEFINE b == request[q].addr
    <2>1. /\ request[q].pc = "save" /\ request' = [request EXCEPT ![q] = Idle]
          /\ outbound_tasks' = [outbound_tasks EXCEPT ![b] = t]
          /\ task' = [u \in Tasks |->
                IF u = t THEN Started(b)
                ELSE IF u = outbound_tasks[b] THEN [task[u] EXCEPT !.stop = TRUE]
                ELSE task[u]]
          /\ UNCHANGED <<conn, peer_servers, outlived>>
        BY <1>3 DEF AddStart
    <2>2. b \in Addrs
        BY <2>1 DEF GoneInv
    <2> HIDE DEF b
    <2>3. \A u \in Tasks \ {t} :
              /\ task'[u].addr = task[u].addr /\ task'[u].pc = task[u].pc
              /\ task'[u].stop = (task[u].stop \/ u = outbound_tasks[b])
        BY <1>0, <2>1 DEF Task
    <2>4. task'[t].addr = b /\ outbound_tasks'[b] = t
        BY <1>0, <2>1, <2>2 DEF Started
    <2>5. \A a \in Addrs \ {b} : outbound_tasks'[a] = outbound_tasks[a]
        BY <1>0, <2>1
    <2>6. NoOrphan'
        <3> SUFFICES ASSUME NEW u \in Tasks, LiveTask(u)'
                     PROVE  /\ task'[u].addr \in Addrs
                            /\ task'[u].stop \/ outbound_tasks'[task'[u].addr] = u
            BY DEF NoOrphan
        <3>1. CASE u = t
            BY <3>1, <2>2, <2>4
        <3>2. CASE u # t
            <4>1. /\ task[u].addr \in Addrs
                  /\ task[u].stop \/ outbound_tasks[task[u].addr] = u
                BY <3>2, <2>3 DEF GoneInv, NoOrphan, LiveTask
            <4> QED BY <3>2, <4>1, <2>3, <2>5
        <3> QED BY <3>1, <3>2
    <2>7. ASSUME NEW a \in Addrs PROVE Accounted(a)'
        <3>1. CASE a = b
            BY <3>1, <2>4, NoneAssumption DEF Accounted
        <3>2. CASE a # b
            <4>1. Alive(a) = {} => Alive(a)' = {}
                BY <3>2, <2>3, <2>4 DEF Alive
            <4>2. \A r \in Requests : Removing(r, a) => Removing(r, a)'
                BY <1>0, <2>1 DEF Removing
            <4> QED BY <3>2, <4>1, <4>2, <2>1, <2>5 DEF GoneInv, Accounted
        <3> QED BY <3>1, <3>2
    <2>8. \A r \in Requests : request'[r].pc # "idle" => request'[r].addr \in Addrs
        BY <1>0, <2>1 DEF GoneInv, Idle
    <2> QED BY <2>1, <2>6, <2>7, <2>8 DEF GoneInv
<1> QED BY <1>1, <1>2, <1>3

\* remove_outbound_peer: the task is told to stop before the list is scanned.
LEMMA RemoveLeavesGone ==
    ASSUME GoneInv, FederationInv, NEW q \in Requests,
           (\E a \in Addrs : remove_outbound_peer(q, a)) \/ RemoveScan(q)
    PROVE  GoneInv'
<1>0. /\ task \in [Tasks -> Task] /\ request \in [Requests -> Request]
      /\ outbound_tasks \in [Addrs -> Tasks \cup {None}]
      /\ conn \in [Conns -> Conn] /\ peer_servers \subseteq Conns
    BY DEF FederationInv, TaskInv, ConnInv
<1>1. ASSUME NEW b \in Addrs, remove_outbound_peer(q, b) PROVE GoneInv'
    <2>1. request[q] = Idle
        BY <1>1, FreshIsIdle DEF remove_outbound_peer
    <2>2. /\ request' = [request EXCEPT ![q] = [pc |-> "scan", addr |-> b]]
          /\ outbound_tasks' = [outbound_tasks EXCEPT ![b] = None]
          /\ task' = [t \in Tasks |-> IF t = outbound_tasks[b]
                                      THEN [task[t] EXCEPT !.stop = TRUE] ELSE task[t]]
          /\ UNCHANGED <<conn, peer_servers, outlived>>
        BY <1>1 DEF remove_outbound_peer
    <2>3. \A u \in Tasks :
              /\ task'[u].addr = task[u].addr /\ task'[u].pc = task[u].pc
              /\ task'[u].stop = (task[u].stop \/ u = outbound_tasks[b])
        BY <1>0, <2>2 DEF Task
    <2>4. \A a \in Addrs \ {b} : outbound_tasks'[a] = outbound_tasks[a]
        BY <1>0, <2>2
    <2>5. NoOrphan'
        <3> SUFFICES ASSUME NEW u \in Tasks, LiveTask(u)'
                     PROVE  /\ task'[u].addr \in Addrs
                            /\ task'[u].stop \/ outbound_tasks'[task'[u].addr] = u
            BY DEF NoOrphan
        <3>1. /\ task[u].addr \in Addrs
              /\ task[u].stop \/ outbound_tasks[task[u].addr] = u
            BY <2>3 DEF GoneInv, NoOrphan, LiveTask
        <3> QED BY <3>1, <2>3, <2>4
    <2>6. ASSUME NEW a \in Addrs PROVE Accounted(a)'
        <3>1. CASE a = b
            BY <1>0, <2>2, <3>1 DEF Accounted, Removing
        <3>2. CASE a # b
            <4>1. Alive(a)' = Alive(a)
                BY <2>3 DEF Alive
            <4>2. \A r \in Requests : Removing(r, a) => Removing(r, a)'
                BY <1>0, <2>1, <2>2 DEF Removing, Idle
            <4> QED BY <3>2, <4>1, <4>2, <2>2, <2>4 DEF GoneInv, Accounted
        <3> QED BY <3>1, <3>2
    <2>7. \A r \in Requests : request'[r].pc # "idle" => request'[r].addr \in Addrs
        BY <1>0, <2>2 DEF GoneInv
    <2> QED BY <2>2, <2>5, <2>6, <2>7 DEF GoneInv
<1>2. CASE RemoveScan(q)
    <2> DEFINE b == request[q].addr
               gone == {c \in peer_servers : conn[c].addr = b}
    <2>1. /\ request[q].pc = "scan" /\ request' = [request EXCEPT ![q] = Idle]
          /\ outlived' = IF \E t \in Alive(b) : task[t].stop
                         THEN outlived \cup {b} ELSE outlived \ {b}
          /\ peer_servers' = peer_servers \ gone
          /\ UNCHANGED <<task, outbound_tasks>>
        BY <1>2 DEF RemoveScan
    <2>2. \A c \in Conns : conn'[c].addr = conn[c].addr
        BY <1>0, <1>2 DEF RemoveScan, Conn
    <2>3. b \in Addrs
        BY <2>1 DEF GoneInv
    <2>4. \A c \in peer_servers' : c \in peer_servers /\ conn'[c].addr # b
        BY <1>0, <2>1, <2>2
    <2> HIDE DEF b, gone
    <2>5. ASSUME NEW a \in Addrs PROVE Accounted(a)'
        <3>1. Alive(a)' = Alive(a)
            BY <2>1 DEF Alive
        <3>2. CASE a # b
            <4>1. \A r \in Requests : Removing(r, a) => Removing(r, a)'
                BY <1>0, <2>1, <3>2 DEF Removing, b
            <4>2. a \in outlived => a \in outlived'
                BY <2>1, <3>2
            <4>3. (\A c \in peer_servers : conn[c].addr # a)
                     => \A c \in peer_servers' : conn'[c].addr # a
                BY <1>0, <2>2, <2>4
            <4> QED BY <3>1, <4>1, <4>2, <4>3, <2>1 DEF GoneInv, Accounted
        <3>3. CASE a = b /\ \E t \in Alive(b) : task[t].stop
            BY <3>3, <2>1 DEF Accounted
        <3>4. CASE a = b /\ \A t \in Alive(b) : ~task[t].stop
            <4>1. CASE Alive(a) = {}
                BY <4>1, <3>1, <3>4, <2>4 DEF Accounted
            <4>2. CASE Alive(a) # {}
                <5>1. PICK t \in Tasks : LiveTask(t) /\ task[t].addr = a /\ ~task[t].stop
                    BY <4>2, <3>4 DEF Alive, LiveTask
                <5>2. outbound_tasks[a] = t
                    BY <5>1 DEF GoneInv, NoOrphan
                <5> QED BY <5>2, <2>1, NoneAssumption DEF Accounted
            <4> QED BY <4>1, <4>2
        <3> QED BY <3>2, <3>3, <3>4
    <2>6. outlived' \subseteq Addrs
        BY <2>1, <2>3 DEF GoneInv
    <2>7. \A r \in Requests : request'[r].pc # "idle" => request'[r].addr \in Addrs
        BY <1>0, <2>1 DEF GoneInv, Idle
    <2> QED BY <2>1, <2>5, <2>6, <2>7 DEF GoneInv, NoOrphan, LiveTask
<1> QED BY <1>1, <1>2

\* A task is started for every row, and registered.
LEMMA GoneInit == Init => GoneInv
<1> SUFFICES ASSUME Init PROVE GoneInv
    OBVIOUS
<1>1. PICK start \in [Addrs -> Tasks \cup {None}] :
          /\ outbound_tasks = start
          /\ task = [t \in Tasks |->
                IF \E a \in Addrs : start[a] = t
                THEN Started(CHOOSE a \in Addrs : start[a] = t)
                ELSE [addr |-> None, conn |-> None, stop |-> FALSE, pc |-> "none"]]
    BY DEF Init
<1>2. \A t \in Tasks : LiveTask(t) =>
          task[t].addr \in Addrs /\ outbound_tasks[task[t].addr] = t
    <2> SUFFICES ASSUME NEW t \in Tasks, LiveTask(t)
                 PROVE  task[t].addr \in Addrs /\ outbound_tasks[task[t].addr] = t
        OBVIOUS
    <2>1. \E a \in Addrs : start[a] = t
        BY <1>1 DEF LiveTask
    <2>2. task[t].addr = CHOOSE a \in Addrs : start[a] = t
        BY <1>1, <2>1 DEF Started
    <2> QED BY <1>1, <2>1, <2>2
<1>3. ASSUME NEW a \in Addrs PROVE Accounted(a)
    <2>1. CASE \E t \in Alive(a) : TRUE
        BY <2>1, <1>2, NoneAssumption DEF Accounted, Alive, LiveTask
    <2>2. CASE Alive(a) = {}
        BY <2>2 DEF Init, Accounted
    <2> QED BY <2>1, <2>2
<1>4. \A q \in Requests : request[q].pc = "idle"
    BY DEF Init, Idle
<1> QED BY <1>2, <1>3, <1>4 DEF Init, GoneInv, NoOrphan

LEMMA GoneAlways == Spec => []GoneInv
<1>1. Init => GoneInv
    BY GoneInit
<1>2. FederationInv /\ GoneInv /\ [Next]_vars => GoneInv'
    <2> SUFFICES ASSUME FederationInv, GoneInv, [Next]_vars PROVE GoneInv'
        OBVIOUS
    <2>1. CASE UNCHANGED vars
        BY <2>1, LessIsGone DEF vars, LiveTask
    <2>2. CASE Next
        BY <2>2, WorkersLeaveGone, AddLeavesGone, RemoveLeavesGone DEF Next
    <2> QED BY <2>1, <2>2
<1> QED BY <1>1, <1>2, FederationInvAlways, PTL DEF Spec

\* When remove_outbound_peer has returned and nothing was added since, no
\* connection to the address is listed and no task will make one, but for a
\* task that did not notice in time that it is to stop.
THEOREM RemovedStaysGone == Spec => []RemovedIsGone
<1>1. GoneInv => RemovedIsGone
    BY DEF GoneInv, Accounted, RemovedIsGone
<1> QED BY <1>1, GoneAlways, PTL

-----------------------------------------------------------------------------
\* A route repeats what its server said last, whatever the loops of other
\* servers, reconnections and removals do to the same vector
\* (handle_client_info_response, cleanup_routes).
THEOREM RoutesFollowTheirServer == Spec => []RoutesFollowSync
<1>1. FederationInv => RoutesFollowSync
    BY DEF FederationInv, RouteInv
<1> QED BY <1>1, FederationInvAlways, PTL

\* A loop that has left leaves no route, no sender and no place in the list
\* behind (run_peer_communication_loop).
THEOREM EndedIsGone == Spec => []EndedLeavesNothing
<1>1. FederationInv => EndedLeavesNothing
    BY DEF FederationInv
<1> QED BY <1>1, FederationInvAlways, PTL

\* The routes of an address fit the limit, one per server, a frame is only
\* forwarded over a connection that is listed (find_best_route), and a loop
\* that left takes its routes along.
THEOREM FederationIsSound == Spec => []PeerInv
<1>1. FederationInv /\ GoneInv => TypeOK
    BY DEF FederationInv, RouteInv, ConnInv, TaskInv, GoneInv, TypeOK
<1>2. FederationInv => RoutesAreBounded
    BY DEF FederationInv, RouteInv, RoutesFit, RoutesAreBounded
<1>3. FederationInv => ConnectedIsListed
    <2> SUFFICES ASSUME FederationInv, NEW ip \in Ips, NEW r \in find_best_route(ip)
                 PROVE  r.peer \in peer_servers
        BY DEF ConnectedIsListed
    <2>1. r \in ip_to_routes[ip] /\ conn[r.peer].connected
        BY DEF find_best_route, Usable
    <2>2. r.peer \in Conns
        BY <2>1 DEF FederationInv, RouteInv, IpRouteInfo
    <2> QED BY <2>1, <2>2 DEF FederationInv, ConnInv, SendersAreListed
<1>4. FederationInv => EndedLeavesNothing
    BY DEF FederationInv
<1> QED BY <1>1, <1>2, <1>3, <1>4, FederationInvAlways, GoneAlways, PTL DEF PeerInv
=============================================================================
