----------------------------- MODULE PeerServer -----------------------------
(***************************************************************************)
(* Federation of servers: the PeerServerManager of one server.             *)
(*                                                                         *)
(* A connection to another server is a PeerServerInfo, compared by         *)
(* identity, with a communication loop of its own; outgoing connections    *)
(* are made, and made again, by a task per configured address.  Every 30   *)
(* seconds a loop pulls the clients of the other server into ip_to_routes. *)
(* Routes are kept per network; one network is modelled, and it exists on  *)
(* this server.  The routes of an address are a vector sorted by latency:  *)
(* a set here, of which a slowest route is dropped when it is too long.    *)
(***************************************************************************)
EXTENDS Naturals, FiniteSets

CONSTANTS
    Addrs,       \* addresses of other servers an administrator may configure
    Tasks,       \* bound: the connection tasks that are ever started
    Conns,       \* bound: the connections that are ever established
    Requests,    \* bound: administrator's requests handled at a time
    Ips,         \* addresses of clients
    Latencies,   \* measured latencies
    Word,        \* latencies are added modulo Word (u32: 2^32)
    MaxRoutes,   \* MAX_ROUTES_PER_IP
    None

ASSUME LatencyAssumption ==
    /\ Latencies \subseteq Nat
    /\ Word \in Nat \ {0} /\ MaxRoutes \in Nat \ {0}

ASSUME NoneAssumption == None \notin Addrs \cup Tasks \cup Requests

DefaultLatency == 10 % Word   \* DEFAULT_CLIENT_LATENCY_MS, ..SERVER_LATENCY_MS

VARIABLES
    conn,            \* the PeerServerInfo of a connection and its loop
    peer_servers,    \* the connections listed
    ip_to_routes,    \* client address -> set of IpRouteInfo
    seen,            \* history: connection -> the client list handled last
    task,            \* the tasks of connect_to_peer
    outbound_tasks,  \* address -> the task registered for it, or None
    request,         \* add_outbound_peer and remove_outbound_peer under way
    outlived         \* history: addresses whose removal was over before the
                     \*   last of their tasks had noticed that it is to stop

vars == <<conn, peer_servers, ip_to_routes, seen, task, outbound_tasks,
          request, outlived>>

\* The clients of a server: address -> latency, or None.
ClientList == [Ips -> Latencies \cup {None}]

\* loop: not established yet, running, left, or dropped at an await.
\* link: "eof" when the other side has only finished its stream.
Conn == [addr : Addrs \cup {None},
         loop : {"none", "running", "ended", "cancelled"},
         link : {"up", "eof", "error"}, connected : BOOLEAN,
         latency : Latencies \cup {DefaultLatency}]

IpRouteInfo == [peer : Conns, client_latency_ms : Latencies]

Task == [addr : Addrs \cup {None}, conn : Conns \cup {None}, stop : BOOLEAN,
         pc : {"none", "connecting", "running", "delay", "done"}]

\* add_outbound_peer awaiting the database, remove_outbound_peer awaiting the
\* end of the task (5 seconds at most).
Request == [pc : {"idle", "save", "scan"}, addr : Addrs \cup {None}]

TypeOK ==
    /\ conn \in [Conns -> Conn]
    /\ peer_servers \subseteq Conns
    /\ ip_to_routes \in [Ips -> SUBSET IpRouteInfo]
    /\ seen \in [Conns -> ClientList]
    /\ task \in [Tasks -> Task]
    /\ outbound_tasks \in [Addrs -> Tasks \cup {None}]
    /\ request \in [Requests -> Request]
    /\ outlived \subseteq Addrs

\* A new identity (an Arc, a task): the names that are left are alike.
Fresh(ids) == IF ids = {} THEN None ELSE CHOOSE x \in ids : TRUE

NoClients == [ip \in Ips |-> None]
Idle == [pc |-> "idle", addr |-> None]

Started(a) == [addr |-> a, conn |-> None, stop |-> FALSE, pc |-> "connecting"]

\* load_and_start_outbound_peers: a task for every row.
Init ==
    /\ conn = [c \in Conns |->
          [addr |-> None, loop |-> "none", link |-> "up", connected |-> FALSE,
           latency |-> DefaultLatency]]
    /\ peer_servers = {}
    /\ ip_to_routes = [ip \in Ips |-> {}]
    /\ seen = [c \in Conns |-> NoClients]
    /\ \E start \in [Addrs -> Tasks \cup {None}] :
          /\ \A a, b \in Addrs : a # b /\ start[a] = start[b] => start[a] = None
          /\ outbound_tasks = start
          /\ task = [t \in Tasks |->
                IF \E a \in Addrs : start[a] = t
                THEN Started(CHOOSE a \in Addrs : start[a] = t)
                ELSE [addr |-> None, conn |-> None, stop |-> FALSE, pc |-> "none"]]
    /\ request = [q \in Requests |-> Idle] /\ outlived = {}

-----------------------------------------------------------------------------
(***************************************************************************)
(* Routes                                                                  *)
(***************************************************************************)

total_latency(r) == (conn[r.peer].latency + r.client_latency_ms + 2) % Word

Slowest(routes) ==
    {r \in routes : \A q \in routes : total_latency(q) <= total_latency(r)}

\* Sorted and truncated: the vectors' possible contents.
Truncated(routes) ==
    IF Cardinality(routes) <= MaxRoutes THEN {routes}
    ELSE {routes \ {r} : r \in Slowest(routes)}

Without(routes, c) == {r \in routes : r.peer # c}

\* Mutant: addresses that are no longer listed keep their route.
SyncOnlyAdds(c, clients, ip) ==
    IF clients[ip] = None THEN {ip_to_routes[ip]}
    ELSE Truncated(Without(ip_to_routes[ip], c) \cup
                   {[peer |-> c, client_latency_ms |-> clients[ip]]})

\* What the routes of ip may become when c lists these clients: its route is
\* added, brought up to date, or taken away.
Synced(c, clients, ip) ==
    IF clients[ip] = None THEN {Without(ip_to_routes[ip], c)}
    ELSE Truncated(Without(ip_to_routes[ip], c) \cup
                   {[peer |-> c, client_latency_ms |-> clients[ip]]})

Running(c) == conn[c].loop = "running"

\* The answer to a pull_client_info_from_peer (each network_sync_interval)
\* arrives; what is left in the stream is read after a failure too.  It is
\* handled entry by entry; entries do not depend on each other, so that the
\* whole response is one step.
handle_client_info_response(c, clients) ==
    /\ Running(c)
    /\ ip_to_routes' \in
         {f \in [Ips -> UNION {Synced(c, clients, ip) : ip \in Ips}] :
             \A ip \in Ips : f[ip] \in Synced(c, clients, ip)}
    /\ seen' = [seen EXCEPT ![c] = clients]
    /\ UNCHANGED <<conn, peer_servers, task, outbound_tasks, request, outlived>>

handle_ping_response(c, latency) ==
    /\ Running(c) /\ conn[c].link = "up"
    /\ conn' = [conn EXCEPT ![c].latency = latency]
    /\ UNCHANGED <<peer_servers, ip_to_routes, seen, task, outbound_tasks,
                   request, outlived>>

\* The connection fails, or the other side finishes its stream.
LinkFails(c, how) ==
    /\ Running(c) /\ conn[c].link = "up"
    /\ conn' = [conn EXCEPT ![c].link = how]
    /\ UNCHANGED <<peer_servers, ip_to_routes, seen, task, outbound_tasks,
                   request, outlived>>

\* Mutant: the routes are not cleaned up.
RoutesStay(c) == ip_to_routes

cleanup_routes(c) == [ip \in Ips |-> Without(ip_to_routes[ip], c)]

\* The loop breaks: on an error; on an end of stream only when a ping or a
\* pull is written, for which the sender must be there.  A task that ran the
\* loop goes on to wait before it reconnects.
LoopEnds(c) ==
    /\ Running(c)
    /\ \/ conn[c].link = "error"
       \/ conn[c].link = "eof" /\ conn[c].connected
    /\ conn' = [conn EXCEPT ![c].loop = "ended", ![c].connected = FALSE,
                            ![c].link = "up"]
    /\ seen' = [seen EXCEPT ![c] = NoClients]
    /\ ip_to_routes' = cleanup_routes(c)
    /\ peer_servers' = peer_servers \ {c}
    /\ task' = [t \in Tasks |->
          IF task[t].pc = "running" /\ task[t].conn = c
          THEN [task[t] EXCEPT !.pc = "delay", !.conn = None] ELSE task[t]]
    /\ UNCHANGED <<outbound_tasks, request, outlived>>

-----------------------------------------------------------------------------
(***************************************************************************)
(* Connections                                                             *)
(***************************************************************************)

\* A PeerServerInfo for a new connection, authenticated and connected.
Established(c, addr) ==
    /\ c = Fresh({x \in Conns : conn[x].loop = "none"})
    /\ conn' = [conn EXCEPT ![c].loop = "running", ![c].connected = TRUE,
                            ![c].addr = addr]
    /\ peer_servers' = peer_servers \cup {c}

handle_peer_connection(c) ==
    /\ Established(c, None)
    /\ UNCHANGED <<ip_to_routes, seen, task, outbound_tasks, request, outlived>>

connect_to_peer_once(t, c) ==
    /\ task[t].pc = "connecting"
    /\ Established(c, task[t].addr)
    /\ task' = [task EXCEPT ![t].pc = "running", ![t].conn = c]
    /\ UNCHANGED <<ip_to_routes, seen, outbound_tasks, request, outlived>>

ConnectFails(t) ==
    /\ task[t].pc = "connecting"
    /\ task' = [task EXCEPT ![t].pc = "delay"]
    /\ UNCHANGED <<conn, peer_servers, ip_to_routes, seen, outbound_tasks,
                   request, outlived>>

Reconnect(t) ==
    /\ task[t].pc = "delay"
    /\ task' = [task EXCEPT ![t].pc = "connecting"]
    /\ UNCHANGED <<conn, peer_servers, ip_to_routes, seen, outbound_tasks,
                   request, outlived>>

\* stop_rx resolves, also when the sender was dropped: select! drops the
\* connection's future where it is, without the code after its loop.
TaskStops(t) ==
    /\ task[t].stop /\ task[t].pc \in {"connecting", "running", "delay"}
    /\ task' = [task EXCEPT ![t].pc = "done", ![t].conn = None]
    /\ IF task[t].pc = "running"
       THEN conn' = [conn EXCEPT ![task[t].conn].loop = "cancelled"]
       ELSE UNCHANGED conn
    /\ UNCHANGED <<peer_servers, ip_to_routes, seen, outbound_tasks, request,
                   outlived>>

-----------------------------------------------------------------------------
(***************************************************************************)
(* The administrator's requests                                            *)
(***************************************************************************)

\* Refused when there is a task for the address.
add_outbound_peer(q, a) ==
    /\ q = Fresh({x \in Requests : request[x] = Idle})
    /\ outbound_tasks[a] = None
    /\ request' = [request EXCEPT ![q] = [pc |-> "save", addr |-> a]]
    /\ UNCHANGED <<conn, peer_servers, ip_to_routes, seen, task, outbound_tasks,
                   outlived>>

\* The row is saved, the task started and registered.  A task registered in
\* the meantime loses its handle and its stop sender, which stops it.
AddStart(q, t) ==
    LET a == request[q].addr
    IN /\ request[q].pc = "save"
       /\ t = Fresh({u \in Tasks : task[u].pc = "none"})
       /\ task' = [u \in Tasks |->
             IF u = t THEN Started(a)
             ELSE IF u = outbound_tasks[a] THEN [task[u] EXCEPT !.stop = TRUE]
             ELSE task[u]]
       /\ outbound_tasks' = [outbound_tasks EXCEPT ![a] = t]
       /\ request' = [request EXCEPT ![q] = Idle]
       /\ UNCHANGED <<conn, peer_servers, ip_to_routes, seen, outlived>>

AddFails(q) ==
    /\ request[q].pc = "save"
    /\ request' = [request EXCEPT ![q] = Idle]
    /\ UNCHANGED <<conn, peer_servers, ip_to_routes, seen, task, outbound_tasks,
                   outlived>>

\* Mutant: the list is scanned at once, without waiting for the task.
RemoveAtOnce(q, a) ==
    LET gone == {c \in peer_servers : conn[c].addr = a}
    IN /\ q = Fresh({x \in Requests : request[x] = Idle})
       /\ outbound_tasks' = [outbound_tasks EXCEPT ![a] = None]
       /\ task' = [t \in Tasks |-> IF t = outbound_tasks[a]
                                   THEN [task[t] EXCEPT !.stop = TRUE] ELSE task[t]]
       /\ conn' = [c \in Conns |-> IF c \in gone
                                   THEN [conn[c] EXCEPT !.connected = FALSE]
                                   ELSE conn[c]]
       /\ peer_servers' = peer_servers \ gone
       /\ UNCHANGED <<ip_to_routes, seen, request, outlived>>

remove_outbound_peer(q, a) ==
    /\ q = Fresh({x \in Requests : request[x] = Idle})
    /\ request' = [request EXCEPT ![q] = [pc |-> "scan", addr |-> a]]
    /\ outbound_tasks' = [outbound_tasks EXCEPT ![a] = None]
    /\ task' = [t \in Tasks |-> IF t = outbound_tasks[a]
                                THEN [task[t] EXCEPT !.stop = TRUE] ELSE task[t]]
    /\ UNCHANGED <<conn, peer_servers, ip_to_routes, seen, outlived>>

\* The tasks of an address that have not ended.
Alive(a) == {t \in Tasks : /\ task[t].addr = a
                           /\ task[t].pc \in {"connecting", "running", "delay"}}

\* remove_outbound_peer has taken the task of address a and told it to stop.
Removing(q, a) == request[q].pc = "scan" /\ request[q].addr = a

\* Mutant: the connections are unlisted but stay connected.
RemoveOnlyUnlists(q) ==
    /\ request[q].pc = "scan"
    /\ outlived' = outlived \cup {request[q].addr}
    /\ peer_servers' = {c \in peer_servers : conn[c].addr # request[q].addr}
    /\ request' = [request EXCEPT ![q] = Idle]
    /\ UNCHANGED <<conn, ip_to_routes, seen, task, outbound_tasks>>

\* The task has ended or the wait is over: what is listed for the address
\* goes.  The deletion of the row that follows changes nothing here.
RemoveScan(q) ==
    LET a == request[q].addr
        gone == {c \in peer_servers : conn[c].addr = a}
    IN /\ request[q].pc = "scan"
       /\ outlived' = IF \E t \in Alive(a) : task[t].stop
                      THEN outlived \cup {a} ELSE outlived \ {a}
       /\ conn' = [c \in Conns |-> IF c \in gone
                                   THEN [conn[c] EXCEPT !.connected = FALSE]
                                   ELSE conn[c]]
       /\ peer_servers' = peer_servers \ gone
       /\ request' = [request EXCEPT ![q] = Idle]
       /\ UNCHANGED <<ip_to_routes, seen, task, outbound_tasks>>

-----------------------------------------------------------------------------
(***************************************************************************)
(* Choice of a route                                                       *)
(***************************************************************************)

Usable(ip) == {r \in ip_to_routes[ip] : conn[r.peer].connected}

\* The routes find_best_route may return.
find_best_route(ip) ==
    {r \in Usable(ip) : \A q \in Usable(ip) : total_latency(r) <= total_latency(q)}

-----------------------------------------------------------------------------
LoopStep(c) ==
    \/ \E clients \in ClientList : handle_client_info_response(c, clients)
    \/ \E l \in Latencies : handle_ping_response(c, l)
    \/ LoopEnds(c)

Next ==
    \/ \E c \in Conns : \/ LoopStep(c)
                        \/ \E how \in {"eof", "error"} : LinkFails(c, how)
                        \/ handle_peer_connection(c)
    \/ \E t \in Tasks : \/ \E c \in Conns : connect_to_peer_once(t, c)
                        \/ ConnectFails(t) \/ Reconnect(t) \/ TaskStops(t)
    \/ \E q \in Requests :
          \/ \E a \in Addrs : add_outbound_peer(q, a) \/ remove_outbound_peer(q, a)
          \/ \E t \in Tasks : AddStart(q, t)
          \/ AddFails(q) \/ RemoveScan(q)

Spec == Init /\ [][Next]_vars

-----------------------------------------------------------------------------
(***************************************************************************)
(* Properties                                                              *)
(***************************************************************************)

\* The routes of an address never exceed the limit, and a server has one
\* route to it however often and in whatever order the lists arrive.
RoutesAreBounded ==
    \A ip \in Ips :
        /\ Cardinality(ip_to_routes[ip]) <= MaxRoutes
        /\ \A r, q \in ip_to_routes[ip] : r.peer = q.peer => r = q

\* A route repeats what its server said last: an address it no longer lists
\* has no route over it, whatever the loops of other servers, reconnections
\* and removals do to the same lists in between.
RoutesFollowSync ==
    \A ip \in Ips : \A r \in ip_to_routes[ip] :
        seen[r.peer][ip] = r.client_latency_ms

\* A loop that has left leaves nothing behind: no route, no sender, no place
\* in the list of servers.  (A loop that select! dropped does not clean up.)
EndedLeavesNothing ==
    \A c \in Conns : conn[c].loop = "ended" =>
        /\ \A ip \in Ips : Without(ip_to_routes[ip], c) = ip_to_routes[ip]
        /\ ~conn[c].connected
        /\ c \notin peer_servers

\* A frame is only forwarded over a connection that is listed, so that the
\* administrator can see and remove it.
ConnectedIsListed ==
    \A ip \in Ips : \A r \in find_best_route(ip) : r.peer \in peer_servers

\* What the administrator sees, the limits, and what a loop leaves hold for
\* every interleaving of tasks, loops and requests.
PeerInv ==
    TypeOK /\ RoutesAreBounded /\ ConnectedIsListed /\ EndedLeavesNothing

\* What the administrator has removed stays removed: when remove_outbound_peer
\* has returned and nothing was added since, no connection to the address is
\* listed and no task will make one, whatever two overlapping requests did to
\* the handle of a task and wherever select! dropped a loop.  Exempt is an
\* address with a task that did not stop within the 5 seconds, or was replaced
\* by an overlapping add and not waited for.
RemovedIsGone ==
    \A a \in Addrs :
        outbound_tasks[a] = None /\ a \notin outlived
          /\ (\A q \in Requests : ~Removing(q, a)) =>
            Alive(a) = {} /\ \A c \in peer_servers : conn[c].addr # a
=============================================================================
