----------------------------- MODULE RouteTable -----------------------------
(***************************************************************************)
(* The routes of a client to other clients, found by hole punching and     *)
(* kept alive by heartbeats.                                               *)
(*                                                                         *)
(* A RouteKey stands for a socket and a remote address; every key has a    *)
(* receive task of its own here, which is idle, between the two locks of   *)
(* add_route_if_absent, or between the two of tcp_disconnect.  The task    *)
(* route_timeout_task takes two locks as well: first the expired times are *)
(* taken out of route_key_time, then their routes out of route_table.      *)
(*                                                                         *)
(* A list without routes is an absent entry of route_table: the code never *)
(* keeps an empty one.  Times are fresh or stale (older than 10 seconds).  *)
(***************************************************************************)
EXTENDS Naturals, Sequences, SequencesExt, FiniteSetsExt, Option

CONSTANTS
    Ids,         \* virtual addresses of the other clients
    Keys,        \* RouteKeys
    TcpKeys,     \* the keys of TCP tunnels, which may be closed
    Links,       \* the pairs of a client and a key its packets may come over
    Rtts,        \* round trip times a heartbeat measures
    DEFAULT_RTT  \* assumed for a route that has not been measured

ASSUME RouteAssumption ==
    /\ TcpKeys \subseteq Keys /\ Links \subseteq Ids \X Keys
    /\ Rtts \subseteq Nat /\ DEFAULT_RTT \in Nat
    /\ None \notin Ids \cup {"fresh", "stale"}

VARIABLES
    route_table,      \* id -> its routes, the preferred ones first
    route_key_time,   \* id, key -> "fresh", "stale" or None
    route_key_owner,  \* key -> the id it was punched for, or None
    inbound,          \* key -> its receive task
    expired           \* what route_timeout_task has taken out of the times

tableVars == <<route_table, route_key_time, route_key_owner, inbound, expired>>

Route == [route_key : Keys, metric : {1, 2}, rtt : Rtts \cup {DEFAULT_RTT}]

Idle == [pc |-> "idle", id |-> None, metric |-> 1]
Closed == [pc |-> "closed", id |-> None, metric |-> 1]

Inbound == [pc : {"idle", "absent", "remove", "closed"}, id : Ids \cup {None},
            metric : {1, 2}]

TableTypeOK ==
    /\ route_table \in [Ids -> Seq(Route)]
    /\ route_key_time \in [Ids -> [Keys -> {"fresh", "stale", None}]]
    /\ route_key_owner \in [Keys -> Ids \cup {None}]
    /\ inbound \in [Keys -> Inbound]
    /\ expired \subseteq Ids \X Keys

TableInit ==
    /\ route_table = [id \in Ids |-> <<>>]
    /\ route_key_time = [id \in Ids |-> [key \in Keys |-> None]]
    /\ route_key_owner = [key \in Keys |-> None]
    /\ inbound = [key \in Keys |-> Idle]
    /\ expired = {}

KeysOf(list) == {list[i].route_key : i \in DOMAIN list}
HasRoute(id, key) == key \in KeysOf(route_table[id])
is_direct(route) == route.metric = 1

-----------------------------------------------------------------------------
(***************************************************************************)
(* The table                                                               *)
(***************************************************************************)

Touched(id, key) == [route_key_time EXCEPT ![id][key] = "fresh"]

add_owner_route(id, key) ==
    LET route == [route_key |-> key, metric |-> 1, rtt |-> DEFAULT_RTT]
    IN /\ route_key_owner' = [route_key_owner EXCEPT ![key] = id]
       /\ route_key_time' = Touched(id, key)
       /\ route_table' = [route_table EXCEPT ![id] =
             IF HasRoute(id, key) THEN @ ELSE Append(@, route)]

\* Where the route at position i of the list ends up when its round trip
\* time becomes rtt: it bubbles to the front past slower ones or, if it does
\* not move, to the back past faster ones.
Bubbled(list, i, rtt) ==
    LET front == Max({j \in 1 .. i - 1 : list[j].rtt <= rtt} \cup {0}) + 1
        back == Min({j \in i + 1 .. Len(list) : list[j].rtt >= rtt}
                       \cup {Len(list) + 1}) - 1
    IN IF front < i THEN front ELSE back

\* Where a new route goes: before the first slower one.
Inserted(list, rtt) ==
    Min({j \in DOMAIN list : rtt < list[j].rtt} \cup {Len(list) + 1})

Placed(list, route) ==
    IF route.route_key \in KeysOf(list)
    THEN LET i == CHOOSE j \in DOMAIN list : list[j].route_key = route.route_key
         IN InsertAt(RemoveAt(list, i), Bubbled(list, i, route.rtt), route)
    ELSE InsertAt(list, Inserted(list, route.rtt), route)

\* A relayed route is only taken for an id that has another one.
add_route(id, route) ==
    IF is_direct(route) \/ route_table[id] # <<>>
    THEN /\ route_key_owner' =
               IF is_direct(route) /\ route_key_owner[route.route_key] = None
               THEN [route_key_owner EXCEPT ![route.route_key] = id]
               ELSE route_key_owner
         /\ route_key_time' = Touched(id, route.route_key)
         /\ route_table' = [route_table EXCEPT ![id] = Placed(@, route)]
    ELSE UNCHANGED <<route_table, route_key_time, route_key_owner>>

\* Vec::retain: the routes of the list whose keys are not gone, in their order.
retain(list, gone) ==
    LET kept[n \in 0 .. Len(list)] ==
            IF n = 0 THEN <<>>
            ELSE IF list[n].route_key \in gone THEN kept[n - 1]
                 ELSE Append(kept[n - 1], list[n])
    IN kept[Len(list)]

WithoutKey(list, key) == retain(list, {key})

\* Mutant: the times of the key are removed for every client.
RemoveRouteAllTimes(id, key) ==
    /\ route_table' = [route_table EXCEPT ![id] = WithoutKey(@, key)]
    /\ route_key_owner' = IF route_key_owner[key] = id
                          THEN [route_key_owner EXCEPT ![key] = None]
                          ELSE route_key_owner
    /\ route_key_time' = [i \in Ids |-> [route_key_time[i] EXCEPT ![key] = None]]

remove_route(id, key) ==
    /\ route_table' = [route_table EXCEPT ![id] = WithoutKey(@, key)]
    /\ route_key_owner' = IF route_key_owner[key] = id
                          THEN [route_key_owner EXCEPT ![key] = None]
                          ELSE route_key_owner
    /\ route_key_time' = [route_key_time EXCEPT ![id][key] = None]

-----------------------------------------------------------------------------
(***************************************************************************)
(* The receive task of a key (process_decompressed_packet)                 *)
(***************************************************************************)

\* PunchReq or PunchRes of a client.
Punched(id, key) ==
    /\ inbound[key] = Idle
    /\ add_owner_route(id, key)
    /\ UNCHANGED <<inbound, expired>>

\* Ping, also one that another client has passed on: add_route_if_absent
\* looks and lets go of the lock ...
Pinged(id, key, metric) ==
    /\ inbound[key] = Idle
    /\ route_table[id] = <<>>
    /\ inbound' = [inbound EXCEPT ![key] =
                      [pc |-> "absent", id |-> id, metric |-> metric]]
    /\ UNCHANGED <<route_table, route_key_time, route_key_owner, expired>>

\* ... and adds.
AddIfAbsent(key) ==
    /\ inbound[key].pc = "absent"
    /\ add_route(inbound[key].id, [route_key |-> key, rtt |-> DEFAULT_RTT,
                                   metric |-> inbound[key].metric])
    /\ inbound' = [inbound EXCEPT ![key] = Idle]
    /\ UNCHANGED expired

\* A Pong leaves its sender with a ttl of 1, so that its metric is 1.
Pong(id, key, rtt) ==
    /\ inbound[key] = Idle
    /\ add_route(id, [route_key |-> key, metric |-> 1, rtt |-> rtt])
    /\ UNCHANGED <<inbound, expired>>

\* A TCP tunnel is closed: tcp_disconnect asks for the owner of its key ...
TunnelEnds(key) ==
    /\ key \in TcpKeys /\ inbound[key] = Idle
    /\ inbound' = [inbound EXCEPT ![key] =
          IF route_key_owner[key] = None THEN Closed
          ELSE [pc |-> "remove", id |-> route_key_owner[key], metric |-> 1]]
    /\ UNCHANGED <<route_table, route_key_time, route_key_owner, expired>>

\* ... and removes the route it had then.
tcp_disconnect(key) ==
    /\ inbound[key].pc = "remove"
    /\ remove_route(inbound[key].id, key)
    /\ inbound' = [inbound EXCEPT ![key] = Closed]
    /\ UNCHANGED expired

-----------------------------------------------------------------------------
(***************************************************************************)
(* Expiry                                                                  *)
(***************************************************************************)

\* Ten seconds without a heartbeat.
Silence(id, key) ==
    /\ route_key_time[id][key] = "fresh"
    /\ route_key_time' = [route_key_time EXCEPT ![id][key] = "stale"]
    /\ UNCHANGED <<route_table, route_key_owner, inbound, expired>>

Stale == {p \in Ids \X Keys : route_key_time[p[1]][p[2]] = "stale"}

\* remove_oldest_route: the times ...
CollectExpired ==
    /\ expired = {} /\ Stale # {}
    /\ expired' = Stale
    /\ route_key_time' = [id \in Ids |-> [key \in Keys |->
          IF <<id, key>> \in Stale THEN None ELSE route_key_time[id][key]]]
    /\ UNCHANGED <<route_table, route_key_owner, inbound>>

\* Mutant: only relayed routes expire.
RemoveExpiredRelays ==
    /\ expired # {}
    /\ expired' = {}
    /\ route_table' = [id \in Ids |-> SelectSeq(route_table[id],
          LAMBDA r : <<id, r.route_key>> \notin expired \/ is_direct(r))]
    /\ UNCHANGED <<route_key_time, inbound, route_key_owner>>

\* ... and then the routes, whatever has happened to them since.
RemoveExpired ==
    /\ expired # {}
    /\ expired' = {}
    /\ route_table' = [id \in Ids |->
          retain(route_table[id], {key \in Keys : <<id, key>> \in expired})]
    /\ route_key_owner' = [key \in Keys |->
          IF <<route_key_owner[key], key>> \in expired THEN None
          ELSE route_key_owner[key]]
    /\ UNCHANGED <<route_key_time, inbound>>

Timeout == CollectExpired \/ RemoveExpired

TableNext ==
    \/ \E link \in Links :
          \/ Punched(link[1], link[2])
          \/ \E metric \in {1, 2} : Pinged(link[1], link[2], metric)
          \/ \E rtt \in Rtts : Pong(link[1], link[2], rtt)
          \/ Silence(link[1], link[2])
    \/ \E key \in Keys : AddIfAbsent(key) \/ TunnelEnds(key) \/ tcp_disconnect(key)
    \/ Timeout

\* route_timeout_task comes back every 10 seconds.
TableSpec == TableInit /\ [][TableNext]_tableVars /\ WF_tableVars(Timeout)

-----------------------------------------------------------------------------
(***************************************************************************)
(* Properties                                                              *)
(***************************************************************************)

\* No route lives for ever: every route has a time that can expire, or
\* route_timeout_task is about to remove it, although the times and the
\* routes are changed under different locks.
RouteIsTimed ==
    \A id \in Ids : \A key \in KeysOf(route_table[id]) :
        route_key_time[id][key] # None \/ <<id, key>> \in expired

\* The owner that tcp_disconnect finds for a key has a route over that key,
\* so that closing the tunnel removes a route that exists.
OwnerHasRoute ==
    \A key \in Keys :
        route_key_owner[key] # None => HasRoute(route_key_owner[key], key)

\* get_by_id and ping_all rely on the order of the list: a key occurs once,
\* and the routes faster than DEFAULT_RTT come first, in order, although
\* add_owner_route appends without looking and a slower route may be there.
FastRoutesFirst ==
    \A id \in Ids :
        LET list == route_table[id]
        IN \A i, j \in DOMAIN list : i < j =>
              /\ list[i].route_key # list[j].route_key
              /\ list[j].rtt < DEFAULT_RTT => list[i].rtt <= list[j].rtt

\* The three maps agree with each other, although each operation on them
\* takes their locks one after the other.
TableInv == TableTypeOK /\ RouteIsTimed /\ OwnerHasRoute /\ FastRoutesFirst

\* A route that gets no more heartbeats is removed.
SilentRouteGoes ==
    \A id \in Ids, key \in Keys :
        (HasRoute(id, key) /\ route_key_time[id][key] # "fresh")
            ~> (~HasRoute(id, key) \/ route_key_time[id][key] = "fresh")
=============================================================================
