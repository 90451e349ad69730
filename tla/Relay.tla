------------------------------- MODULE Relay -------------------------------
(***************************************************************************)
(* The path of one frame from the tun device of a client to the devices of *)
(* the others: straight to a peer, over peers that pass it on, over a      *)
(* server both are connected to, or over two federated servers; and the    *)
(* broadcast of a client that is connected to several servers, which sends *)
(* to some peers itself and divides the others among the servers.          *)
(*                                                                         *)
(* Frames share nothing but queues, so one frame is followed.  A lookup in *)
(* the route table, in the latencies of the servers or in the routes of    *)
(* the federation gives any answer it can give at some time (RouteTable    *)
(* and PeerServer say which): none of these tables is a variable here.     *)
(* Encryption, compression and parity do not change where a frame goes.    *)
(***************************************************************************)
EXTENDS Integers, FiniteSets

CONSTANTS
    Clients,
    Servers,     \* the servers every client is configured with
    P2pOnly,     \* clients with use_channel P2p
    MaxTtl,      \* set_ttl(5) of a frame from the tun device
    MaxDirect,   \* the 16 of ipv4_broadcast_outbound
    MaxEvents,   \* bound on what happens to the sessions
    Everybody,   \* the broadcast address
    Gateway,     \* the address of the servers
    None

ASSUME RelayAssumption ==
    /\ MaxTtl \in Nat \ {0, 1} /\ {MaxDirect, MaxEvents} \subseteq Nat
    /\ IsFiniteSet(Clients) /\ Clients \cap Servers = {}
    /\ {Everybody, Gateway, None} \cap (Clients \cup Servers) = {}
    /\ Everybody # Gateway /\ Everybody # None /\ Gateway # None
    /\ \A list \in SUBSET Clients : list # None

VARIABLES
    sender_map,  \* server -> the clients it has a sender for
    connected,   \* client -> the servers it is connected to
    client_map,  \* client -> server -> the clients the client thinks online there
    frames,      \* the frames under way
    got,         \* client -> how often its tun device was given the frame
    sent,        \* the frame that is followed
    events,      \* changes of sessions so far
    settled,     \* history: no session changed since the frame was sent
    lost         \* history: something of the frame was lost

vars == <<sender_map, connected, client_map, frames, got, sent, events,
          settled, lost>>
sessions == <<sender_map, connected, client_map>>

\* ips is the list of a SelectiveBroadcast.  dest of a Turn frame with the
\* gateway flag is Gateway.
Frame == [type : {"Turn", "Broadcast", "ExcludeBroadcast", "TargetBroadcast"},
          src : Clients, dest : Clients \cup {Everybody, Gateway},
          ips : SUBSET Clients, ttl : 0 .. MaxTtl,
          from : Clients \cup Servers, to : Clients \cup Servers]

\* listed: whom the sender thought online, when what it knew was exact, else
\* None.
NoFrame == [src |-> None, dest |-> None, listed |-> None]

TypeOK ==
    /\ sender_map \in [Servers -> SUBSET Clients]
    /\ connected \in [Clients -> SUBSET Servers]
    /\ client_map \in [Clients -> [Servers -> SUBSET Clients]]
    /\ \A c \in Clients, s \in Servers : c \notin client_map[c][s]
    /\ frames \subseteq Frame
    /\ got \in [Clients -> Nat]
    /\ sent \in [src : Clients \cup {None},
                 dest : Clients \cup {Everybody, Gateway, None},
                 listed : (SUBSET Clients) \cup {None}]
    /\ events \in 0 .. MaxEvents /\ settled \in BOOLEAN /\ lost \in BOOLEAN
    \* What a server sends to a client is addressed to it or to everybody,
    \* and what a gateway answers has one hop to go.
    /\ \A f \in frames : f.from \in Servers /\ f.to \in Clients =>
          /\ f.dest \in {f.to, Everybody, Gateway}
          /\ f.dest = Gateway => f.ttl = 1
          /\ f.type \in {"Turn", "Broadcast"}

\* Clients that are on some servers and know who else is.
Init ==
    /\ sender_map \in [Servers -> SUBSET Clients]
    /\ connected = [c \in Clients |-> {s \in Servers : c \in sender_map[s]}]
    /\ client_map = [c \in Clients |-> [s \in Servers |->
          IF c \in sender_map[s] THEN sender_map[s] \ {c} ELSE {}]]
    /\ frames = {} /\ got = [c \in Clients |-> 0] /\ sent = NoFrame
    /\ events = 0 /\ settled = TRUE /\ lost = FALSE

-----------------------------------------------------------------------------
(***************************************************************************)
(* What the sender knows                                                   *)
(***************************************************************************)

client_online_ips(c) == UNION {client_map[c][s] : s \in Servers}

\* The fastest of these, whatever the latencies are.
find_ip_to_server(c, d) == {s \in connected[c] : d \in client_map[c][s]}

\* Likewise.
find_connected_server(c) == connected[c]

\* The highest number of clients per latency: no server without clients, as
\* long as another has some.
BestServers(c) == {s \in Servers :
    client_map[c][s] # {} \/ client_online_ips(c) = {}}

Exact(c) == \A s \in Servers :
    /\ s \in connected[c] <=> c \in sender_map[s]
    /\ client_map[c][s] = IF s \in connected[c] THEN sender_map[s] \ {c} ELSE {}

-----------------------------------------------------------------------------
(***************************************************************************)
(* The sender                                                              *)
(***************************************************************************)

Turn(c, d, to) == [type |-> "Turn", src |-> c, dest |-> d, ips |-> {},
                   ttl |-> MaxTtl, from |-> c, to |-> to]
Wrapped(t, c, ips, to) == [type |-> t, src |-> c, dest |-> Everybody,
                           ips |-> ips, ttl |-> MaxTtl, from |-> c, to |-> to]

Start(c, d, f) ==
    /\ sent = NoFrame
    /\ sent' = [src |-> c, dest |-> d,
                listed |-> IF Exact(c) THEN client_online_ips(c) ELSE None]
    /\ frames' = f
    /\ UNCHANGED <<sessions, got, events, settled>>

\* send_raw of ServerOutbound: to a server that has the destination.
SendOverServer(c, d) ==
    \E s \in find_ip_to_server(c, d) : Start(c, d, {Turn(c, d, s)})

\* send_encrypted_packet: over the route, if there is one, else over a server;
\* an error of either ends the frame.
send_encrypted_packet(c, d) ==
    \/ \E hop \in Clients \ {c} : Start(c, d, {Turn(c, d, hop)})
    \/ c \notin P2pOnly /\ SendOverServer(c, d)
    \/ Start(c, d, {})

ipv4_outbound(c, d) ==
    d # c /\ send_encrypted_packet(c, d) /\ lost' = (frames' = {})

ipv4_gateway_outbound(c) ==
    /\ \E s \in find_connected_server(c) : Start(c, Gateway, {Turn(c, Gateway, s)})
    /\ UNCHANGED lost

\* p2p_broadcast: those with a direct route, up to MaxDirect of them.
p2p_broadcast(list) == {ips \in SUBSET list : Cardinality(ips) <= MaxDirect}

\* Mutant: nobody is left for the servers as soon as somebody was reached.
AnyDirect(direct, list) == direct # {}
AllDirect(direct, list) == direct # {} /\ Cardinality(direct) = Cardinality(list)

\* Mutant: those the best server reaches are not left out.
TargetAll(c, best, direct, s) == client_map[c][s] \ direct

TargetIps(c, best, direct, s) == client_map[c][s] \ (client_map[c][best] \cup direct)

\* send_raw_broadcast: one message per server.
SendRawBroadcast(c, best, direct) ==
    {IF direct = {} THEN Wrapped("Broadcast", c, {}, best)
     ELSE Wrapped("ExcludeBroadcast", c, direct, best)}
    \cup {Wrapped("TargetBroadcast", c, TargetIps(c, best, direct, s), s) :
             s \in {t \in Servers \ {best} : TargetIps(c, best, direct, t) # {}}}

\* ipv4_broadcast_outbound.
ipv4_broadcast_outbound(c) ==
    LET list == client_online_ips(c)
        Direct(ips) == {Wrapped("Broadcast", c, {}, d) : d \in ips} IN
    /\ \E direct \in p2p_broadcast(list), best \in BestServers(c) :
          Start(c, Everybody, Direct(direct) \cup
             IF \/ AllDirect(direct, list)
                \/ c \in P2pOnly
                \/ client_map[c][best] = {}
             THEN {} ELSE SendRawBroadcast(c, best, direct))
    /\ UNCHANGED lost

-----------------------------------------------------------------------------
(***************************************************************************)
(* The servers                                                             *)
(***************************************************************************)

\* Frames f go out instead of the frame m.  try_send drops what finds the
\* queue of its receiver full.
Replace(m, f) == \E kept \in SUBSET f :
    /\ frames' = (frames \ {m}) \cup kept
    /\ lost' = (lost \/ kept # f)

\* Mutant: the frame inside a SelectiveBroadcast is not taken out.
ToEachWrapped(m, s, cs, t) == {[m EXCEPT !.ttl = m.ttl - 1, !.from = s, !.to = c] : c \in cs}

\* An outgoing frame of server s for each client of a set; the frame inside a
\* SelectiveBroadcast is a Broadcast.
ToEach(m, s, cs, t) == {[m EXCEPT !.type = t, !.ips = {}, !.ttl = m.ttl - 1,
                                  !.from = s, !.to = c] : c \in cs}

\* The server's decr_ttl: a frame with one hop left is not passed on.
decr_ttl(m) == m.ttl > 1

\* The sender of a Broadcast is left out; the outer frame of the others has
\* no src, so that theirs is not.
Receivers(m, s) ==
    CASE m.type = "Broadcast"        -> sender_map[s] \ {m.src}
      [] m.type = "ExcludeBroadcast" -> sender_map[s] \ m.ips
      [] m.type = "TargetBroadcast"  -> sender_map[s] \cap m.ips

\* To another server, as a datagram.
forward_to_peer(m, s, p) ==
    /\ frames' = (frames \ {m}) \cup {[m EXCEPT !.ttl = m.ttl - 1, !.from = s, !.to = p]}
    /\ UNCHANGED lost

\* A server whose list has the client is taken if it is faster than this one,
\* or the only one to have it.
forward_with_best_route(m, s) ==
    \E p \in Servers \ {s} : m.dest \in sender_map[p] /\ forward_to_peer(m, s, p)

\* To the client's own sender, if it has one.
ToLocal(m, s) ==
    \/ m.dest \in sender_map[s] /\ Replace(m, ToEach(m, s, {m.dest}, "Turn"))
    \/ /\ m.dest \notin sender_map[s]
       /\ frames' = frames \ {m} /\ lost' = TRUE

\* handle_data for a frame that is not the gateway's.
handle_data(m, s) ==
    /\ m.from \in sender_map[s] /\ m.dest # Gateway
    /\ IF ~decr_ttl(m) THEN Replace(m, {})
       ELSE \/ /\ m.type = "Turn"
               /\ forward_with_best_route(m, s) \/ ToLocal(m, s)
            \/ /\ m.type # "Turn"
               /\ Replace(m, ToEach(m, s, Receivers(m, s), "Broadcast"))

\* handle_icmp_ping: with one hop to go.
EchoReply(m, s) == [m EXCEPT !.ttl = 1, !.from = s, !.to = m.from]

\* handle_gateway: a ping is answered over the same connection.
handle_gateway(m, s) ==
    /\ m.from \in sender_map[s] /\ m.dest = Gateway
    /\ Replace(m, {EchoReply(m, s)})

-----------------------------------------------------------------------------
(***************************************************************************)
(* The receivers                                                           *)
(***************************************************************************)

\* EnhancedInbound: to the tun device.
Give(m, c) ==
    /\ got' = [got EXCEPT ![c] = @ + 1]
    /\ frames' = frames \ {m} /\ UNCHANGED lost

\* handle_server_data lets only the answer to a ping through.
handle_server_data(m, c) == m.dest = Gateway /\ Give(m, c)

handle_client_data(m, c) ==
    /\ m.dest # Gateway
    /\ IF m.dest \in {c, Everybody} THEN Give(m, c)
       ELSE frames' = frames \ {m} /\ UNCHANGED <<got, lost>>

\* ServerTurnInboundHandler::handle.
handle(m, c) ==
    m.from \in Servers /\ (handle_server_data(m, c) \/ handle_client_data(m, c))

\* Mutant: frames are passed on whatever is left of their time to live.
ForwardAlways(ttl) == TRUE
MayForward(ttl) == ttl >= 1

\* P2pInboundHandler::next_handle_impl: decrement, then drop what was never
\* decremented, pass on what is for somebody else, deliver the rest.
next_handle(m, c) ==
    LET ttl == IF m.ttl = 0 THEN 0 ELSE m.ttl - 1 IN
    /\ m.from \in Clients
    /\ IF m.src = m.dest \/ MaxTtl <= ttl
       THEN frames' = frames \ {m} /\ UNCHANGED <<got, lost>>
       ELSE IF m.dest \in {c, Everybody} THEN Give(m, c)
       ELSE /\ UNCHANGED got
            /\ \/ /\ MayForward(ttl)
                  /\ \E hop \in Clients \ {c} : frames' = (frames \ {m}) \cup
                        {[m EXCEPT !.ttl = ttl, !.from = c, !.to = hop]}
                  /\ UNCHANGED lost
               \/ frames' = frames \ {m} /\ lost' = TRUE

-----------------------------------------------------------------------------
(***************************************************************************)
(* Losses and sessions                                                     *)
(***************************************************************************)

\* A datagram between clients is lost, or a connection breaks.
Lose == \E m \in frames :
    /\ frames' = frames \ {m} /\ lost' = TRUE
    /\ UNCHANGED <<sessions, got, sent, events, settled>>

\* send_timeout: nobody takes the frame for a server that has no session.
Expire == \E m \in frames :
    /\ m.to \in Servers /\ m.from \in Clients /\ m.from \notin sender_map[m.to]
    /\ frames' = frames \ {m} /\ lost' = TRUE
    /\ UNCHANGED <<sessions, got, sent, events, settled>>

Change ==
    /\ events < MaxEvents /\ events' = events + 1
    /\ settled' = (settled /\ sent = NoFrame)
    /\ UNCHANGED <<frames, got, sent, lost>>

Register(c, s) ==
    /\ s \notin connected[c]
    /\ sender_map' = [sender_map EXCEPT ![s] = @ \cup {c}]
    /\ connected' = [connected EXCEPT ![c] = @ \cup {s}]
    /\ UNCHANGED client_map /\ Change

\* The client notices that its connection is gone; what it knows of the
\* server's clients stays.
handle_disconnected(c, s) ==
    /\ s \in connected[c]
    /\ connected' = [connected EXCEPT ![c] = @ \ {s}]
    /\ UNCHANGED <<sender_map, client_map>> /\ Change

\* The server notices.
DropSession(c, s) ==
    /\ c \in sender_map[s]
    /\ sender_map' = [sender_map EXCEPT ![s] = @ \ {c}]
    /\ UNCHANGED <<connected, client_map>> /\ Change

\* PushClientIps (ClientList says what is in it).
update_client_simple_list(c, s) ==
    /\ s \in connected[c] /\ c \in sender_map[s]
    /\ client_map' = [client_map EXCEPT ![c][s] = sender_map[s] \ {c}]
    /\ UNCHANGED <<sender_map, connected>> /\ Change

Serve == \E m \in frames, s \in Servers :
    /\ m.to = s /\ m.from \in Clients
    /\ handle_data(m, s) \/ handle_gateway(m, s)
    /\ UNCHANGED <<sessions, got, sent, events, settled>>

Receive == \E m \in frames, c \in Clients :
    /\ m.to = c
    /\ handle(m, c) \/ next_handle(m, c)
    /\ UNCHANGED <<sessions, sent, events, settled>>

Next ==
    \/ \E c, d \in Clients : ipv4_outbound(c, d)
    \/ \E c \in Clients : ipv4_gateway_outbound(c) \/ ipv4_broadcast_outbound(c)
    \/ Serve \/ Receive \/ Expire \/ Lose
    \/ \E c \in Clients, s \in Servers :
          \/ Register(c, s) \/ handle_disconnected(c, s) \/ DropSession(c, s)
          \/ update_client_simple_list(c, s)

\* The tasks that read sockets and queues are scheduled, and a timeout fires.
Spec == Init /\ [][Next]_vars /\ WF_vars(Serve \/ Receive \/ Expire)

-----------------------------------------------------------------------------
(***************************************************************************)
(* Properties                                                              *)
(***************************************************************************)

\* Whatever the routes of the clients are, also if they lead in a circle, a
\* frame does not circulate for ever: its time to live ends it (decr_ttl, which
\* servers and clients count differently).  What waits for a federated server
\* to read it stays in its buffer.
FrameEnds == (sent # NoFrame) ~> (\A m \in frames : m.from \in Servers /\ m.to \in Servers)

\* Two servers have the device, and neither is the one the sender of a
\* broadcast takes for the best: each of them is asked to give it the frame.
OnTwoOthers(c) ==
    \E best \in Servers : \E s, t \in Servers \ {best} :
        /\ s # t /\ c \in sender_map[s] /\ c \in sender_map[t]
        /\ c \notin sender_map[best]

\* While nobody comes or goes, no device is given a frame twice, although a
\* broadcast goes out over peers and several servers at the same time, and the
\* best of them has clients in common with the others (send_raw_broadcast).
\* The others among each other are not looked at.
DeliveredOnce ==
    sent.listed # None /\ settled => \A c \in Clients :
        got[c] <= 1 \/ (sent.dest = Everybody /\ OnTwoOthers(c))

\* While nobody comes or goes and nothing is lost, a broadcast reaches every
\* client that the sender knows of, whichever part of them it reaches itself
\* (ipv4_broadcast_outbound) and whichever server it takes for the best.
BroadcastIsComplete ==
    (/\ sent.dest = Everybody /\ sent.src \notin P2pOnly
     /\ sent.listed # None /\ settled /\ ~lost /\ frames = {})
    => \A c \in sent.listed : got[c] >= 1
=============================================================================
