------------------------------- MODULE Punch --------------------------------
(***************************************************************************)
(* Hole punching between two clients.  The one with the smaller address    *)
(* asks (PunchStart1) and is answered (PunchStart2) through the server;    *)
(* with that each sends a PunchReq to the other's public addresses.  What  *)
(* the NATs let through is answered by a PunchRes, and both messages make  *)
(* a direct route, kept by the heartbeats Ping and Pong and lost after     *)
(* 10 s without a Pong (RouteTable).                                       *)
(*                                                                         *)
(* A client that is started again has other sockets: its life stands for   *)
(* its public addresses, the RouteKey of a route.  Time is counted in      *)
(* multiples of the 3 s of BASE_MS.                                        *)
(***************************************************************************)
EXTENDS Naturals, FiniteSets, Option

CONSTANTS
    Small, Large,    \* the clients, by address
    Lives,           \* client -> how often it may be started
    MAX_BACKOFF

Clients == {Small, Large}
Peer(c) == IF c = Small THEN Large ELSE Small
LivesOf(c) == 1 .. Lives[c]

ASSUME PunchAssumption ==
    /\ Small # Large
    /\ Lives \in [Clients -> Nat \ {0}]
    /\ MAX_BACKOFF \in Nat \ {0}

VARIABLES
    life, up,    \* client -> its life, and whether it runs
    info,        \* client -> whether its NAT is known, MyNatInfo
    count, rest, \* client -> PunchBackoff: count, and what is left to wait
    punching,    \* client -> the lives of the other it is about to punch
    turn,        \* client -> the PunchStart under way to it by the server, or None
    air,         \* client -> the packet under way to it, or None
    route        \* client -> life of the other -> its direct route

proc == <<life, up, info>>
backoff == <<count, rest>>
punchVars == <<proc, backoff, punching, turn, air, route>>

Starts(c) == [kind : {"PunchStart1", "PunchStart2"}, life : LivesOf(Peer(c))]
Packets(c) == [kind : {"PunchReq", "Ping", "Answer"}, life : LivesOf(Peer(c))]

PunchTypeOK ==
    /\ \A c \in Clients :
          /\ life[c] \in 0 .. Lives[c]
          /\ {up[c], info[c]} \subseteq BOOLEAN
          /\ {count[c], rest[c]} \subseteq 0 .. MAX_BACKOFF
          /\ rest[c] <= count[c]
          /\ punching[c] \subseteq LivesOf(Peer(c))
          /\ route[c] \in [LivesOf(Peer(c)) -> {"none", "fresh", "stale"}]
          /\ air[c] \in Packets(c) \cup {None}
          /\ turn[c] \in Starts(c) \cup {None}

NoRoute(c) == [l \in LivesOf(Peer(c)) |-> "none"]
Routes(c) == {l \in LivesOf(Peer(c)) : route[c][l] # "none"}

\* The smaller client is online when the other one starts.
PunchInit ==
    /\ life = [c \in Clients |-> IF c = Small THEN 1 ELSE 0]
    /\ up = [c \in Clients |-> c = Small]
    /\ info = [c \in Clients |-> c = Small]
    /\ count = [c \in Clients |-> 0]
    /\ rest = [c \in Clients |-> 0]
    /\ punching = [c \in Clients |-> {}]
    /\ turn = [c \in Clients |-> None]
    /\ air = [c \in Clients |-> None]
    /\ route = [c \in Clients |-> NoRoute(c)]

-----------------------------------------------------------------------------
(* The programs and what they know.                                        *)

Start(c) ==
    /\ ~up[c]
    /\ life[c] < Lives[c]
    /\ life' = [life EXCEPT ![c] = @ + 1]
    /\ up' = [up EXCEPT ![c] = TRUE]
    /\ UNCHANGED <<info, backoff, punching, turn, air, route>>

\* A stop or a crash; nothing to this life arrives any more.
Stop(c) ==
    /\ up[c]
    /\ up' = [up EXCEPT ![c] = FALSE]
    /\ info' = [info EXCEPT ![c] = FALSE]
    /\ count' = [count EXCEPT ![c] = 0]
    /\ rest' = [rest EXCEPT ![c] = 0]
    /\ punching' = [punching EXCEPT ![c] = {}]
    /\ route' = [route EXCEPT ![c] = NoRoute(c)]
    /\ air' = [air EXCEPT ![c] = None]
    /\ UNCHANGED <<life, turn>>

\* The tests of the NAT find something; later ones only replace it.
NatKnown(c) ==
    /\ up[c] /\ ~info[c]
    /\ info' = [info EXCEPT ![c] = TRUE]
    /\ UNCHANGED <<life, up, backoff, punching, turn, air, route>>

-----------------------------------------------------------------------------
(* PunchBackoff.                                                           *)

Least(m, n) == IF m < n THEN m ELSE n

\* Mutant: a client that has been punched once is left alone.
should_punch_once(c) == count[c] = 0

should_punch(c) == rest[c] = 0

\* Mutant: the wait grows without a bound.
record_uncapped(c) ==
    /\ count' = [count EXCEPT ![c] = @ + 1]
    /\ rest' = [rest EXCEPT ![c] = count[c] + 1]

\* A count whose wait has reached MAX_BACKOFF makes no difference any more.
record(c) ==
    /\ count' = [count EXCEPT ![c] = Least(@ + 1, MAX_BACKOFF)]
    /\ rest' = [rest EXCEPT ![c] = Least(count[c] + 1, MAX_BACKOFF)]

TimePasses(c) ==
    /\ rest[c] > 0
    /\ rest' = [rest EXCEPT ![c] = @ - 1]
    /\ UNCHANGED <<proc, count, punching, turn, air, route>>

-----------------------------------------------------------------------------
(* Agreement through the server.                                           *)

\* Mutant: both ask.
EitherInitiates(c) == TRUE

Initiates(c) == c = Small

need_punch(c) == Routes(c) = {}

\* Of two PunchStarts to a client the first is lost.
StartSent(c, kind, starts) ==
    [starts EXCEPT ![Peer(c)] = [kind |-> kind, life |-> life[c]]]

\* A round of punch_task, every 5 s.  That the client is not connected, or does
\* not have the other one on its list, is a loss of the message here.
PunchTask(c) ==
    /\ up[c] /\ info[c]
    /\ Initiates(c)
    /\ need_punch(c)
    /\ should_punch(c)
    /\ turn' = StartSent(c, "PunchStart1", turn)
    /\ UNCHANGED <<proc, backoff, punching, air, route>>

\* Whom to punch is taken from the message, not from the routes.
PunchSoon(c) == punching' = [punching EXCEPT ![c] = @ \cup {turn[c].life}]

Asked(c, kind) == up[c] /\ turn[c] # None /\ turn[c].kind = kind

Taken(c) == [turn EXCEPT ![c] = None]

PunchStart1(c) ==
    /\ Asked(c, "PunchStart1")
    /\ IF info[c] /\ should_punch(c)
       THEN PunchSoon(c) /\ turn' = StartSent(c, "PunchStart2", Taken(c))
       ELSE turn' = Taken(c) /\ UNCHANGED punching
    /\ UNCHANGED <<proc, backoff, air, route>>

PunchStart2(c) ==
    /\ Asked(c, "PunchStart2")
    /\ record(c)
    /\ PunchSoon(c)
    /\ turn' = Taken(c)
    /\ UNCHANGED <<proc, air, route>>

\* A full queue, a broken connection, or the receiver is gone.
TurnLost ==
    /\ \E c \in Clients : turn[c] # None /\ turn' = Taken(c)
    /\ UNCHANGED <<proc, backoff, punching, air, route>>

-----------------------------------------------------------------------------
(* Packets between the clients.                                            *)

\* Nobody receives at the addresses of a life that has ended.  Of two packets
\* under way the first is lost.
Sent(c, l, kind, packets) ==
    IF up[Peer(c)] /\ life[Peer(c)] = l
    THEN [packets EXCEPT ![Peer(c)] = [kind |-> kind, life |-> life[c]]]
    ELSE packets

punch_now(c, l) ==
    /\ l \in punching[c]
    /\ punching' = [punching EXCEPT ![c] = @ \ {l}]
    /\ air' = Sent(c, l, "PunchReq", air)
    /\ UNCHANGED <<proc, backoff, turn, route>>

Fresh(c, l) == [route EXCEPT ![c][l] = "fresh"]

\* add_owner_route or add_route; between the two locks of route_timeout_task,
\* which will remove a stale route whatever is heard of it, it is too late.
Heard(c, l) ==
    \/ route' = Fresh(c, l)
    \/ route[c][l] = "stale" /\ UNCHANGED route

Arrives(c, kind) == air[c] # None /\ air[c].kind = kind

OffAir(c) == [air EXCEPT ![c] = None]

\* A direct route, and the answer.
PunchReq(c) ==
    /\ Arrives(c, "PunchReq")
    /\ Heard(c, air[c].life)
    /\ air' = Sent(c, air[c].life, "Answer", OffAir(c))
    /\ UNCHANGED <<proc, backoff, punching, turn>>

\* Mutant: a heartbeat that is sent counts as one that is answered.
ping_refreshes(c, l) == Fresh(c, l)

after_ping(c, l) == route

\* ping_all, every 5 s.
ping(c, l) ==
    /\ l \in Routes(c)
    /\ air' = Sent(c, l, "Ping", air)
    /\ route' = after_ping(c, l)
    /\ UNCHANGED <<proc, backoff, punching, turn>>

\* add_route_if_absent: a Ping keeps no route alive.
Ping(c) ==
    /\ Arrives(c, "Ping")
    /\ route' = IF Routes(c) = {} THEN Fresh(c, air[c].life) ELSE route
    /\ air' = Sent(c, air[c].life, "Answer", OffAir(c))
    /\ UNCHANGED <<proc, backoff, punching, turn>>

\* PunchRes and Pong, which do the same to a direct route.
Answer(c) ==
    /\ Arrives(c, "Answer")
    /\ Heard(c, air[c].life)
    /\ air' = OffAir(c)
    /\ UNCHANGED <<proc, backoff, punching, turn>>

AirLost ==
    /\ \E c \in Clients : air[c] # None /\ air' = OffAir(c)
    /\ UNCHANGED <<proc, backoff, punching, turn, route>>

\* 10 s without a heartbeat make a route stale, and route_timeout_task takes it.
Age(c, l) ==
    /\ route[c][l] # "none"
    /\ route' = [route EXCEPT ![c][l] = IF @ = "fresh" THEN "stale" ELSE "none"]
    /\ UNCHANGED <<proc, backoff, punching, turn, air>>

-----------------------------------------------------------------------------
Program(c) == Start(c) \/ Stop(c) \/ NatKnown(c)
Agree(c) == PunchTask(c) \/ PunchStart1(c) \/ PunchStart2(c) \/ TimePasses(c)
Receive(c) == PunchReq(c) \/ Ping(c) \/ Answer(c)
RouteStep(c, l) == punch_now(c, l) \/ ping(c, l) \/ Age(c, l)

PunchNext ==
    \/ TurnLost \/ AirLost
    \/ \E c \in Clients :
          \/ Program(c) \/ Agree(c) \/ Receive(c)
          \/ \E l \in LivesOf(Peer(c)) : RouteStep(c, l)

\* Tasks run and time passes.  The server and the network may lose messages,
\* but of those sent again and again some get through.
Fairness ==
    /\ WF_punchVars(PunchTask(Small))
    /\ WF_punchVars(TimePasses(Small))
    /\ SF_punchVars(PunchStart1(Large))
    /\ SF_punchVars(PunchStart2(Small))
    /\ \A c \in Clients :
          /\ WF_punchVars(\E l \in LivesOf(Peer(c)) : punch_now(c, l))
          /\ SF_punchVars(PunchReq(c))
          /\ \A l \in LivesOf(Peer(c)) : WF_punchVars(Age(c, l))

PunchSpec == PunchInit /\ [][PunchNext]_punchVars /\ Fairness

-----------------------------------------------------------------------------
(* Properties.                                                             *)

\* The limit a client that is asked puts on punching ("限制打洞频率") never
\* applies: only answers are counted, by the one that asked.
OnlyAskingIsHeldBack == should_punch(Large)

Ready(c) == up[c] /\ info[c]

\* Two clients that stay online, connected and aware of each other find a
\* route whenever they have none, from both sides, in spite of lost messages,
\* of the growing backoff, which nothing resets, and of routes to a former
\* life of the other.
PeersAreReached ==
    <>[](Ready(Small) /\ Ready(Large))
        => \A c \in Clients : []<>(life[Peer(c)] \in Routes(c))

\* A route that only one side has does not last: its heartbeats give the other
\* one too or, where they do not arrive or nobody is there, it expires, so
\* that the clients punch again and frames go by the server meanwhile.
LonelyRouteEnds ==
    \A c \in Clients :
        (Routes(c) # {} /\ Routes(Peer(c)) = {})
            ~> (Routes(c) = {} \/ Routes(Peer(c)) # {})
=============================================================================
