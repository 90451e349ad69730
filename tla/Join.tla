-------------------------------- MODULE Join --------------------------------
(***************************************************************************)
(* A client joins its servers and stays with them: the coordinated         *)
(* registration with several servers at once, the connection to each of    *)
(* them, its loss and the registration that follows, and what the servers  *)
(* keep for the client meanwhile.                                          *)
(*                                                                         *)
(* Everything on a connection goes one after the other: answers and the    *)
(* frames of other clients share a queue.  A queue and its transport hold  *)
(* one message here.  Both ends read and write a connection in one task    *)
(* (data_handle_loop, stream_handle), so an end that has a message in hand *)
(* that does not fit into the connection does not read.                    *)
(*                                                                         *)
(* Of a lease only what this client gets is followed: which address is     *)
(* free for it at a server is up to the other clients (NetworkState).  The *)
(* sweep of expired leases and the deletion of a device look whether it is *)
(* offline, and remove it in a later step, whoever has registered since.   *)
(***************************************************************************)
EXTENDS Naturals, FiniteSets

CONSTANTS
    Servers,
    First,      \* the first server of the configuration
    Sweeping,   \* bound: the servers that sweep, or delete devices
    Ips,
    Fixed,      \* the configured address, or None
    None

ASSUME JoinAssumption ==
    /\ IsFiniteSet(Servers) /\ First \in Servers /\ Sweeping \subseteq Servers
    /\ Fixed \in Ips \cup {None}
    /\ None \notin Ips \cup {"Reg", "Error", "Confirm", "Data"}

VARIABLES
    phase,      \* what register, and then the task group, is at
    link,       \* server -> what its ServerTurnManager is at
    answer,     \* server -> the address of its answer while joining
    network,    \* the address of the client, AppState.network
    open,       \* server -> whether the connection works
    up, down,   \* server -> the message under way to, and from, the server
    hand,       \* server -> the message the client is sending
    out,        \* server -> the message the server is sending
    session,    \* server -> the Session of the connection
    old,        \* server -> the Session of a connection the client has left
    session_ip, \* server -> the ip of the Session, which its answer repeats
    lease,      \* server -> the address it has for the client
    chosen,     \* server -> whether a sweep or deletion is to remove the client
    taken,      \* history: server -> it removed the client of this session
    diverged    \* history: servers gave different addresses when joining

client == <<phase, link, answer, network, diverged>>
sessions == <<session, old, session_ip>>
leases == <<lease, chosen, taken>>
server == <<sessions, leases>>
wire == <<open, up, down, hand, out>>
vars == <<client, wire, server>>

Messages == {"Reg", "Error", "Confirm", "Data", None}

\* Registered, and not yet dropped.
Holds(s) == session[s] \in {"listed", "pending", "confirmed"}

TypeOK ==
    /\ phase \in {"first", "others", "confirm", "joined", "failed", "stopped"}
    /\ link \in [Servers -> {"off", "asked", "registered", "confirming",
                             "confirmed", "failed", "up", "down", "again"}]
    /\ {network} \cup {answer[s] : s \in Servers} \subseteq Ips \cup {None}
    /\ open \in [Servers -> BOOLEAN]
    /\ {up, down, hand, out} \subseteq [Servers -> Messages]
    /\ session \in [Servers -> {"none", "new", "listed", "pending", "confirmed"}]
    /\ old \in [Servers -> {"none", "pending", "confirmed"}]
    /\ {session_ip, lease} \subseteq [Servers -> Ips \cup {None}]
    /\ {chosen, taken} \subseteq [Servers -> BOOLEAN]
    /\ diverged \in BOOLEAN
    /\ (network # None) = (phase = "joined")
    /\ \A s \in Servers :
          /\ Holds(s) => lease[s] = IF taken[s] THEN None ELSE session_ip[s]
          /\ link[s] \in {"off", "failed"} => hand[s] = None

Init ==
    /\ phase = "first"
    /\ link = [s \in Servers |-> "off"]
    /\ answer = [s \in Servers |-> None]
    /\ network = None
    /\ open = [s \in Servers |-> FALSE]
    /\ up = [s \in Servers |-> None]
    /\ down = [s \in Servers |-> None]
    /\ hand = [s \in Servers |-> None]
    /\ out = [s \in Servers |-> None]
    /\ session = [s \in Servers |-> "none"]
    /\ old = [s \in Servers |-> "none"]
    /\ session_ip = [s \in Servers |-> None]
    /\ lease = [s \in Servers |-> None]
    /\ chosen = [s \in Servers |-> FALSE]
    /\ taken = [s \in Servers |-> FALSE]
    /\ diverged = FALSE

Multi == Cardinality(Servers) > 1
Normal(s) == phase \in {"joined", "stopped"} \/ ~Multi

Link(s, at) == link' = [link EXCEPT ![s] = at]

\* ip and ip_variable of the RegRequestMsg.
WantedIp(s) == IF s = First THEN Fixed
               ELSE IF phase = "joined" THEN network ELSE answer[First]
IpVariable == Fixed = None

-----------------------------------------------------------------------------
(* Connections.                                                            *)

Fate(s) == IF session[s] = "listed"
           THEN IF Normal(s) THEN "confirmed" ELSE "pending"
           ELSE session[s]

\* The client drops the connections of S.  The server goes on with the session
\* until it misses the client, and may still read a confirmation.
Leave(S) ==
    /\ open' = [s \in Servers |-> open[s] /\ s \notin S]
    /\ up' = [s \in Servers |-> IF s \in S THEN None ELSE up[s]]
    /\ down' = [s \in Servers |-> IF s \in S THEN None ELSE down[s]]
    /\ hand' = [s \in Servers |-> IF s \in S THEN None ELSE hand[s]]
    /\ out' = [s \in Servers |-> IF s \in S THEN None ELSE out[s]]
    /\ session' = [s \in Servers |-> IF s \in S THEN "none" ELSE session[s]]
    /\ \E read \in SUBSET {s \in S : up[s] = "Confirm" /\ open[s]} :
          old' = [s \in Servers |-> IF s \notin S \/ ~Holds(s) THEN old[s]
                                    ELSE IF s \in read THEN "confirmed"
                                    ELSE Fate(s)]
    /\ session_ip' = [s \in Servers |-> IF s \in S THEN None ELSE session_ip[s]]
    /\ taken' = [s \in Servers |-> taken[s] /\ s \notin S]
    /\ UNCHANGED <<lease, chosen>>

\* connect_timeout and the request that follows.
Connect(s) ==
    /\ open' = [open EXCEPT ![s] = TRUE]
    /\ up' = [up EXCEPT ![s] = "Reg"]
    /\ session' = [session EXCEPT ![s] = "new"]
    /\ UNCHANGED <<down, hand, out, old, session_ip, leases>>

\* The connection stops working; either end finds out by itself.
Break(s) ==
    /\ open[s]
    /\ open' = [open EXCEPT ![s] = FALSE]
    /\ up' = [up EXCEPT ![s] = None]
    /\ down' = [down EXCEPT ![s] = None]
    /\ UNCHANGED <<client, server, hand, out>>

-----------------------------------------------------------------------------
(* Registration, register and coordinated_registration.                    *)

\* The first server alone, then the others at the same time.
MayRegister(s) ==
    /\ link[s] = "off"
    /\ \/ phase = "first" /\ s = First
       \/ phase = "others" /\ s # First

StartRegistration(s) ==
    /\ MayRegister(s)
    /\ Connect(s)
    /\ Link(s, "asked")
    /\ UNCHANGED <<phase, answer, network, diverged>>

CannotConnect(s) ==
    /\ MayRegister(s)
    /\ Link(s, "failed")
    /\ UNCHANGED <<phase, answer, network, diverged, wire, server>>

\* The next message is the answer, whatever it is.
Take(s) == /\ down[s] # None
           /\ down' = [down EXCEPT ![s] = None]
           /\ UNCHANGED <<open, up, hand, out>>

Registered(s) ==
    /\ link[s] = "asked"
    /\ Take(s)
    /\ IF down[s] = "Reg"
       THEN Link(s, "registered") /\ answer' = [answer EXCEPT ![s] = session_ip[s]]
       ELSE Link(s, "failed") /\ UNCHANGED answer
    /\ UNCHANGED <<phase, network, diverged, server>>

SendConfirm(s) ==
    /\ phase = "confirm"
    /\ link[s] = "registered"
    /\ Link(s, "confirming")
    /\ up' = [up EXCEPT ![s] = IF open[s] THEN "Confirm" ELSE None]
    /\ UNCHANGED <<phase, answer, network, diverged, open, down, hand, out, server>>

Confirmed(s) ==
    /\ link[s] = "confirming"
    /\ Take(s)
    /\ Link(s, IF down[s] = "Confirm" THEN "confirmed" ELSE "failed")
    /\ UNCHANGED <<phase, answer, network, diverged, server>>

\* Mutant: next instead of next_timeout.
GivesUp(s) == down[s] # None /\ down[s] # "Reg"

\* 10 s for an answer, or the connection is closed.
Impatient(s) == TRUE

NoAnswer(s) ==
    /\ link[s] \in {"asked", "confirming"}
    /\ Impatient(s)
    /\ Link(s, "failed")
    /\ UNCHANGED <<phase, answer, network, diverged, wire, server>>

All(S, at) == \A s \in S : link[s] = at
Done(S, at) == \A s \in S : link[s] \in {at, "failed"}

FirstRegistered ==
    /\ phase = "first"
    /\ link[First] = "registered"
    /\ Multi
    /\ phase' = "others"
    /\ UNCHANGED <<link, answer, network, diverged, wire, server>>

\* The addresses the others answered are not looked at.
OthersRegistered ==
    /\ phase = "others"
    /\ All(Servers \ {First}, "registered")
    /\ phase' = "confirm"
    /\ UNCHANGED <<link, answer, network, diverged, wire, server>>

\* The data tasks start, one for each server.
Joined ==
    /\ \/ phase = "confirm" /\ All(Servers, "confirmed")
       \/ phase = "first" /\ ~Multi /\ link[First] = "registered"
    /\ phase' = "joined"
    /\ link' = [s \in Servers |-> "up"]
    /\ network' = answer[First]
    /\ diverged' = \E s \in Servers : answer[s] # answer[First]
    /\ answer' = [s \in Servers |-> None]
    /\ UNCHANGED <<wire, server>>

\* One server failed, and the answers of the others that were asked with it
\* are there: the managers are dropped.
JoinFails ==
    /\ \E s \in Servers : link[s] = "failed"
    /\ \/ phase = "first"
       \/ phase = "others" /\ Done(Servers \ {First}, "registered")
       \/ phase = "confirm" /\ Done(Servers, "confirmed")
    /\ phase' = "failed"
    /\ link' = [s \in Servers |-> "off"]
    /\ answer' = [s \in Servers |-> None]
    /\ Leave(Servers)
    /\ UNCHANGED <<network, diverged>>

\* The user stops the program, or it crashes.
Quit ==
    /\ phase \notin {"failed", "stopped"}
    /\ phase' = "failed"
    /\ link' = [s \in Servers |-> "off"]
    /\ answer' = [s \in Servers |-> None]
    /\ network' = None
    /\ diverged' = FALSE
    /\ Leave(Servers)

\* The program is started again.
Restart ==
    /\ phase \in {"failed", "stopped"}
    /\ All(Servers, "off")
    /\ phase' = "first"
    /\ UNCHANGED <<link, answer, network, diverged, wire, server>>

-----------------------------------------------------------------------------
(* The data task of a server, data_handle_task_connected.                  *)

ClientSends(s) ==
    /\ link[s] = "up"
    /\ hand[s] = None
    /\ hand' = [hand EXCEPT ![s] = "Data"]
    /\ UNCHANGED <<client, server, open, up, down, out>>

ClientWrites(s) ==
    /\ link[s] = "up"
    /\ hand[s] # None
    /\ open[s]
    /\ up[s] = None
    /\ up' = [up EXCEPT ![s] = hand[s]]
    /\ hand' = [hand EXCEPT ![s] = None]
    /\ UNCHANGED <<client, server, open, down, out>>

ClientReads(s) ==
    /\ link[s] = "up"
    /\ hand[s] = None
    /\ Take(s)
    /\ UNCHANGED <<client, server>>

\* Each end has a message that does not fit and reads no more.
Jammed(s) ==
    /\ open[s]
    /\ hand[s] # None /\ up[s] # None
    /\ out[s] # None /\ down[s] # None

\* Nothing comes any more from the server.
Lost(s) == ~open[s] \/ session[s] = "none"

\* Mutant: the loop does not look at the time of the last message.
LeavesOnError(s) == ~open[s] /\ hand[s] # None

\* A read or write fails, or at the ping every 5 s nothing was read for 20 s.
\* The ping is not looked at while a message is being sent.
LeavesLoop(s) == Lost(s) /\ (hand[s] # None => ~open[s])

LoopEnds(s) ==
    /\ link[s] = "up"
    /\ LeavesLoop(s)
    /\ Link(s, "down")
    /\ Leave({s})
    /\ UNCHANGED <<phase, answer, network, diverged>>

\* The connection is tried again every 5 s.
Reconnect(s) ==
    /\ link[s] = "down"
    /\ Connect(s)
    /\ Link(s, "again")
    /\ UNCHANGED <<phase, answer, network, diverged>>

\* Mutant: the answer is not compared with the address of the client.
AnyNetwork(s) == TRUE

SameNetwork(s) == session_ip[s] = network

Rejoined(s) ==
    /\ link[s] = "again"
    /\ down[s] = "Reg"
    /\ SameNetwork(s)
    /\ Take(s)
    /\ Link(s, "up")
    /\ UNCHANGED <<phase, answer, network, diverged, server>>

\* Another address, or an error: the loop is left and the group stopped, which
\* ends the tasks of all servers.
Refused(s) ==
    /\ link[s] = "again"
    /\ \/ down[s] = "Reg" /\ ~SameNetwork(s)
       \/ down[s] = "Error"
    /\ phase' = "stopped"
    /\ network' = None
    /\ diverged' = FALSE
    /\ Link(s, "off")
    /\ Leave({s})
    /\ UNCHANGED answer

\* No answer in time, or a frame of another client came before it.
TryAgain(s) ==
    /\ link[s] = "again"
    /\ Link(s, "down")
    /\ Leave({s})
    /\ UNCHANGED <<phase, answer, network, diverged>>

Aborted(s) ==
    /\ phase = "stopped"
    /\ link[s] # "off"
    /\ Link(s, "off")
    /\ Leave({s})
    /\ UNCHANGED <<phase, answer, network, diverged>>

-----------------------------------------------------------------------------
(* The servers.                                                            *)

\* Addresses register can give, see allocate_ip in NetworkState.
Leases(s) ==
    LET wanted == WantedIp(s) IN
    IF lease[s] # None /\ wanted \in {None, lease[s]} THEN {lease[s]}
    ELSE IF wanted = None THEN Ips
    ELSE IF IpVariable THEN Ips ELSE {wanted}

\* Mutant: the Drop of a left session does not compare connection ids.
OldStays(s) == old

\* A session of an earlier connection has no say any more.
Superseded(s) == [old EXCEPT ![s] = "none"]

\* From here on the sender of the connection is in sender_map.
Register(s) ==
    /\ session[s] = "new"
    /\ open[s]
    /\ up[s] = "Reg"
    /\ up' = [up EXCEPT ![s] = None]
    /\ \E ip \in Leases(s) :
          /\ lease' = [lease EXCEPT ![s] = ip]
          /\ session_ip' = [session_ip EXCEPT ![s] = ip]
    /\ session' = [session EXCEPT ![s] = "listed"]
    /\ old' = Superseded(s)
    /\ UNCHANGED <<client, open, down, hand, out, chosen, taken>>

Refuse(s) ==
    /\ session[s] = "new"
    /\ open[s]
    /\ up[s] = "Reg"
    /\ up' = [up EXCEPT ![s] = None]
    /\ out' = [out EXCEPT ![s] = "Error"]
    /\ session' = [session EXCEPT ![s] = "none"]
    /\ UNCHANGED <<client, open, down, hand, old, session_ip, leases>>

\* The answer repeats the address of the session, whatever became of the lease.
AnswerReg(s) ==
    /\ session[s] = "listed"
    /\ out[s] = None
    /\ out' = [out EXCEPT ![s] = "Reg"]
    /\ session' = [session EXCEPT ![s] = Fate(s)]
    /\ UNCHANGED <<client, open, up, down, hand, old, session_ip, leases>>

\* A frame of another client, see Relay.
Forward(s) ==
    /\ Holds(s)
    /\ open[s]
    /\ out[s] = None
    /\ out' = [out EXCEPT ![s] = "Data"]
    /\ UNCHANGED <<client, open, up, down, hand, server>>

ServerWrites(s) ==
    /\ open[s]
    /\ out[s] # None
    /\ down[s] = None
    /\ down' = [down EXCEPT ![s] = out[s]]
    /\ out' = [out EXCEPT ![s] = None]
    /\ UNCHANGED <<client, server, open, up, hand>>

ServerReads(s) ==
    /\ open[s]
    /\ Holds(s)
    /\ out[s] = None
    /\ up[s] # None
    /\ up' = [up EXCEPT ![s] = None]
    /\ IF session[s] = "pending" /\ up[s] = "Confirm"
       THEN \* Error 500 when the database failed
            \/ /\ session' = [session EXCEPT ![s] = "confirmed"]
               /\ out' = [out EXCEPT ![s] = "Confirm"]
            \/ /\ out' = [out EXCEPT ![s] = "Error"]
               /\ UNCHANGED session
       ELSE UNCHANGED <<session, out>>
    /\ UNCHANGED <<client, open, down, hand, old, session_ip, leases>>

\* 20 s without a message: the connection does not work, this end does not
\* read, or the client is still busy with the other servers.
Missed(s) == ~open[s] \/ Jammed(s) \/ link[s] = "registered"

\* The session ends: a pending one gives the address back.  Its tasks close
\* the connection unless one of them is stuck in sending.
SessionEnds(s) ==
    /\ session[s] \in {"pending", "confirmed"}
    /\ Missed(s)
    /\ session' = [session EXCEPT ![s] = "none"]
    /\ lease' = [lease EXCEPT ![s] = IF session[s] = "pending" THEN None ELSE @]
    /\ session_ip' = [session_ip EXCEPT ![s] = None]
    /\ taken' = [taken EXCEPT ![s] = FALSE]
    /\ open' = [open EXCEPT ![s] = Jammed(s)]
    /\ UNCHANGED <<client, up, down, hand, out, old, chosen>>

OldEnds(s) ==
    /\ old[s] # "none"
    /\ old' = [old EXCEPT ![s] = "none"]
    /\ lease' = [lease EXCEPT ![s] = IF old[s] = "pending" THEN None ELSE @]
    /\ UNCHANGED <<client, wire, session, session_ip, chosen, taken>>

\* The entry of the client says connected.
Online(s) == lease[s] # None /\ (Holds(s) \/ old[s] # "none")

\* The sweep collects the client, its lease having run out, or delete_device
\* finds it offline ...
FoundOffline(s) ==
    /\ s \in Sweeping
    /\ ~chosen[s]
    /\ ~Online(s)
    /\ chosen' = [chosen EXCEPT ![s] = TRUE]
    /\ UNCHANGED <<client, wire, sessions, lease, taken>>

\* ... and then removes what it has for the client.  A session goes on without
\* it; after the sweep its sender stays, so frames still arrive.
Removed(s) ==
    /\ chosen[s]
    /\ chosen' = [chosen EXCEPT ![s] = FALSE]
    /\ lease' = [lease EXCEPT ![s] = None]
    /\ taken' = [taken EXCEPT ![s] = @ \/ Holds(s)]
    /\ UNCHANGED <<client, wire, sessions>>

-----------------------------------------------------------------------------
Join(s) == StartRegistration(s) \/ CannotConnect(s) \/ Registered(s)
           \/ SendConfirm(s) \/ Confirmed(s) \/ NoAnswer(s)
Together == FirstRegistered \/ OthersRegistered \/ Joined \/ JoinFails
Data(s) == ClientSends(s) \/ ClientWrites(s) \/ ClientReads(s)
Again(s) == LoopEnds(s) \/ Reconnect(s) \/ Rejoined(s) \/ Refused(s)
            \/ TryAgain(s) \/ Aborted(s)
Serve(s) == Register(s) \/ Refuse(s) \/ AnswerReg(s) \/ Forward(s)
            \/ ServerWrites(s) \/ ServerReads(s) \/ SessionEnds(s)
            \/ OldEnds(s) \/ FoundOffline(s) \/ Removed(s)

Next ==
    \/ Together \/ Quit \/ Restart
    \/ \E s \in Servers : Join(s) \/ Data(s) \/ Again(s) \/ Serve(s) \/ Break(s)

\* Connecting and waiting for an answer have timeouts, and so does the silence
\* of a connection: the tasks of a program that runs are scheduled.  Nothing
\* makes a connection work, a server answer or anybody send.
Fairness ==
    /\ WF_vars(Together)
    /\ \A s \in Servers :
          /\ WF_vars(Join(s))
          /\ WF_vars(LoopEnds(s) \/ TryAgain(s) \/ Aborted(s))

Spec == Init /\ [][Next]_vars /\ Fairness

-----------------------------------------------------------------------------
(* Properties.                                                             *)

\* A server that serves the client as connected knows it by the address the
\* client uses and has it leased to it, through every loss of the connection
\* and of the lease.  Two exceptions: what was given at the coordinated
\* registration is never compared (the loop over other_results looks at the
\* kind of the answer), and a sweep or deletion that found the client offline
\* removes it although it has registered meanwhile.  No other step does.
ServedAsItself ==
    \A s \in Servers :
        phase = "joined" /\ link[s] = "up" /\ session[s] # "none" /\ ~diverged
            => /\ session[s] = "confirmed"
               /\ session_ip[s] = network
               /\ lease[s] = network \/ taken[s]

\* A registration with all servers comes to an end whatever servers and
\* connections do, with the program running or ended.
JoinEnds ==
    (phase \in {"first", "others", "confirm"})
        ~> (phase \in {"joined", "failed", "stopped"})

\* A connection on which nothing comes any more is left, so that it is made
\* again.  Except when both ends were sending into a full connection: then
\* neither reads, the server gives the session up, and the client stays.
LostLinkIsLeft ==
    \A s \in Servers :
        (link[s] = "up" /\ Lost(s)) ~> (link[s] # "up" \/ Jammed(s))
=============================================================================
