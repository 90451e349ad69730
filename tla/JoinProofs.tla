----------------------------- MODULE JoinProofs -----------------------------
(***************************************************************************)
(* Proofs about Join for any servers and addresses: a server that serves   *)
(* the client as connected knows it by the address the client uses, and    *)
(* only a late removal takes the lease of it.                              *)
(*                                                                         *)
(* An answer stands for a session: as long as the connection works on      *)
(* which it arrives, the server holds a session for the client, whose      *)
(* address the answer repeats (LinkOK).  The lease of that address stays   *)
(* with the session unless a sweep or deletion takes it, since no session  *)
(* of an earlier connection is left that would give it back (SessionOK).   *)
(* A session is confirmed once the client is joined, since the client      *)
(* waits for every confirmation (PhaseOK).                                 *)
(***************************************************************************)
EXTENDS Join, FiniteSetTheorems, TLAPS

Joining == phase \in {"first", "others", "confirm"}

\* The types, with answer as a function.
Types ==
    /\ phase \in {"first", "others", "confirm", "joined", "failed", "stopped"}
    /\ link \in [Servers -> {"off", "asked", "registered", "confirming",
                             "confirmed", "failed", "up", "down", "again"}]
    /\ answer \in [Servers -> Ips \cup {None}] /\ network \in Ips \cup {None}
    /\ open \in [Servers -> BOOLEAN]
    /\ up \in [Servers -> Messages] /\ down \in [Servers -> Messages]
    /\ hand \in [Servers -> Messages] /\ out \in [Servers -> Messages]
    /\ session \in [Servers -> {"none", "new", "listed", "pending", "confirmed"}]
    /\ old \in [Servers -> {"none", "pending", "confirmed"}]
    /\ session_ip \in [Servers -> Ips \cup {None}]
    /\ lease \in [Servers -> Ips \cup {None}]
    /\ chosen \in [Servers -> BOOLEAN] /\ taken \in [Servers -> BOOLEAN]
    /\ diverged \in BOOLEAN
    /\ (network # None) = (phase = "joined")

\* What the client may conclude from what its connection is at.
LinkOK(s) ==
    /\ link[s] \in {"off", "down"} =>
          session[s] = "none" /\ ~open[s] /\ down[s] = None /\ out[s] = None
    /\ link[s] # "up" => hand[s] = None
    /\ link[s] \in {"asked", "again"} =>
          /\ down[s] # None => open[s]
          /\ open[s] /\ (out[s] = "Reg" \/ down[s] = "Reg")
                => session[s] \in {"pending", "confirmed"}
    /\ link[s] \in {"registered", "confirming", "confirmed"} =>
          /\ answer[s] # None /\ session[s] \in {"none", "pending", "confirmed"}
          /\ session[s] # "none" => session_ip[s] = answer[s]
    /\ link[s] \in {"confirmed", "up"} => session[s] \in {"none", "confirmed"}

\* A session has its lease for itself unless that was taken, and is confirmed
\* before it is said so.
SessionOK(s) ==
    /\ Holds(s) => /\ session_ip[s] # None /\ old[s] = "none"
                   /\ lease[s] = IF taken[s] THEN None ELSE session_ip[s]
    /\ taken[s] => Holds(s)
    /\ session[s] = "pending" => Multi /\ Joining
    /\ out[s] = "Confirm" \/ down[s] = "Confirm" => session[s] \in {"none", "confirmed"}

\* The links follow the phase of the client.
PhaseOK(s) ==
    /\ Joining => link[s] \notin {"up", "down", "again"}
    /\ phase \in {"joined", "stopped"} => link[s] \in {"up", "down", "again", "off"}
    /\ phase = "failed" => link[s] = "off"
    /\ phase = "joined" /\ link[s] = "up" /\ session[s] # "none" /\ ~diverged
          => session_ip[s] = network

ServerOK(s) == LinkOK(s) /\ SessionOK(s) /\ PhaseOK(s)

\* The inductive invariant.
JoinIInv == Types /\ \A s \in Servers : ServerOK(s)

-----------------------------------------------------------------------------
(* What the helpers of the model do.                                       *)

\* Nothing of server t changes.
Same(t) ==
    /\ link'[t] = link[t] /\ answer'[t] = answer[t] /\ open'[t] = open[t]
    /\ down'[t] = down[t] /\ hand'[t] = hand[t] /\ out'[t] = out[t]
    /\ session'[t] = session[t] /\ old'[t] = old[t] /\ lease'[t] = lease[t]
    /\ session_ip'[t] = session_ip[t] /\ taken'[t] = taken[t]

\* A step at one server leaves the others as they are.
LEMMA OneServer ==
    ASSUME JoinIInv, NEW s \in Servers, UNCHANGED <<phase, network, diverged>>,
           \A t \in Servers \ {s} : Same(t),
           Types', ServerOK(s)'
    PROVE  JoinIInv'
<1>1. ASSUME NEW t \in Servers, t # s PROVE ServerOK(t)'
    <2>1. ServerOK(t) /\ Same(t)
        BY <1>1 DEF JoinIInv
    <2> QED BY <2>1 DEF Same, ServerOK, LinkOK, SessionOK, PhaseOK, Holds, Joining
<1> QED BY <1>1 DEF JoinIInv

\* Types of what a connection and its server keep.
WireTypes ==
    /\ open \in [Servers -> BOOLEAN]
    /\ up \in [Servers -> Messages] /\ down \in [Servers -> Messages]
    /\ hand \in [Servers -> Messages] /\ out \in [Servers -> Messages]
    /\ session \in [Servers -> {"none", "new", "listed", "pending", "confirmed"}]
    /\ old \in [Servers -> {"none", "pending", "confirmed"}]
    /\ session_ip \in [Servers -> Ips \cup {None}]
    /\ lease \in [Servers -> Ips \cup {None}]
    /\ chosen \in [Servers -> BOOLEAN] /\ taken \in [Servers -> BOOLEAN]

\* Leave takes everything of these connections.
LEMMA LeaveLeaves ==
    ASSUME JoinIInv, NEW S \in SUBSET Servers, Leave(S)
    PROVE  /\ WireTypes'
           /\ \A s \in S : /\ ~open'[s] /\ down'[s] = None /\ hand'[s] = None
                           /\ out'[s] = None /\ session'[s] = "none" /\ ~taken'[s]
           /\ \A t \in Servers \ S :
                 /\ open'[t] = open[t] /\ down'[t] = down[t] /\ hand'[t] = hand[t]
                 /\ out'[t] = out[t] /\ session'[t] = session[t]
                 /\ old'[t] = old[t] /\ lease'[t] = lease[t]
                 /\ session_ip'[t] = session_ip[t] /\ taken'[t] = taken[t]
<1>0. Types
    BY DEF JoinIInv
<1>1. ASSUME NEW s \in Servers, Holds(s) PROVE Fate(s) \in {"pending", "confirmed"}
    BY <1>1 DEF Holds, Fate
<1>2. PICK read \in SUBSET {s \in S : up[s] = "Confirm" /\ open[s]} :
          old' = [s \in Servers |-> IF s \notin S \/ ~Holds(s) THEN old[s]
                                    ELSE IF s \in read THEN "confirmed"
                                    ELSE Fate(s)]
    BY DEF Leave
<1>3. old' \in [Servers -> {"none", "pending", "confirmed"}]
    BY <1>0, <1>1, <1>2 DEF Types
<1>4. /\ open' \in [Servers -> BOOLEAN]
      /\ up' \in [Servers -> Messages] /\ down' \in [Servers -> Messages]
      /\ hand' \in [Servers -> Messages] /\ out' \in [Servers -> Messages]
      /\ session' \in [Servers -> {"none", "new", "listed", "pending", "confirmed"}]
      /\ session_ip' \in [Servers -> Ips \cup {None}]
      /\ lease' \in [Servers -> Ips \cup {None}]
      /\ chosen' \in [Servers -> BOOLEAN]
    BY <1>0 DEF Leave, Types, Messages
<1>8. taken' \in [Servers -> BOOLEAN]
    BY <1>0 DEF Leave, Types
<1>5. \A t \in Servers \ S : old'[t] = old[t]
    BY <1>2
<1>6. \A s \in S : /\ ~open'[s] /\ down'[s] = None /\ hand'[s] = None
                    /\ out'[s] = None /\ session'[s] = "none" /\ ~taken'[s]
    BY DEF Leave
<1>7. \A t \in Servers \ S :
         /\ open'[t] = open[t] /\ down'[t] = down[t] /\ hand'[t] = hand[t]
         /\ out'[t] = out[t] /\ session'[t] = session[t] /\ lease'[t] = lease[t]
         /\ session_ip'[t] = session_ip[t]
    BY <1>0 DEF Leave, Types
<1>9. \A t \in Servers \ S : taken'[t] = taken[t]
    BY <1>0 DEF Leave, Types
<1> QED BY <1>3, <1>4, <1>5, <1>6, <1>7, <1>8, <1>9 DEF WireTypes

\* A server whose connection has been left is as it should be.
LEMMA LeftIsOK ==
    ASSUME NEW s \in Servers, ~open'[s], down'[s] = None, hand'[s] = None, out'[s] = None,
           session'[s] = "none", ~taken'[s], link'[s] \in {"off", "down"},
           link'[s] = "off" \/ phase' \in {"joined", "stopped"}
    PROVE  ServerOK(s)'
BY JoinAssumption DEF ServerOK, LinkOK, SessionOK, PhaseOK, Holds, Joining

\* The client leaves one server while it is joined or has been stopped.
LEMMA LeaveOne ==
    ASSUME JoinIInv, NEW s \in Servers, Leave({s}), NEW at \in {"off", "down"}, Link(s, at),
           UNCHANGED <<phase, answer, network, diverged>>,
           at = "off" \/ phase \in {"joined", "stopped"}
    PROVE  JoinIInv'
<1>0. Types
    BY DEF JoinIInv
<1>1. /\ WireTypes'
      /\ ~open'[s] /\ down'[s] = None /\ hand'[s] = None
      /\ out'[s] = None /\ session'[s] = "none" /\ ~taken'[s]
      /\ \A t \in Servers \ {s} :
            /\ open'[t] = open[t] /\ down'[t] = down[t] /\ hand'[t] = hand[t]
            /\ out'[t] = out[t] /\ session'[t] = session[t]
            /\ old'[t] = old[t] /\ lease'[t] = lease[t]
            /\ session_ip'[t] = session_ip[t] /\ taken'[t] = taken[t]
    BY LeaveLeaves
<1>2. Types'
    BY <1>0, <1>1 DEF Types, WireTypes, Link
<1>3. ServerOK(s)'
    BY <1>0, <1>1, LeftIsOK DEF Link, Types
<1>4. \A t \in Servers \ {s} : Same(t)
    BY <1>0, <1>1 DEF Same, Link, Types
<1> QED BY <1>2, <1>3, <1>4, OneServer

\* The client leaves all servers at once.
LEMMA LeaveAll ==
    ASSUME JoinIInv, Leave(Servers), link' = [s \in Servers |-> "off"],
           answer' = [s \in Servers |-> None], network' = None, diverged' \in BOOLEAN,
           phase' = "failed"
    PROVE  JoinIInv'
<1>1. /\ WireTypes'
      /\ \A s \in Servers : /\ ~open'[s] /\ down'[s] = None /\ hand'[s] = None
                            /\ out'[s] = None /\ session'[s] = "none" /\ ~taken'[s]
    BY LeaveLeaves
<1>2. Types'
    BY <1>1 DEF Types, WireTypes
<1>3. \A s \in Servers : ServerOK(s)'
    BY <1>1, LeftIsOK
<1> QED BY <1>2, <1>3 DEF JoinIInv

\* A new connection, in a phase and for a link that may have one.
LEMMA ConnectKeeps ==
    ASSUME JoinIInv, NEW s \in Servers, Connect(s), NEW at \in {"asked", "again"},
           Link(s, at), UNCHANGED <<phase, answer, network, diverged>>,
           link[s] \in {"off", "down"}, at = "asked" => Joining,
           at = "again" => phase \in {"joined", "stopped"}
    PROVE  JoinIInv'
<1>0. Types /\ ServerOK(s)
    BY DEF JoinIInv
<1>1. Types'
    BY <1>0 DEF Types, Connect, leases, Link, Messages
<1>2. /\ link'[s] = at /\ open'[s] /\ session'[s] = "new"
      /\ down'[s] = None /\ out'[s] = None /\ hand'[s] = None /\ ~taken'[s]
    BY <1>0 DEF Types, Connect, leases, Link, ServerOK, LinkOK, SessionOK, Holds
<1>3. ServerOK(s)'
    BY <1>0, <1>2, JoinAssumption DEF ServerOK, LinkOK, SessionOK, PhaseOK, Holds, Joining
<1>4. \A t \in Servers \ {s} : Same(t)
    BY <1>0 DEF Same, Connect, leases, Link, Types
<1> QED BY <1>1, <1>3, <1>4, OneServer

-----------------------------------------------------------------------------
(* The steps of the client at one server.                                  *)

\* Registering with one server, sessions, leases, whatever the others do meanwhile.
LEMMA JoinStep ==
    ASSUME JoinIInv, NEW s \in Servers, Join(s)
    PROVE  JoinIInv'
<1>0. Types /\ ServerOK(s)
    BY DEF JoinIInv
<1>1. CASE StartRegistration(s)
    BY <1>1, ConnectKeeps DEF StartRegistration, MayRegister, Joining
<1>2. CASE CannotConnect(s)
    <2>1. Types' /\ (\A t \in Servers \ {s} : Same(t))
        BY <1>0, <1>2 DEF CannotConnect, Types, Link, Same, wire, server, sessions, leases
    <2>2. ServerOK(s)'
        <3>1. /\ link'[s] = "failed" /\ phase \in {"first", "others"} /\ link[s] = "off"
              /\ UNCHANGED <<phase, network, diverged, open, down, hand, out, session, old,
                             session_ip, lease, chosen, taken>>
            BY <1>0, <1>2 DEF CannotConnect, MayRegister, Types, Link, wire, server,
               sessions, leases
        <3> QED BY <1>0, <3>1, JoinAssumption DEF ServerOK, LinkOK, SessionOK, PhaseOK,
                Holds, Joining
    <2> QED BY <1>2, <2>1, <2>2, OneServer DEF CannotConnect
<1>3. CASE Registered(s)
    <2>1. /\ link[s] = "asked" /\ down[s] # None /\ down'[s] = None
          /\ UNCHANGED <<phase, network, diverged, open, hand, out, session, old,
                         session_ip, lease, chosen, taken>>
          /\ IF down[s] = "Reg" THEN link'[s] = "registered" /\ answer'[s] = session_ip[s]
             ELSE link'[s] = "failed"
        BY <1>0, <1>3 DEF Registered, Types, Link, Take, server, sessions, leases
    <2>2. Types' /\ (\A t \in Servers \ {s} : Same(t))
        BY <1>0, <1>3 DEF Registered, Types, Link, Take, server, sessions, leases, Same,
               Messages
    <2>3. Joining
        BY <1>0, <2>1 DEF ServerOK, PhaseOK, Types, Joining
    <2>4. ServerOK(s)'
        <3>1. CASE down[s] = "Reg"
            <4>1. session[s] \in {"pending", "confirmed"} /\ session_ip[s] # None
                BY <1>0, <2>1, <3>1 DEF ServerOK, LinkOK, SessionOK, Holds
            <4> QED BY <1>0, <2>1, <2>3, <3>1, <4>1, JoinAssumption
                    DEF ServerOK, LinkOK, SessionOK, PhaseOK, Holds, Joining
        <3>2. CASE down[s] # "Reg"
            BY <1>0, <2>1, <2>3, <3>2, JoinAssumption
               DEF ServerOK, LinkOK, SessionOK, PhaseOK, Holds, Joining
        <3> QED BY <3>1, <3>2
    <2> QED BY <2>1, <2>2, <2>4, OneServer
<1>4. CASE SendConfirm(s)
    <2>1. /\ link[s] = "registered" /\ link'[s] = "confirming"
          /\ UNCHANGED <<phase, answer, network, diverged, open, down, hand, out,
                         session, old,
                         session_ip, lease, chosen, taken>>
        BY <1>0, <1>4 DEF SendConfirm, Types, Link, server, sessions, leases
    <2>2. Types' /\ (\A t \in Servers \ {s} : Same(t))
        BY <1>0, <1>4 DEF SendConfirm, Types, Link, server, sessions, leases, Same, Messages
    <2>3. ServerOK(s)'
        BY <1>0, <2>1 DEF ServerOK, LinkOK, SessionOK, PhaseOK, Holds, Joining
    <2> QED BY <2>1, <2>2, <2>3, OneServer
<1>5. CASE Confirmed(s)
    <2>1. /\ link[s] = "confirming" /\ down'[s] = None
          /\ UNCHANGED <<phase, answer, network, diverged, open, hand, out,
                         session, old,
                         session_ip, lease, chosen, taken>>
          /\ link'[s] = IF down[s] = "Confirm" THEN "confirmed" ELSE "failed"
        BY <1>0, <1>5 DEF Confirmed, Types, Link, Take, server, sessions, leases
    <2>2. Types' /\ (\A t \in Servers \ {s} : Same(t))
        BY <1>0, <1>5 DEF Confirmed, Types, Link, Take, server, sessions, leases, Same,
               Messages
    <2>3. Joining
        BY <1>0, <2>1 DEF ServerOK, PhaseOK, Types, Joining
    <2>4. ServerOK(s)'
        BY <1>0, <2>1, <2>3, JoinAssumption
           DEF ServerOK, LinkOK, SessionOK, PhaseOK, Holds, Joining
    <2> QED BY <2>1, <2>2, <2>4, OneServer
<1>6. CASE NoAnswer(s)
    <2>1. /\ link[s] \in {"asked", "confirming"} /\ link'[s] = "failed"
          /\ UNCHANGED <<phase, answer, network, diverged, open, down, hand, out,
                         session, old,
                         session_ip, lease, chosen, taken>>
        BY <1>0, <1>6 DEF NoAnswer, Types, Link, wire, server, sessions, leases
    <2>2. Types' /\ (\A t \in Servers \ {s} : Same(t))
        BY <1>0, <1>6 DEF NoAnswer, Types, Link, wire, server, sessions, leases, Same
    <2>3. Joining
        BY <1>0, <2>1 DEF ServerOK, PhaseOK, Types, Joining
    <2>4. ServerOK(s)'
        BY <1>0, <2>1, <2>3 DEF ServerOK, LinkOK, SessionOK, PhaseOK, Holds, Joining
    <2> QED BY <2>1, <2>2, <2>4, OneServer
<1> QED BY <1>1, <1>2, <1>3, <1>4, <1>5, <1>6 DEF Join

\* Frames of the client and to the client, and the loss of a connection.
LEMMA DataStep ==
    ASSUME JoinIInv, NEW s \in Servers, Data(s) \/ Break(s)
    PROVE  JoinIInv'
<1>0. Types /\ ServerOK(s)
    BY DEF JoinIInv
<1>1. UNCHANGED <<phase, link, answer, network, diverged, session, old,
                  session_ip, lease, chosen, taken>>
    BY DEF Data, ClientSends, ClientWrites, ClientReads, Break, client, server,
       sessions, leases
<1>2. Types' /\ (\A t \in Servers \ {s} : Same(t))
    BY <1>0 DEF Data, ClientSends, ClientWrites, ClientReads, Take, Break, Types, Same,
       Messages, client, server, sessions, leases
<1>3. CASE Data(s)
    <2>1. /\ link[s] = "up" /\ UNCHANGED <<open, out>> /\ down'[s] \in {down[s], None}
        BY <1>0, <1>3 DEF Data, ClientSends, ClientWrites, ClientReads, Take, Types
    <2> QED BY <1>0, <1>1, <1>2, <2>1, OneServer, JoinAssumption
            DEF ServerOK, LinkOK, SessionOK, PhaseOK, Holds, Joining
<1>4. CASE Break(s)
    <2>1. /\ open[s] /\ ~open'[s] /\ down'[s] = None /\ UNCHANGED <<hand, out>>
        BY <1>0, <1>4 DEF Break, Types
    <2>2. ServerOK(s)'
        BY <1>0, <1>1, <2>1, JoinAssumption
           DEF ServerOK, LinkOK, SessionOK, PhaseOK, Holds, Joining
    <2> QED BY <1>1, <1>2, <2>2, OneServer
<1> QED BY <1>3, <1>4

-----------------------------------------------------------------------------
(* The steps of a server.                                                  *)

\* What register can give is an address.
LEMMA LeasesAreIps ==
    ASSUME Types, NEW s \in Servers, NEW ip \in Leases(s)
    PROVE  ip \in Ips
<1>1. WantedIp(s) \in Ips \cup {None}
    BY JoinAssumption DEF WantedIp, Types
<1>2. lease[s] \in Ips \cup {None}
    BY DEF Types
<1> QED BY <1>1, <1>2 DEF Leases

\* A session that does not wait for a confirmation is confirmed at once.
LEMMA FateIsKnown ==
    ASSUME NEW s \in Servers, session[s] = "listed"
    PROVE  /\ Fate(s) \in {"pending", "confirmed"}
           /\ Fate(s) = "pending" => Multi /\ phase \notin {"joined", "stopped"}
BY DEF Fate, Normal

\* Every step of a server keeps what a lease and an answer stand for.
LEMMA ServeStep ==
    ASSUME JoinIInv, NEW s \in Servers, Serve(s)
    PROVE  JoinIInv'
<1>0. Types /\ ServerOK(s)
    BY DEF JoinIInv
<1>a. UNCHANGED <<phase, link, answer, network, diverged, hand>>
    BY DEF Serve, Register, Refuse, AnswerReg, Forward, ServerWrites, ServerReads,
       SessionEnds, OldEnds, FoundOffline, Removed, client, wire
<1>b. SUFFICES Types' /\ (\A t \in Servers \ {s} : Same(t)) /\ ServerOK(s)'
    BY <1>a, OneServer
<1>c. ASSUME session[s] \in {"new", "listed"}
      PROVE  link[s] \in {"asked", "again", "failed"}
    BY <1>0, <1>c DEF ServerOK, LinkOK, Types
<1>d. ASSUME session[s] = "pending" PROVE Joining /\ Multi
    BY <1>0, <1>d DEF ServerOK, SessionOK
<1>1. CASE Register(s)
    <2>1. PICK ip \in Leases(s) : /\ lease' = [lease EXCEPT ![s] = ip]
                                  /\ session_ip' = [session_ip EXCEPT ![s] = ip]
        BY <1>1 DEF Register
    <2>2. ip \in Ips /\ ip # None
        BY <1>0, LeasesAreIps, JoinAssumption
    <2>3. Types' /\ (\A t \in Servers \ {s} : Same(t))
        BY <1>0, <1>1, <1>a, <2>1, <2>2
           DEF Register, Superseded, Types, Same, Messages
    <2>4. /\ session[s] = "new" /\ session'[s] = "listed" /\ open[s]
          /\ UNCHANGED <<open, down, out>> /\ old'[s] = "none"
          /\ lease'[s] = ip /\ session_ip'[s] = ip /\ ~taken'[s]
        BY <1>0, <1>1, <2>1 DEF Register, Superseded, Types, ServerOK, SessionOK, Holds
    <2>5. ServerOK(s)'
        BY <1>0, <1>a, <1>c, <2>2, <2>4, JoinAssumption
           DEF ServerOK, LinkOK, SessionOK, PhaseOK, Holds, Joining
    <2> QED BY <2>3, <2>5
<1>2. CASE Refuse(s)
    <2>1. Types' /\ (\A t \in Servers \ {s} : Same(t))
        BY <1>0, <1>2, <1>a DEF Refuse, leases, Types, Same, Messages
    <2>2. /\ session[s] = "new" /\ session'[s] = "none" /\ out'[s] = "Error" /\ open[s]
          /\ UNCHANGED <<open, down, old, session_ip, lease, taken>>
        BY <1>0, <1>2 DEF Refuse, leases, Types
    <2>3. ServerOK(s)'
        BY <1>0, <1>a, <1>c, <2>2 DEF ServerOK, LinkOK, SessionOK, PhaseOK, Holds, Joining
    <2> QED BY <2>1, <2>3
<1>3. CASE AnswerReg(s)
    <2>0. /\ session[s] = "listed" /\ Fate(s) \in {"pending", "confirmed"}
          /\ Fate(s) = "pending" => Multi /\ phase \notin {"joined", "stopped"}
        BY <1>3, FateIsKnown DEF AnswerReg
    <2>1. Types' /\ (\A t \in Servers \ {s} : Same(t))
        BY <1>0, <1>3, <1>a, <2>0 DEF AnswerReg, leases, Types, Same, Messages
    <2>2. /\ session'[s] = Fate(s) /\ out'[s] = "Reg"
          /\ UNCHANGED <<open, down, old, session_ip, lease, taken>>
        BY <1>0, <1>3 DEF AnswerReg, leases, Types
    <2>3. phase \in {"joined", "stopped"} \/ Joining
        BY <1>0, <1>c, <2>0 DEF ServerOK, PhaseOK, Types, Joining
    <2>4. ServerOK(s)'
        <3>1. LinkOK(s)'
            BY <1>0, <1>a, <1>c, <2>0, <2>2 DEF ServerOK, LinkOK
        <3>2. SessionOK(s)'
            BY <1>0, <1>a, <2>0, <2>2, <2>3 DEF ServerOK, SessionOK, Holds, Joining
        <3>3. PhaseOK(s)'
            BY <1>0, <1>a, <1>c, <2>0 DEF ServerOK, PhaseOK, Joining
        <3> QED BY <3>1, <3>2, <3>3 DEF ServerOK
    <2> QED BY <2>1, <2>4
<1>4. CASE Forward(s)
    <2>1. Types' /\ (\A t \in Servers \ {s} : Same(t))
        BY <1>0, <1>4, <1>a DEF Forward, Types, Same, Messages, server, sessions, leases
    <2>2. /\ Holds(s) /\ out'[s] = "Data" /\ UNCHANGED <<open, down, session, old,
                                                         session_ip, lease, chosen, taken>>
        BY <1>0, <1>4 DEF Forward, Types, server, sessions, leases
    <2>3. ServerOK(s)'
        BY <1>0, <1>a, <2>2 DEF ServerOK, LinkOK, SessionOK, PhaseOK, Holds, Joining
    <2> QED BY <2>1, <2>3
<1>5. CASE ServerWrites(s)
    <2>1. Types' /\ (\A t \in Servers \ {s} : Same(t))
        BY <1>0, <1>5, <1>a DEF ServerWrites, Types, Same, Messages, server, sessions, leases
    <2>2. /\ open[s] /\ down'[s] = out[s] /\ out'[s] = None
          /\ UNCHANGED <<open, session, old,
                         session_ip, lease, chosen, taken>>
        BY <1>0, <1>5 DEF ServerWrites, Types, server, sessions, leases
    <2>3. ServerOK(s)'
        BY <1>0, <1>a, <2>2, JoinAssumption
           DEF ServerOK, LinkOK, SessionOK, PhaseOK, Holds, Joining
    <2> QED BY <2>1, <2>3
<1>6. CASE ServerReads(s)
    <2>1. Types' /\ (\A t \in Servers \ {s} : Same(t))
        BY <1>0, <1>6, <1>a DEF ServerReads, leases, Types, Same, Messages
    <2>2. UNCHANGED <<open, down, old, session_ip, lease, taken>> /\ Holds(s)
        BY <1>6 DEF ServerReads, leases
    <2>3. \/ UNCHANGED <<session, out>>
          \/ session[s] = "pending" /\ session'[s] = "confirmed" /\ out'[s] = "Confirm"
          \/ session[s] = "pending" /\ UNCHANGED session /\ out'[s] = "Error"
        BY <1>0, <1>6 DEF ServerReads, leases, Types
    <2>4. ServerOK(s)'
        <3>1. LinkOK(s)'
            BY <1>0, <1>a, <2>2, <2>3 DEF ServerOK, LinkOK, Holds
        <3>2. SessionOK(s)'
            BY <1>0, <1>a, <2>2, <2>3 DEF ServerOK, SessionOK, Holds, Joining
        <3>3. PhaseOK(s)'
            BY <1>0, <1>a, <1>d, <2>2, <2>3 DEF ServerOK, PhaseOK, Joining
        <3> QED BY <3>1, <3>2, <3>3 DEF ServerOK
    <2> QED BY <2>1, <2>4
<1>7. CASE SessionEnds(s)
    <2>1. Types' /\ (\A t \in Servers \ {s} : Same(t))
        <3>1. Jammed(s) \in BOOLEAN
            BY DEF Jammed
        <3> QED BY <1>0, <1>7, <1>a, <3>1 DEF SessionEnds, Types, Same
    <2>2. /\ session[s] \in {"pending", "confirmed"} /\ session'[s] = "none"
          /\ UNCHANGED <<down, out, old>> /\ ~taken'[s]
          /\ ~open[s] \/ link[s] \in {"up", "registered"}
          /\ ~open[s] => ~open'[s]
        BY <1>0, <1>7, JoinAssumption
           DEF SessionEnds, Missed, Jammed, Types, ServerOK, LinkOK
    <2>3. ServerOK(s)'
        BY <1>0, <1>a, <2>2 DEF ServerOK, LinkOK, SessionOK, PhaseOK, Holds, Joining
    <2> QED BY <2>1, <2>3
<1>8. CASE OldEnds(s)
    <2>1. Types' /\ (\A t \in Servers \ {s} : Same(t))
        BY <1>0, <1>8, <1>a DEF OldEnds, Types, Same, wire
    <2>2. UNCHANGED <<open, down, out, session, session_ip, taken>> /\ ~Holds(s)
        BY <1>0, <1>8 DEF OldEnds, Types, wire, ServerOK, SessionOK, Holds
    <2>3. ServerOK(s)'
        BY <1>0, <1>a, <1>c, <2>2 DEF ServerOK, LinkOK, SessionOK, PhaseOK, Holds, Joining
    <2> QED BY <2>1, <2>3
<1>9. CASE FoundOffline(s)
    <2>1. /\ UNCHANGED <<open, up, down, out, session, old, session_ip, lease, taken>>
          /\ chosen' = [chosen EXCEPT ![s] = TRUE]
        BY <1>9 DEF FoundOffline, wire, sessions
    <2>2. Types' /\ (\A t \in Servers \ {s} : Same(t))
        BY <1>0, <1>a, <2>1 DEF Types, Same
    <2>3. ServerOK(s)'
        BY <1>0, <1>a, <2>1 DEF ServerOK, LinkOK, SessionOK, PhaseOK, Holds, Joining
    <2> QED BY <2>2, <2>3
<1>10. CASE Removed(s)
    <2>1. /\ UNCHANGED <<open, up, down, out, session, old, session_ip>>
          /\ lease' = [lease EXCEPT ![s] = None]
          /\ taken' = [taken EXCEPT ![s] = @ \/ Holds(s)]
          /\ chosen' = [chosen EXCEPT ![s] = FALSE]
        BY <1>10 DEF Removed, wire, sessions
    <2>2. Types'
        <3>1. taken' \in [Servers -> BOOLEAN]
            BY <1>0, <2>1 DEF Types, Holds
        <3> QED BY <1>0, <1>a, <2>1, <3>1 DEF Types
    <2>3. \A t \in Servers \ {s} : Same(t)
        BY <1>0, <1>a, <2>1 DEF Types, Same
    <2>4. lease'[s] = None /\ taken'[s] = (taken[s] \/ Holds(s))
        BY <1>0, <2>1 DEF Types
    <2>5. ServerOK(s)'
        <3>1. LinkOK(s)' /\ PhaseOK(s)'
            BY <1>0, <1>a, <2>1 DEF ServerOK, LinkOK, PhaseOK, Joining
        <3>2. SessionOK(s)'
            BY <1>0, <1>a, <2>1, <2>4 DEF ServerOK, SessionOK, Holds, Joining
        <3> QED BY <3>1, <3>2 DEF ServerOK
    <2> QED BY <2>2, <2>3, <2>5
<1> QED BY <1>1, <1>2, <1>3, <1>4, <1>5, <1>6, <1>7, <1>8, <1>9, <1>10 DEF Serve

-----------------------------------------------------------------------------
(* Being joined.                                                           *)

\* Losing a connection, making it again, and being refused.
LEMMA AgainStep ==
    ASSUME JoinIInv, NEW s \in Servers, Again(s)
    PROVE  JoinIInv'
<1>0. Types /\ \A t \in Servers : ServerOK(t)
    BY DEF JoinIInv
<1>a. ASSUME link[s] \in {"up", "down", "again"} PROVE phase \in {"joined", "stopped"}
    BY <1>0, <1>a DEF ServerOK, PhaseOK, Types, Joining
<1>1. CASE LoopEnds(s) \/ TryAgain(s)
    BY <1>1, <1>a, LeaveOne DEF LoopEnds, TryAgain
<1>2. CASE Aborted(s)
    BY <1>2, LeaveOne DEF Aborted
<1>3. CASE Reconnect(s)
    BY <1>3, <1>a, ConnectKeeps DEF Reconnect
<1>4. CASE Rejoined(s)
    <2>1. Types' /\ (\A t \in Servers \ {s} : Same(t))
        BY <1>0, <1>4 DEF Rejoined, Take, Link, Types, Same, Messages, server, sessions, leases
    <2>2. /\ link[s] = "again" /\ down[s] = "Reg" /\ session_ip[s] = network /\ link'[s] = "up"
          /\ down'[s] = None
          /\ UNCHANGED <<phase, answer, network, diverged, open, hand, out, session, old,
                         session_ip, lease, chosen, taken>>
        BY <1>0, <1>4 DEF Rejoined, SameNetwork, Take, Link, Types, server, sessions, leases
    <2>3. session[s] = "confirmed"
        BY <1>0, <1>a, <2>2, JoinAssumption DEF ServerOK, LinkOK, SessionOK, Joining
    <2>4. ServerOK(s)'
        BY <1>0, <1>a, <2>2, <2>3, JoinAssumption
           DEF ServerOK, LinkOK, SessionOK, PhaseOK, Holds, Joining
    <2> QED BY <2>1, <2>2, <2>4, OneServer
<1>5. CASE Refused(s)
    <2>1. /\ link[s] = "again" /\ phase' = "stopped" /\ network' = None /\ diverged' = FALSE
          /\ Link(s, "off") /\ Leave({s}) /\ UNCHANGED answer
        BY <1>5 DEF Refused
    <2>2. /\ WireTypes'
          /\ ~open'[s] /\ down'[s] = None /\ hand'[s] = None
          /\ out'[s] = None /\ session'[s] = "none" /\ ~taken'[s]
          /\ \A t \in Servers \ {s} :
                /\ open'[t] = open[t] /\ down'[t] = down[t] /\ hand'[t] = hand[t]
                /\ out'[t] = out[t] /\ session'[t] = session[t]
                /\ old'[t] = old[t] /\ lease'[t] = lease[t]
                /\ session_ip'[t] = session_ip[t] /\ taken'[t] = taken[t]
        BY <2>1, LeaveLeaves
    <2>3. Types'
        BY <1>0, <2>1, <2>2 DEF Types, WireTypes, Link
    <2>4. ServerOK(s)'
        BY <1>0, <2>1, <2>2, LeftIsOK DEF Link, Types
    <2>5. ASSUME NEW t \in Servers, t # s PROVE ServerOK(t)'
        <3>1. ServerOK(t) /\ Same(t)
            BY <1>0, <2>1, <2>2, <2>5 DEF Same, Link, Types
        <3>2. phase \in {"joined", "stopped"}
            BY <1>a, <2>1
        <3> QED BY <2>1, <3>1, <3>2
                DEF Same, ServerOK, LinkOK, SessionOK, PhaseOK, Holds, Joining
    <2> QED BY <2>3, <2>4, <2>5 DEF JoinIInv
<1> QED BY <1>1, <1>2, <1>3, <1>4, <1>5 DEF Again

\* With one server there is no other.
LEMMA OnlyFirst ==
    ASSUME ~Multi, NEW s \in Servers
    PROVE  s = First
<1>1. IsFiniteSet(Servers) /\ First \in Servers /\ Cardinality(Servers) \in Nat
    BY JoinAssumption, FS_CardinalityType
<1>2. /\ IsFiniteSet(Servers \ {First})
      /\ Cardinality(Servers \ {First}) = Cardinality(Servers) - 1
    BY <1>1, FS_RemoveElement
<1>3. Cardinality(Servers \ {First}) \in Nat
    BY <1>2, FS_CardinalityType
<1>4. Cardinality(Servers \ {First}) = 0
    BY <1>1, <1>2, <1>3 DEF Multi
<1>5. Servers \ {First} = {}
    BY <1>2, <1>4, FS_EmptySet
<1> QED BY <1>5

\* The steps that concern all servers together.
LEMMA TogetherStep ==
    ASSUME JoinIInv, Together \/ Quit \/ Restart
    PROVE  JoinIInv'
<1>0. Types /\ \A s \in Servers : ServerOK(s)
    BY DEF JoinIInv
<1>1. CASE FirstRegistered \/ OthersRegistered
    <2>1. /\ phase' \in {"others", "confirm"} /\ Joining
          /\ UNCHANGED <<link, answer, network, diverged, open, up, down, hand, out,
                         session, old,
                         session_ip, lease, chosen, taken>>
        BY <1>1 DEF FirstRegistered, OthersRegistered, wire, server, sessions, leases, Joining
    <2>2. Types'
        BY <1>0, <2>1 DEF Types, Joining
    <2>3. \A s \in Servers : ServerOK(s)'
        BY <1>0, <2>1 DEF ServerOK, LinkOK, SessionOK, PhaseOK, Holds, Joining
    <2> QED BY <2>2, <2>3 DEF JoinIInv
<1>2. CASE Joined
    <2>1. /\ Joining /\ phase' = "joined" /\ network' = answer[First]
          /\ link' = [s \in Servers |-> "up"] /\ answer' = [s \in Servers |-> None]
          /\ diverged' = \E s \in Servers : answer[s] # answer[First]
          /\ UNCHANGED <<open, up, down, hand, out, session, old,
                         session_ip, lease, chosen, taken>>
        BY <1>2 DEF Joined, wire, server, sessions, leases, Joining
    <2>2. \A s \in Servers : link[s] \in {"registered", "confirmed"}
                            /\ session[s] \in {"none", "confirmed"}
        <3>1. CASE All(Servers, "confirmed")
            BY <1>0, <3>1 DEF All, ServerOK, LinkOK
        <3>2. CASE ~Multi /\ link[First] = "registered"
            <4>1. \A s \in Servers : link[s] = "registered"
                BY <3>2, OnlyFirst
            <4> QED BY <1>0, <3>2, <4>1 DEF ServerOK, LinkOK, SessionOK
        <3> QED BY <1>2, <3>1, <3>2 DEF Joined
    <2>3. answer[First] \in Ips /\ answer[First] # None
        BY <1>0, <2>2, JoinAssumption DEF Types, ServerOK, LinkOK
    <2>4. Types'
        BY <1>0, <2>1, <2>3 DEF Types
    <2>5. ASSUME NEW s \in Servers PROVE ServerOK(s)'
        <3>1. session[s] # "none" => session_ip[s] = answer[s]
            BY <1>0, <2>2 DEF ServerOK, LinkOK
        <3>2. hand[s] = None
            BY <1>0, <2>2 DEF ServerOK, LinkOK
        <3>3. ~diverged' => answer[s] = answer[First]
            BY <2>1
        <3> QED BY <1>0, <2>1, <2>2, <3>1, <3>2, <3>3
                DEF ServerOK, LinkOK, SessionOK, PhaseOK, Holds, Joining
    <2> QED BY <2>4, <2>5 DEF JoinIInv
<1>3. CASE JoinFails
    <2>1. network = None /\ diverged \in BOOLEAN
        BY <1>0, <1>3 DEF JoinFails, Types
    <2> QED BY <1>3, <2>1, LeaveAll DEF JoinFails
<1>4. CASE Quit
    BY <1>4, LeaveAll DEF Quit
<1>5. CASE Restart
    <2>1. /\ phase \in {"failed", "stopped"} /\ phase' = "first"
          /\ \A s \in Servers : link[s] = "off"
          /\ UNCHANGED <<link, answer, network, diverged, open, up, down, hand, out,
                         session, old,
                         session_ip, lease, chosen, taken>>
        BY <1>5 DEF Restart, wire, server, sessions, leases, All
    <2>2. Types'
        BY <1>0, <2>1 DEF Types
    <2>3. \A s \in Servers : ServerOK(s)'
        BY <1>0, <2>1 DEF ServerOK, LinkOK, SessionOK, PhaseOK, Holds, Joining
    <2> QED BY <2>2, <2>3 DEF JoinIInv
<1> QED BY <1>1, <1>2, <1>3, <1>4, <1>5 DEF Together

-----------------------------------------------------------------------------
(* The theorems.                                                           *)

\* What every state of client and servers keeps.
THEOREM JoinInvariant == Spec => []JoinIInv
<1>1. Init => JoinIInv
    <2>1. ASSUME Init PROVE Types
        <3>1. /\ up \in [Servers -> Messages] /\ down \in [Servers -> Messages]
              /\ hand \in [Servers -> Messages] /\ out \in [Servers -> Messages]
            BY <2>1 DEF Init, Messages
        <3>2. (network # None) = (phase = "joined")
            BY <2>1 DEF Init
        <3> QED BY <2>1, <3>1, <3>2 DEF Init, Types
    <2>2. ASSUME Init, NEW s \in Servers PROVE ServerOK(s)
        <3>1. LinkOK(s)
            BY <2>2 DEF Init, LinkOK
        <3>2. SessionOK(s)
            BY <2>2, JoinAssumption DEF Init, SessionOK, Holds
        <3>3. PhaseOK(s)
            BY <2>2 DEF Init, PhaseOK
        <3> QED BY <3>1, <3>2, <3>3 DEF ServerOK
    <2> QED BY <2>1, <2>2 DEF JoinIInv
<1>2. JoinIInv /\ [Next]_vars => JoinIInv'
    <2> SUFFICES ASSUME JoinIInv, [Next]_vars PROVE JoinIInv'
        OBVIOUS
    <2>1. CASE UNCHANGED vars
        <3>1. UNCHANGED <<phase, link, answer, network, diverged, open, up, down, hand, out,
                          session, old,
                          session_ip, lease, chosen, taken>>
            BY <2>1 DEF vars, client, wire, server, sessions, leases
        <3> QED BY <3>1 DEF JoinIInv, Types, ServerOK, LinkOK, SessionOK, PhaseOK, Holds,
                Joining
    <2> QED BY <2>1, JoinStep, DataStep, AgainStep, ServeStep, TogetherStep DEF Next
<1> QED BY <1>1, <1>2, PTL DEF Spec

\* TypeOK: in particular the client has an address exactly while it is joined,
\* and a session has the lease of its address unless a sweep or deletion that
\* found the client offline took it (register, Session::drop, remove_devices).
THEOREM TypeCorrect == Spec => []TypeOK
<1>1. JoinIInv => TypeOK
    BY DEF JoinIInv, Types, TypeOK, ServerOK, LinkOK, SessionOK, Holds
<1> QED BY <1>1, JoinInvariant, PTL

\* ServedAsItself: for any number of servers, a server that serves the client
\* as connected knows it by the address the client uses, and has it leased to
\* it unless a late removal took that, through every loss of a connection, of
\* a lease and of a message (data_handle_task, register, delete_device).
THEOREM AlwaysServedAsItself == Spec => []ServedAsItself
<1>1. JoinIInv => ServedAsItself
    <2> SUFFICES ASSUME JoinIInv, NEW s \in Servers, phase = "joined", link[s] = "up",
                        session[s] # "none", ~diverged
                 PROVE  /\ session[s] = "confirmed" /\ session_ip[s] = network
                        /\ lease[s] = network \/ taken[s]
        BY DEF ServedAsItself
    <2>1. session[s] = "confirmed" /\ session_ip[s] = network
        BY DEF JoinIInv, ServerOK, LinkOK, PhaseOK
    <2>2. lease[s] = network \/ taken[s]
        BY <2>1 DEF JoinIInv, ServerOK, SessionOK, Holds
    <2> QED BY <2>1, <2>2
<1> QED BY <1>1, JoinInvariant, PTL
=============================================================================
