---------------------------- MODULE RelayProofs ----------------------------
(***************************************************************************)
(* Proofs about Relay for any clients, servers and times to live: while    *)
(* nobody comes or goes, a frame is given to a device once, and a          *)
(* broadcast of which nothing is lost to every device its sender knows.    *)
(*                                                                         *)
(* Both rest on what a frame on its way still stands for (Reaches): the    *)
(* client it goes to, or those its server will give it to.  A broadcast    *)
(* starts as frames that together reach everybody the sender knows         *)
(* (StartComplete), no two of them the same client unless two servers that *)
(* are not the best have it (StartOnce); a server replaces a frame by one  *)
(* for each client it reaches, so both stay so.                            *)
(***************************************************************************)
EXTENDS Relay, FiniteSetTheorems, TLAPS

\* A frame under way.
FrameOK(f) ==
    /\ sent.dest = f.dest /\ sent.src = f.src
    /\ f.type = "Turn" <=> f.dest # Everybody
    /\ f.type # "Turn" /\ f.to \in Servers => f.from = f.src /\ f.ttl = MaxTtl
    /\ f.type # "Turn" /\ f.to \in Clients => f.type = "Broadcast"
    /\ f.dest = Gateway /\ f.to \in Clients => f.from \in Servers

FramesOK ==
    /\ sent = NoFrame => frames = {} /\ \A c \in Clients : got[c] = 0
    /\ \A f \in frames : FrameOK(f)

\* The clients that a frame is for, or that its server will give it to.
Reaches(f, c) == f.to = c \/ (f.to \in Servers /\ c \in Receivers(f, f.to))

\* A frame for one client is there once, or has arrived.
UnicastOnce ==
    sent.dest # Everybody =>
        /\ \A f, g \in frames : f = g
        /\ \A c \in Clients : got[c] <= 1 /\ (got[c] = 1 => frames = {})

\* A broadcast that is followed without a change of sessions.
Followed == sent.dest = Everybody /\ sent.listed # None /\ settled

\* Client c is reached by one frame at most, or has got it.
OnceFor(c) ==
    /\ \A f, g \in frames : Reaches(f, c) /\ Reaches(g, c) => f = g
    /\ got[c] <= 1 /\ (got[c] = 1 => \A f \in frames : ~Reaches(f, c))

BroadcastOnce ==
    Followed => \A c \in Clients : OnTwoOthers(c) \/ OnceFor(c)

\* Client c has got the frame or will be reached.
Complete(c) == got[c] >= 1 \/ \E f \in frames : Reaches(f, c)

BroadcastReaches ==
    Followed /\ sent.src \notin P2pOnly /\ ~lost => \A c \in sent.listed : Complete(c)

\* The inductive invariant.
RelayIInv == TypeOK /\ FramesOK /\ UnicastOnce /\ BroadcastOnce /\ BroadcastReaches

-----------------------------------------------------------------------------
(* Steps that take or move frames.                                         *)

\* What reaches whom depends on the sessions only.
LEMMA ReachesSame ==
    ASSUME UNCHANGED sender_map, NEW f, NEW c
    PROVE  /\ Reaches(f, c)' <=> Reaches(f, c)
           /\ OnTwoOthers(c)' <=> OnTwoOthers(c)
BY DEF Reaches, Receivers, OnTwoOthers

\* No frame is both for a client and for a server.
LEMMA EndsDiffer ==
    ASSUME NEW c \in Clients
    PROVE  /\ c \notin Servers /\ c # Everybody /\ c # Gateway /\ c # None
           /\ Everybody # Gateway /\ Everybody # None /\ Gateway # None
BY RelayAssumption

\* A frame is lost.
LEMMA FrameIsLost ==
    ASSUME RelayIInv, NEW m \in frames, frames' = frames \ {m}, lost' = TRUE,
           UNCHANGED <<sessions, got, sent, events, settled>>
    PROVE  RelayIInv'
<1>1. UNCHANGED <<sender_map, connected, client_map>>
    BY DEF sessions
<1>2. TypeOK'
    BY <1>1 DEF RelayIInv, TypeOK
<1>3. FramesOK' /\ UnicastOnce'
    BY DEF RelayIInv, FramesOK, UnicastOnce, FrameOK
<1>4. BroadcastOnce'
    BY <1>1, ReachesSame DEF RelayIInv, BroadcastOnce, Followed, OnceFor
<1> QED BY <1>2, <1>3, <1>4 DEF RelayIInv, BroadcastReaches

\* A frame that is there although one of its kind arrived already.
LEMMA NotYetGot ==
    ASSUME RelayIInv, NEW m \in frames, NEW c \in Clients, m.to = c
    PROVE  \/ got[c] = 0
           \/ sent.dest = Everybody /\ (Followed => OnTwoOthers(c))
<1>1. got[c] \in Nat
    BY DEF RelayIInv, TypeOK
<1>2. CASE sent.dest # Everybody
    BY <1>1, <1>2 DEF RelayIInv, UnicastOnce
<1>3. CASE sent.dest = Everybody
    BY <1>1, <1>3 DEF RelayIInv, BroadcastOnce, OnceFor, Reaches
<1> QED BY <1>2, <1>3

\* A frame is given to the client it has come to.
LEMMA GiveKeeps ==
    ASSUME RelayIInv, NEW m \in frames, NEW c \in Clients, m.to = c, Give(m, c),
           UNCHANGED <<sessions, sent, events, settled>>
    PROVE  RelayIInv'
<1>0. TypeOK /\ FramesOK
    BY DEF RelayIInv
<1>1. /\ UNCHANGED <<sender_map, connected, client_map, lost>>
      /\ frames' = frames \ {m}
    BY DEF sessions, Give
<1>2. /\ got'[c] = got[c] + 1 /\ got' \in [Clients -> Nat]
      /\ \A d \in Clients \ {c} : got'[d] = got[d]
    BY <1>0 DEF Give, TypeOK
<1>3. TypeOK'
    BY <1>0, <1>1, <1>2 DEF TypeOK
<1>4. FramesOK'
    BY <1>0, <1>1 DEF FramesOK, FrameOK
<1>5. UnicastOnce'
    <2> SUFFICES ASSUME sent.dest # Everybody PROVE UnicastOnce'
        BY DEF UnicastOnce
    <2>1. frames' = {} /\ got[c] = 0
        BY <1>1, NotYetGot DEF RelayIInv, UnicastOnce
    <2> QED BY <1>2, <2>1 DEF RelayIInv, UnicastOnce
<1>6. BroadcastOnce'
    <2> SUFFICES ASSUME Followed, NEW d \in Clients, ~OnTwoOthers(d) PROVE OnceFor(d)'
        BY <1>1, ReachesSame DEF BroadcastOnce, Followed
    <2>1. OnceFor(d)
        BY DEF RelayIInv, BroadcastOnce
    <2>2. CASE d = c
        <3>1. got[c] = 0
            BY <2>2, NotYetGot
        <3>2. Reaches(m, c)
            BY DEF Reaches
        <3> QED BY <1>1, <1>2, <2>1, <2>2, <3>1, <3>2, ReachesSame DEF OnceFor
    <2>3. CASE d # c
        BY <1>1, <1>2, <2>1, <2>3, ReachesSame DEF OnceFor
    <2> QED BY <2>2, <2>3
<1>7. BroadcastReaches'
    <2> SUFFICES ASSUME Followed, sent.src \notin P2pOnly, ~lost, NEW d \in sent.listed
                 PROVE  Complete(d)'
        BY <1>1 DEF BroadcastReaches, Followed
    <2>1. Complete(d)
        BY DEF RelayIInv, BroadcastReaches
    <2>2. d \in Clients
        <3>1. sent.listed \in (SUBSET Clients) \cup {None}
            BY <1>0 DEF TypeOK
        <3> QED BY <3>1 DEF Followed
    <2>3. CASE d = c
        <3>1. got'[c] >= 1
            BY <1>0, <1>2 DEF TypeOK
        <3> QED BY <2>3, <3>1 DEF Complete
    <2>4. CASE d # c
        <3>1. m.dest = Everybody
            BY <1>0 DEF FramesOK, FrameOK, Followed
        <3>2. ~Reaches(m, d)
            BY <2>4, EndsDiffer DEF Reaches
        <3> QED BY <1>1, <1>2, <2>1, <2>2, <2>4, <3>2, ReachesSame DEF Complete
    <2> QED BY <2>3, <2>4
<1> QED BY <1>3, <1>4, <1>5, <1>6, <1>7 DEF RelayIInv

\* A frame for one client goes on as another, or is lost on the way.
LEMMA TurnMoves ==
    ASSUME RelayIInv, NEW m \in frames, m.type = "Turn", NEW f \in Frame, f.type = "Turn",
           f.src = m.src, f.dest = m.dest, f.dest = Gateway /\ f.to \in Clients => f.from \in Servers,
           f.from \in Servers /\ f.to \in Clients =>
               f.dest \in {f.to, Gateway} /\ (f.dest = Gateway => f.ttl = 1),
           frames' \in {(frames \ {m}) \cup {f}, frames \ {m}}, lost' \in BOOLEAN,
           UNCHANGED <<sessions, got, sent, events, settled>>
    PROVE  RelayIInv'
<1>0. TypeOK /\ FramesOK /\ UnicastOnce
    BY DEF RelayIInv
<1>1. UNCHANGED <<sender_map, connected, client_map>>
    BY DEF sessions
<1>2. m.dest # Everybody /\ sent.dest = m.dest /\ sent.src = m.src
    BY <1>0 DEF FramesOK, FrameOK
<1>3. frames = {m} /\ frames' \in {{f}, {}}
    BY <1>0, <1>2 DEF UnicastOnce
<1>4. TypeOK'
    BY <1>0, <1>1, <1>3 DEF TypeOK
<1>5. FramesOK'
    BY <1>0, <1>2, <1>3 DEF FramesOK, FrameOK
<1>6. UnicastOnce'
    BY <1>0, <1>2, <1>3 DEF UnicastOnce
<1>7. BroadcastOnce' /\ BroadcastReaches'
    BY <1>2 DEF BroadcastOnce, BroadcastReaches, Followed
<1> QED BY <1>4, <1>5, <1>6, <1>7 DEF RelayIInv

-----------------------------------------------------------------------------
(* A server gives a broadcast to its clients.                              *)

\* What becomes of the frame for each client.
LEMMA CopiesOf ==
    ASSUME NEW m \in Frame, m.ttl > 1, NEW s \in Servers, NEW cs \in SUBSET Clients,
           NEW t \in {"Turn", "Broadcast"}
    PROVE  /\ \A f \in ToEach(m, s, cs, t) :
                  /\ f \in Frame /\ f.type = t /\ f.src = m.src /\ f.dest = m.dest
                  /\ f.from = s /\ f.to \in cs
           /\ \A f, g \in ToEach(m, s, cs, t) : f.to = g.to => f = g
           /\ \A c \in cs : \E f \in ToEach(m, s, cs, t) : f.to = c
<1> DEFINE Copy(c) ==
        [m EXCEPT !.type = t, !.ips = {}, !.ttl = m.ttl - 1, !.from = s, !.to = c]
<1>1. m.ttl - 1 \in 0 .. MaxTtl
    BY RelayAssumption DEF Frame
<1>2. ASSUME NEW c \in cs
      PROVE  /\ Copy(c) \in Frame /\ Copy(c).type = t /\ Copy(c).src = m.src
             /\ Copy(c).dest = m.dest /\ Copy(c).from = s /\ Copy(c).to = c
    BY <1>1 DEF Frame
<1>3. ToEach(m, s, cs, t) = {Copy(c) : c \in cs}
    BY DEF ToEach
<1> HIDE DEF Copy
<1> QED BY <1>2, <1>3

\* Nobody but its clients gets a broadcast from a server.
LEMMA ReceiversAreClients ==
    ASSUME TypeOK, NEW m \in frames, NEW s \in Servers, m.type # "Turn"
    PROVE  Receivers(m, s) \in SUBSET Clients
<1>1. sender_map[s] \in SUBSET Clients /\ m \in Frame
    BY DEF TypeOK
<1>2. m.type \in {"Broadcast", "ExcludeBroadcast", "TargetBroadcast"}
    BY <1>1 DEF Frame
<1>3. m.ips \subseteq Clients
    BY <1>1 DEF Frame
<1> QED BY <1>1, <1>2, <1>3 DEF Receivers

\* A server that has a broadcast gives it to whom it reaches, or to as many as
\* their queues take.
LEMMA FanOut ==
    ASSUME RelayIInv, NEW m \in frames, NEW s \in Servers, m.to = s, m.type # "Turn",
           m.ttl > 1, Replace(m, ToEach(m, s, Receivers(m, s), "Broadcast")),
           UNCHANGED <<sessions, got, sent, events, settled>>
    PROVE  RelayIInv'
<1> DEFINE All == ToEach(m, s, Receivers(m, s), "Broadcast")
<1>0. TypeOK /\ FramesOK
    BY DEF RelayIInv
<1>1. UNCHANGED <<sender_map, connected, client_map>>
    BY DEF sessions
<1>2. PICK kept \in SUBSET All :
         frames' = (frames \ {m}) \cup kept /\ lost' = (lost \/ kept # All)
    BY DEF Replace
<1>3. m \in Frame /\ Receivers(m, s) \in SUBSET Clients
    BY <1>0, ReceiversAreClients DEF TypeOK
<1>4. \A f \in kept : /\ f \in Frame /\ f.type = "Broadcast" /\ f.src = m.src
                      /\ f.dest = m.dest /\ f.from = s /\ f.to \in Receivers(m, s)
    BY <1>3, CopiesOf
<1>5. sent.dest = Everybody /\ m.dest = Everybody /\ sent.src = m.src
    BY <1>0 DEF FramesOK, FrameOK
<1>6. \A f \in kept : \A c : Reaches(f, c) <=> f.to = c
    BY <1>3, <1>4, EndsDiffer DEF Reaches
<1>7. \A c \in Receivers(m, s) : Reaches(m, c)
    BY DEF Reaches
<1>8. TypeOK'
    <2>1. lost' \in BOOLEAN
        BY <1>0, <1>2 DEF TypeOK
    <2>2. Everybody # Gateway
        BY RelayAssumption
    <2> QED BY <1>0, <1>1, <1>2, <1>4, <1>5, <2>1, <2>2 DEF TypeOK
<1>9. FramesOK'
    <2>1. \A f \in kept : FrameOK(f)'
        BY <1>3, <1>4, <1>5, EndsDiffer DEF FrameOK
    <2> QED BY <1>0, <1>2, <1>5, <2>1 DEF FramesOK, FrameOK, NoFrame
<1>10. UnicastOnce'
    BY <1>5 DEF UnicastOnce
<1>11. BroadcastOnce'
    <2> SUFFICES ASSUME Followed, NEW c \in Clients, ~OnTwoOthers(c) PROVE OnceFor(c)'
        BY <1>1, ReachesSame DEF BroadcastOnce, Followed
    <2>1. OnceFor(c)
        BY DEF RelayIInv, BroadcastOnce
    <2>2. ASSUME NEW f \in frames', NEW g \in frames', Reaches(f, c), Reaches(g, c)
          PROVE  f = g
        <3>1. CASE f \in kept /\ g \in kept
            BY <1>3, <1>6, <2>2, <3>1, CopiesOf
        <3>2. CASE f \notin kept /\ g \notin kept
            BY <1>2, <2>1, <2>2, <3>2 DEF OnceFor
        <3>3. CASE f \in kept /\ g \notin kept
            BY <1>2, <1>4, <1>6, <1>7, <2>1, <2>2, <3>3 DEF OnceFor
        <3>4. CASE f \notin kept /\ g \in kept
            BY <1>2, <1>4, <1>6, <1>7, <2>1, <2>2, <3>4 DEF OnceFor
        <3> QED BY <3>1, <3>2, <3>3, <3>4
    <2>3. got[c] = 1 => \A f \in frames' : ~Reaches(f, c)
        BY <1>2, <1>4, <1>6, <1>7, <2>1 DEF OnceFor
    <2> QED BY <1>1, <2>1, <2>2, <2>3, ReachesSame DEF OnceFor
<1>12. BroadcastReaches'
    <2> SUFFICES ASSUME Followed, sent.src \notin P2pOnly, ~lost, kept = All,
                        NEW c \in sent.listed
                 PROVE  Complete(c)'
        BY <1>2 DEF BroadcastReaches, Followed
    <2>1. Complete(c)
        BY DEF RelayIInv, BroadcastReaches
    <2>2. c \in Clients
        <3>1. sent.listed \in (SUBSET Clients) \cup {None}
            BY <1>0 DEF TypeOK
        <3> QED BY <3>1 DEF Followed
    <2>3. CASE Reaches(m, c)
        <3>1. c \in Receivers(m, s)
            BY <2>2, <2>3, EndsDiffer DEF Reaches
        <3>2. PICK f \in All : f.to = c
            BY <1>3, <3>1, CopiesOf
        <3>3. f \in frames' /\ Reaches(f, c)
            BY <1>2, <1>6, <3>2
        <3> QED BY <1>1, <3>3, ReachesSame DEF Complete
    <2>4. CASE ~Reaches(m, c)
        BY <1>1, <1>2, <2>1, <2>4, ReachesSame DEF Complete
    <2> QED BY <2>3, <2>4
<1> QED BY <1>8, <1>9, <1>10, <1>11, <1>12 DEF RelayIInv

-----------------------------------------------------------------------------
(* What servers and receivers do with a frame.                             *)

\* A frame for one client is dropped.
LEMMA TurnIsDropped ==
    ASSUME RelayIInv, NEW m \in frames, m.type = "Turn", frames' = frames \ {m},
           lost' \in BOOLEAN, UNCHANGED <<sessions, got, sent, events, settled>>
    PROVE  RelayIInv'
<1>1. /\ m \in Frame /\ m.dest # Everybody
      /\ m.dest = Gateway /\ m.to \in Clients => m.from \in Servers
      /\ m.from \in Servers /\ m.to \in Clients =>
             m.dest \in {m.to, Gateway} /\ (m.dest = Gateway => m.ttl = 1)
    BY DEF RelayIInv, TypeOK, FramesOK, FrameOK
<1> QED BY <1>1, TurnMoves

\* A server passes a frame on, to another server, to its client or to its
\* clients, or drops it; a broadcast comes with all of its time to live.
LEMMA DataIsHandled ==
    ASSUME RelayIInv, NEW m \in frames, NEW s \in Servers, m.to = s, handle_data(m, s),
           UNCHANGED <<sessions, got, sent, events, settled>>
    PROVE  RelayIInv'
<1>0. TypeOK /\ FramesOK
    BY DEF RelayIInv
<1>1. /\ m \in Frame /\ MaxTtl > 1
      /\ m.type = "Turn" <=> m.dest # Everybody
      /\ m.type # "Turn" => m.ttl = MaxTtl
      /\ m.dest # Gateway
    BY <1>0, RelayAssumption DEF TypeOK, FramesOK, FrameOK, handle_data
<1>2. m.ttl \in Nat /\ MaxTtl \in Nat /\ lost \in BOOLEAN /\ m.dest \in Clients \cup {Everybody}
    BY <1>0, <1>1, RelayAssumption DEF TypeOK, Frame
<1>3. CASE ~decr_ttl(m)
    <2>1. m.type = "Turn"
        BY <1>1, <1>3 DEF decr_ttl
    <2>2. frames' = frames \ {m} /\ lost' \in BOOLEAN
        BY <1>2, <1>3 DEF handle_data, Replace
    <2> QED BY <2>1, <2>2, TurnIsDropped
<1>4. CASE decr_ttl(m) /\ m.type = "Turn" /\ forward_with_best_route(m, s)
    <2>1. PICK p \in Servers \ {s} : forward_to_peer(m, s, p)
        BY <1>4 DEF forward_with_best_route
    <2> DEFINE f == [m EXCEPT !.ttl = m.ttl - 1, !.from = s, !.to = p]
    <2>2. m.ttl - 1 \in 0 .. MaxTtl
        BY <1>1, <1>2, <1>4 DEF decr_ttl, Frame
    <2>3. /\ f \in Frame /\ f.type = "Turn" /\ f.src = m.src /\ f.dest = m.dest
          /\ f.from = s /\ f.to = p
        BY <1>1, <1>4, <2>2 DEF Frame
    <2>4. p \notin Clients
        BY EndsDiffer
    <2>5. frames' = (frames \ {m}) \cup {f} /\ lost' \in BOOLEAN
        BY <1>2, <2>1 DEF forward_to_peer
    <2> QED BY <1>1, <1>4, <2>3, <2>4, <2>5, TurnMoves
<1>5. CASE decr_ttl(m) /\ m.type = "Turn" /\ ToLocal(m, s)
    <2>1. CASE m.dest \notin sender_map[s]
        <3>1. frames' = frames \ {m} /\ lost' \in BOOLEAN
            BY <1>5, <2>1 DEF ToLocal
        <3> QED BY <1>5, <3>1, TurnIsDropped
    <2>2. CASE m.dest \in sender_map[s]
        <3>1. m.dest \in Clients
            BY <1>0, <2>2 DEF TypeOK
        <3>2. PICK kept \in SUBSET ToEach(m, s, {m.dest}, "Turn") :
                 /\ frames' = (frames \ {m}) \cup kept
                 /\ lost' = (lost \/ kept # ToEach(m, s, {m.dest}, "Turn"))
            BY <1>5, <2>2 DEF ToLocal, Replace
        <3>3. /\ \A f \in kept : /\ f \in Frame /\ f.type = "Turn" /\ f.src = m.src
                                 /\ f.dest = m.dest /\ f.from = s /\ f.to = m.dest
              /\ \A f, g \in kept : f = g
            BY <1>1, <1>5, <3>1, CopiesOf DEF decr_ttl
        <3>4. CASE kept = {}
            BY <1>2, <1>5, <3>2, <3>4, TurnIsDropped
        <3>5. CASE kept # {}
            <4>1. PICK f \in kept : kept = {f}
                BY <3>3, <3>5
            <4>2. frames' = (frames \ {m}) \cup {f} /\ lost' \in BOOLEAN
                BY <1>2, <3>2, <4>1
            <4> QED BY <1>1, <1>5, <3>3, <4>1, <4>2, TurnMoves
        <3> QED BY <3>4, <3>5
    <2> QED BY <2>1, <2>2
<1>6. CASE /\ decr_ttl(m) /\ m.type # "Turn"
           /\ Replace(m, ToEach(m, s, Receivers(m, s), "Broadcast"))
    BY <1>6, FanOut DEF decr_ttl
<1> QED BY <1>3, <1>4, <1>5, <1>6 DEF handle_data

\* A server answers a ping.
LEMMA PingIsAnswered ==
    ASSUME RelayIInv, NEW m \in frames, NEW s \in Servers, m.to = s, m.from \in Clients,
           handle_gateway(m, s), UNCHANGED <<sessions, got, sent, events, settled>>
    PROVE  RelayIInv'
<1> DEFINE f == EchoReply(m, s)
<1>1. /\ m \in Frame /\ m.dest = Gateway /\ m.type = "Turn" /\ lost \in BOOLEAN
    BY RelayAssumption DEF RelayIInv, TypeOK, FramesOK, FrameOK, handle_gateway
<1>2. 1 \in 0 .. MaxTtl
    BY RelayAssumption
<1>3. /\ f \in Frame /\ f.type = "Turn" /\ f.src = m.src /\ f.dest = m.dest
      /\ f.from = s /\ f.to = m.from /\ f.ttl = 1
    BY <1>1, <1>2 DEF EchoReply, Frame
<1>4. frames' \in {(frames \ {m}) \cup {f}, frames \ {m}} /\ lost' \in BOOLEAN
    BY <1>1 DEF handle_gateway, Replace
<1> HIDE DEF f
<1> QED BY <1>1, <1>3, <1>4, TurnMoves

\* A step of a server.
LEMMA ServeStep == ASSUME RelayIInv, Serve PROVE RelayIInv'
BY DataIsHandled, PingIsAnswered DEF Serve

\* A step of a client that a frame has come to: it is taken, passed on with
\* less time to live, or dropped.
LEMMA ReceiveStep == ASSUME RelayIInv, Receive PROVE RelayIInv'
<1>1. PICK m \in frames, c \in Clients :
         /\ m.to = c /\ (handle(m, c) \/ next_handle(m, c))
         /\ UNCHANGED <<sessions, sent, events, settled>>
    BY DEF Receive
<1>2. /\ m \in Frame /\ (m.type = "Turn" <=> m.dest # Everybody)
      /\ m.dest = Gateway => m.from \in Servers
      /\ lost \in BOOLEAN /\ Everybody # Gateway
    BY <1>1, RelayAssumption DEF RelayIInv, TypeOK, FramesOK, FrameOK
<1>3. CASE Give(m, c)
    BY <1>1, <1>3, GiveKeeps
<1>4. CASE m.type = "Turn" /\ frames' = frames \ {m} /\ lost' \in BOOLEAN /\ UNCHANGED got
    BY <1>1, <1>4, TurnIsDropped
<1>5. CASE handle(m, c)
    BY <1>2, <1>3, <1>4, <1>5 DEF handle, handle_server_data, handle_client_data
<1>6. CASE next_handle(m, c)
    <2> DEFINE ttl == IF m.ttl = 0 THEN 0 ELSE m.ttl - 1
    <2>1. ttl \in 0 .. MaxTtl /\ ~(MaxTtl <= ttl)
        BY <1>2, RelayAssumption DEF Frame
    <2>2. m.from \in Clients
        BY <1>6 DEF next_handle
    <2>3. m.dest # Gateway /\ m.src # Everybody
        BY <1>2, <2>2, EndsDiffer DEF Frame
    <2>4. CASE m.src = m.dest
        <3>1. m.type = "Turn" /\ frames' = frames \ {m} /\ UNCHANGED <<got, lost>>
            BY <1>2, <1>6, <2>3, <2>4 DEF next_handle
        <3> QED BY <1>2, <1>4, <3>1
    <2>5. CASE m.src # m.dest /\ m.dest \in {c, Everybody}
        <3>1. Give(m, c)
            BY <1>6, <2>1, <2>5 DEF next_handle
        <3> QED BY <1>3, <3>1
    <2>6. CASE m.src # m.dest /\ m.dest \notin {c, Everybody}
        <3>1. CASE frames' = frames \ {m} /\ lost' = TRUE /\ UNCHANGED got
            BY <1>2, <1>4, <2>6, <3>1
        <3>2. ASSUME NEW hop \in Clients \ {c}, UNCHANGED <<got, lost>>,
                     frames' = (frames \ {m}) \cup
                               {[m EXCEPT !.ttl = ttl, !.from = c, !.to = hop]}
              PROVE  RelayIInv'
            <4> DEFINE f == [m EXCEPT !.ttl = ttl, !.from = c, !.to = hop]
            <4>1. /\ f \in Frame /\ f.type = m.type /\ f.src = m.src /\ f.dest = m.dest
                  /\ f.from = c
                BY <1>2, <2>1 DEF Frame
            <4>2. m.type = "Turn" /\ c \notin Servers
                BY <1>2, <2>6, EndsDiffer
            <4>3. frames' = (frames \ {m}) \cup {f} /\ lost' \in BOOLEAN
                BY <1>2, <3>2
            <4>4. UNCHANGED <<sessions, got, sent, events, settled>>
                BY <1>1, <3>2
            <4> HIDE DEF f
            <4> QED BY <2>3, <4>1, <4>2, <4>3, <4>4, TurnMoves
        <3>3. /\ UNCHANGED got
              /\ \/ UNCHANGED lost /\ \E hop \in Clients \ {c} :
                       frames' = (frames \ {m}) \cup
                                 {[m EXCEPT !.ttl = ttl, !.from = c, !.to = hop]}
                 \/ frames' = frames \ {m} /\ lost' = TRUE
            BY <1>6, <2>1, <2>6 DEF next_handle
        <3> QED BY <3>1, <3>2, <3>3
    <2> QED BY <2>4, <2>5, <2>6
<1> QED BY <1>1, <1>5, <1>6

-----------------------------------------------------------------------------
(* The sender.                                                             *)

\* Nothing is under way before the frame is sent, and its types are right.
LEMMA StartTyped ==
    ASSUME RelayIInv, NEW c \in Clients, NEW d \in Clients \cup {Everybody, Gateway},
           NEW f \in SUBSET Frame, Start(c, d, f), lost' \in BOOLEAN,
           \A m \in f : /\ m.src = c /\ m.dest = d /\ m.from = c
                        /\ m.type = "Turn" <=> d # Everybody
                        /\ m.type # "Turn" /\ m.to \in Servers => m.ttl = MaxTtl
                        /\ m.type # "Turn" /\ m.to \in Clients => m.type = "Broadcast"
                        /\ m.dest = Gateway => m.to \in Servers
    PROVE  /\ TypeOK' /\ FramesOK' /\ frames' = f
           /\ sent'.src = c /\ sent'.dest = d
           /\ sent'.listed = IF Exact(c) THEN client_online_ips(c) ELSE None
           /\ UNCHANGED <<sender_map, connected, client_map, settled>>
           /\ \A e \in Clients : got'[e] = 0
<1>0. TypeOK /\ FramesOK
    BY DEF RelayIInv
<1>1. /\ UNCHANGED <<sender_map, connected, client_map, got, events, settled>>
      /\ frames' = f
      /\ \A e \in Clients : got[e] = 0
    BY <1>0 DEF Start, sessions, FramesOK
<1>2. /\ sent' = [src |-> c, dest |-> d,
                  listed |-> IF Exact(c) THEN client_online_ips(c) ELSE None]
    BY DEF Start
<1>3. client_online_ips(c) \in SUBSET Clients
    BY <1>0 DEF client_online_ips, TypeOK
<1>4. c \notin Servers /\ c # None
    BY EndsDiffer
<1>5. TypeOK'
    <2>1. sent' \in [src : Clients \cup {None},
                     dest : Clients \cup {Everybody, Gateway, None},
                     listed : (SUBSET Clients) \cup {None}]
        BY <1>2, <1>3
    <2> QED BY <1>0, <1>1, <1>4, <2>1 DEF TypeOK
<1>6. FramesOK'
    <2>1. sent'.src = c /\ sent'.dest = d /\ sent' # NoFrame
        BY <1>2, <1>4 DEF NoFrame
    <2>2. \A m \in f : m.to \in Servers => m.to \notin Clients
        BY EndsDiffer
    <2> QED BY <1>1, <2>1, <2>2 DEF FramesOK, FrameOK
<1> QED BY <1>1, <1>2, <1>5, <1>6

\* The frame for one device: it leaves once, or not at all.
LEMMA UnicastStarts ==
    ASSUME RelayIInv, NEW c \in Clients, NEW d \in Clients \cup {Gateway},
           NEW f, Start(c, d, f), lost' \in BOOLEAN,
           f = {} \/ \E to \in (Clients \cup Servers) :
                         f = {Turn(c, d, to)} /\ (d = Gateway => to \in Servers)
    PROVE  RelayIInv'
<1>1. d # Everybody /\ MaxTtl \in 0 .. MaxTtl
    BY RelayAssumption, EndsDiffer
<1>2. \A to \in Clients \cup Servers :
         Turn(c, d, to) \in Frame
    BY <1>1 DEF Turn, Frame
<1>3. \A to : /\ Turn(c, d, to).src = c /\ Turn(c, d, to).dest = d
              /\ Turn(c, d, to).from = c /\ Turn(c, d, to).type = "Turn"
              /\ Turn(c, d, to).to = to
    BY DEF Turn
<1>4. /\ f \in SUBSET Frame /\ \A m, n \in f : m = n
      /\ \A m \in f : /\ m.src = c /\ m.dest = d /\ m.from = c /\ m.type = "Turn"
                      /\ m.dest = Gateway => m.to \in Servers
    BY <1>2, <1>3
<1>5. /\ TypeOK' /\ FramesOK' /\ frames' = f /\ sent'.dest = d
      /\ \A e \in Clients : got'[e] = 0
    BY <1>1, <1>4, StartTyped
<1>6. UnicastOnce'
    BY <1>4, <1>5 DEF UnicastOnce
<1> QED BY <1>1, <1>5, <1>6 DEF RelayIInv, BroadcastOnce, BroadcastReaches, Followed

\* A frame from the tun device for one client leaves.
LEMMA OutboundStep ==
    ASSUME RelayIInv, NEW c \in Clients, NEW d \in Clients, ipv4_outbound(c, d)
    PROVE  RelayIInv'
<1>1. lost' \in BOOLEAN /\ d # Gateway
    BY EndsDiffer DEF ipv4_outbound
<1>2. connected[c] \in SUBSET Servers
    BY DEF RelayIInv, TypeOK
<1>3. ASSUME NEW to \in Clients \cup Servers, Start(c, d, {Turn(c, d, to)})
      PROVE  RelayIInv'
    BY <1>1, <1>3, UnicastStarts
<1>4. CASE Start(c, d, {})
    BY <1>1, <1>4, UnicastStarts
<1> QED BY <1>2, <1>3, <1>4
        DEF ipv4_outbound, send_encrypted_packet, SendOverServer, find_ip_to_server

\* A ping of a server leaves.
LEMMA GatewayStep ==
    ASSUME RelayIInv, NEW c \in Clients, ipv4_gateway_outbound(c)
    PROVE  RelayIInv'
<1>1. lost' \in BOOLEAN /\ connected[c] \in SUBSET Servers
    BY DEF RelayIInv, TypeOK, ipv4_gateway_outbound
<1>2. PICK s \in connected[c] : Start(c, Gateway, {Turn(c, Gateway, s)})
    BY DEF ipv4_gateway_outbound, find_connected_server
<1> QED BY <1>1, <1>2, UnicastStarts

\* The frames that a broadcast starts as: to peers, to the best server, and to
\* those of the other servers that have somebody else.
ToPeer(c, e) == Wrapped("Broadcast", c, {}, e)
ToBest(c, best, direct) ==
    IF direct = {} THEN Wrapped("Broadcast", c, {}, best)
    ELSE Wrapped("ExcludeBroadcast", c, direct, best)
ToOther(c, best, direct, s) ==
    Wrapped("TargetBroadcast", c, TargetIps(c, best, direct, s), s)

\* What each of them is, and whom it reaches.
LEMMA WrappedReaches ==
    ASSUME TypeOK, NEW c \in Clients, NEW best \in Servers, NEW direct \in SUBSET Clients,
           NEW d \in Clients
    PROVE  /\ \A e \in Clients : Reaches(ToPeer(c, e), d) <=> d = e
           /\ Reaches(ToBest(c, best, direct), d) <=>
                  d \in sender_map[best] \ (IF direct = {} THEN {c} ELSE direct)
           /\ \A s \in Servers : Reaches(ToOther(c, best, direct, s), d) <=>
                  d \in sender_map[s] \cap TargetIps(c, best, direct, s)
<1>1. ASSUME NEW t \in {"Broadcast", "ExcludeBroadcast", "TargetBroadcast"}, NEW ips, NEW to
      PROVE  /\ Wrapped(t, c, ips, to).type = t /\ Wrapped(t, c, ips, to).src = c
             /\ Wrapped(t, c, ips, to).ips = ips /\ Wrapped(t, c, ips, to).to = to
    BY DEF Wrapped
<1>2. d \notin Servers
    BY EndsDiffer
<1>3. \A e \in Clients : Reaches(ToPeer(c, e), d) <=> d = e
    BY <1>1, EndsDiffer DEF Reaches, ToPeer
<1>4. Reaches(ToBest(c, best, direct), d) <=>
          d \in sender_map[best] \ (IF direct = {} THEN {c} ELSE direct)
    BY <1>1, <1>2 DEF Reaches, ToBest, Receivers
<1>5. \A s \in Servers : Reaches(ToOther(c, best, direct, s), d) <=>
          d \in sender_map[s] \cap TargetIps(c, best, direct, s)
    BY <1>1, <1>2 DEF Reaches, ToOther, Receivers
<1> QED BY <1>3, <1>4, <1>5

\* Each of them is a frame that the sender can send.
LEMMA WrappedTyped ==
    ASSUME TypeOK, NEW c \in Clients, NEW best \in Servers, NEW direct \in SUBSET Clients,
           NEW m, \/ \E e \in Clients : m = ToPeer(c, e)
                  \/ m = ToBest(c, best, direct)
                  \/ \E s \in Servers : m = ToOther(c, best, direct, s)
    PROVE  /\ m \in Frame /\ m.src = c /\ m.dest = Everybody /\ m.from = c /\ m.ttl = MaxTtl
           /\ m.type # "Turn" /\ (m.to \in Clients => m.type = "Broadcast")
<1>1. \A s \in Servers : TargetIps(c, best, direct, s) \in SUBSET Clients
    BY DEF TargetIps, TypeOK
<1>2. MaxTtl \in 0 .. MaxTtl
    BY RelayAssumption
<1>3. ASSUME NEW t \in {"Broadcast", "ExcludeBroadcast", "TargetBroadcast"},
             NEW ips \in SUBSET Clients, NEW to \in Clients \cup Servers
      PROVE  /\ Wrapped(t, c, ips, to) \in Frame /\ Wrapped(t, c, ips, to).src = c
             /\ Wrapped(t, c, ips, to).dest = Everybody /\ Wrapped(t, c, ips, to).from = c
             /\ Wrapped(t, c, ips, to).ttl = MaxTtl /\ Wrapped(t, c, ips, to).type = t
             /\ Wrapped(t, c, ips, to).to = to
    BY <1>2 DEF Wrapped, Frame
<1> QED BY <1>1, <1>3, EndsDiffer DEF ToPeer, ToBest, ToOther

\* The clients that a client knows of a server, if what it knows is exact.
LEMMA ExactMeans ==
    ASSUME TypeOK, NEW c \in Clients, Exact(c), NEW s \in Servers, NEW d \in Clients
    PROVE  /\ d \in client_map[c][s] => d # c /\ d \in sender_map[s]
           /\ client_map[c][s] # {} /\ d \in sender_map[s] => d = c \/ d \in client_map[c][s]
BY DEF Exact

\* No client is reached twice, unless two of the other servers have it.
LEMMA StartOnce ==
    ASSUME TypeOK, NEW c \in Clients, Exact(c), NEW best \in Servers,
           NEW direct \in SUBSET client_online_ips(c), client_map[c][best] # {},
           NEW d \in Clients, ~OnTwoOthers(d),
           NEW m, NEW n, Reaches(m, d), Reaches(n, d),
           \A f \in {m, n} : \/ \E e \in direct : f = ToPeer(c, e)
                             \/ f = ToBest(c, best, direct)
                             \/ \E s \in Servers \ {best} : f = ToOther(c, best, direct, s)
    PROVE  m = n
<1>1. direct \in SUBSET Clients /\ c \notin direct
    BY DEF client_online_ips, TypeOK
<1>2. /\ \A e \in direct : Reaches(ToPeer(c, e), d) <=> d = e
      /\ Reaches(ToBest(c, best, direct), d) <=>
             d \in sender_map[best] \ (IF direct = {} THEN {c} ELSE direct)
      /\ \A s \in Servers : Reaches(ToOther(c, best, direct, s), d) <=>
             d \in sender_map[s] \cap TargetIps(c, best, direct, s)
    BY <1>1, WrappedReaches
<1> DEFINE
      Peer(f) == d \in direct /\ f = ToPeer(c, d)
      Best(f) == f = ToBest(c, best, direct) /\ d \in sender_map[best] /\ d \notin direct
      Other(f) == \E s \in Servers \ {best} :
          /\ f = ToOther(c, best, direct, s) /\ d \in sender_map[s] /\ d \notin direct
          /\ d \notin sender_map[best]
<1>3. ASSUME NEW s \in Servers \ {best}, d \in TargetIps(c, best, direct, s)
      PROVE  d \notin direct /\ d \notin sender_map[best]
    BY <1>3, ExactMeans DEF TargetIps
<1>4. ASSUME NEW f \in {m, n} PROVE Peer(f) \/ Best(f) \/ Other(f)
    <2>1. Reaches(f, d)
        OBVIOUS
    <2>2. CASE \E e \in direct : f = ToPeer(c, e)
        BY <1>2, <2>1, <2>2
    <2>3. CASE f = ToBest(c, best, direct)
        BY <1>2, <2>1, <2>3
    <2>4. CASE \E s \in Servers \ {best} : f = ToOther(c, best, direct, s)
        BY <1>2, <1>3, <2>1, <2>4
    <2> QED BY <2>2, <2>3, <2>4
<1>5. Other(m) /\ Other(n) => m = n
    BY DEF OnTwoOthers
<1> QED BY <1>4, <1>5

\* Every client that the sender knows of is reached by one of them.
LEMMA StartComplete ==
    ASSUME TypeOK, NEW c \in Clients, Exact(c), NEW best \in BestServers(c),
           NEW direct \in SUBSET client_online_ips(c), NEW d \in client_online_ips(c)
    PROVE  \/ d \in direct /\ Reaches(ToPeer(c, d), d)
           \/ /\ ~AllDirect(direct, client_online_ips(c)) /\ client_map[c][best] # {}
              /\ \/ Reaches(ToBest(c, best, direct), d)
                 \/ \E s \in Servers \ {best} :
                       /\ TargetIps(c, best, direct, s) # {}
                       /\ Reaches(ToOther(c, best, direct, s), d)
<1>1. direct \in SUBSET Clients /\ d \in Clients /\ best \in Servers
    BY DEF client_online_ips, TypeOK, BestServers
<1>2. CASE d \in direct
    BY <1>1, <1>2, WrappedReaches
<1>3. CASE d \notin direct
    <2>1. client_map[c][best] # {}
        BY DEF BestServers
    <2>2. ~AllDirect(direct, client_online_ips(c))
        <3>1. client_online_ips(c) \in SUBSET Clients
            BY DEF client_online_ips, TypeOK
        <3>2. IsFiniteSet(client_online_ips(c))
            BY <3>1, RelayAssumption, FS_Subset
        <3> QED BY <1>3, <3>2, FS_Subset DEF AllDirect
    <2>3. PICK s \in Servers : d \in client_map[c][s]
        BY DEF client_online_ips
    <2>4. d # c /\ d \in sender_map[s]
        BY <1>1, <2>3, ExactMeans
    <2>5. CASE d \in client_map[c][best]
        <3>1. d \in sender_map[best]
            BY <1>1, <2>5, ExactMeans
        <3> QED BY <1>1, <1>3, <2>1, <2>2, <2>4, <3>1, WrappedReaches
    <2>6. CASE d \notin client_map[c][best]
        <3>1. s # best /\ d \in TargetIps(c, best, direct, s)
            BY <1>3, <2>3, <2>6 DEF TargetIps
        <3> QED BY <1>1, <2>1, <2>2, <2>4, <3>1, WrappedReaches
    <2> QED BY <2>5, <2>6
<1> QED BY <1>2, <1>3

\* A broadcast leaves, over peers and servers.
LEMMA BroadcastStep ==
    ASSUME RelayIInv, NEW c \in Clients, ipv4_broadcast_outbound(c)
    PROVE  RelayIInv'
<1> DEFINE list == client_online_ips(c)
           Peers(ips) == {ToPeer(c, e) : e \in ips}
           Others(best, direct) == {ToOther(c, best, direct, s) :
               s \in {t \in Servers \ {best} : TargetIps(c, best, direct, t) # {}}}
           Over(best, direct) ==
               IF AllDirect(direct, list) \/ c \in P2pOnly \/ client_map[c][best] = {}
               THEN {} ELSE {ToBest(c, best, direct)} \cup Others(best, direct)
<1>0. TypeOK
    BY DEF RelayIInv
<1>1. PICK direct \in SUBSET list, best \in BestServers(c) :
         Start(c, Everybody, Peers(direct) \cup Over(best, direct))
    BY DEF ipv4_broadcast_outbound, p2p_broadcast, SendRawBroadcast, ToPeer, ToBest, ToOther
<1> DEFINE f == Peers(direct) \cup Over(best, direct)
<1>2. direct \in SUBSET Clients /\ best \in Servers /\ list \in SUBSET Clients
    BY <1>0 DEF client_online_ips, TypeOK, BestServers
<1>3. \A m \in f : \/ \E e \in direct : m = ToPeer(c, e)
                   \/ m = ToBest(c, best, direct)
                   \/ \E s \in Servers \ {best} : m = ToOther(c, best, direct, s)
    OBVIOUS
<1>4. \A m \in f :
         /\ m \in Frame /\ m.src = c /\ m.dest = Everybody /\ m.from = c /\ m.ttl = MaxTtl
         /\ m.type # "Turn" /\ (m.to \in Clients => m.type = "Broadcast")
    BY <1>0, <1>2, <1>3, WrappedTyped
<1>5. lost' = lost /\ lost \in BOOLEAN /\ Everybody # Gateway
    BY <1>0, RelayAssumption DEF TypeOK, ipv4_broadcast_outbound
<1>6. Start(c, Everybody, f)
    BY <1>1
<1>7. /\ TypeOK' /\ FramesOK' /\ frames' = f
      /\ sent'.src = c /\ sent'.dest = Everybody
      /\ sent'.listed = IF Exact(c) THEN list ELSE None
      /\ UNCHANGED <<sender_map, connected, client_map, settled>>
      /\ \A e \in Clients : got'[e] = 0
    <2> HIDE DEF f, list
    <2> QED BY <1>4, <1>5, <1>6, StartTyped DEF list
<1>8. UnicastOnce'
    BY <1>7 DEF UnicastOnce
<1>9. BroadcastOnce'
    <2> SUFFICES ASSUME Exact(c), NEW d \in Clients, ~OnTwoOthers(d) PROVE OnceFor(d)'
        BY <1>7, ReachesSame DEF BroadcastOnce, Followed
    <2>1. ASSUME NEW m \in f, NEW n \in f, Reaches(m, d), Reaches(n, d)
          PROVE  m = n
        <3>1. CASE Over(best, direct) = {}
            <4>1. PICK e1 \in direct, e2 \in direct : m = ToPeer(c, e1) /\ n = ToPeer(c, e2)
                BY <2>1, <3>1
            <4>2. d = e1 /\ d = e2
                BY <1>0, <1>2, <2>1, <4>1, WrappedReaches
            <4> QED BY <4>1, <4>2
        <3>2. CASE Over(best, direct) # {}
            <4>1. client_map[c][best] # {}
                BY <3>2
            <4>2. \A k \in {m, n} : \/ \E e \in direct : k = ToPeer(c, e)
                                    \/ k = ToBest(c, best, direct)
                                    \/ \E s \in Servers \ {best} :
                                          k = ToOther(c, best, direct, s)
                BY <1>3, <2>1
            <4> HIDE DEF f, list, Over
            <4> QED BY <1>0, <1>2, <2>1, <4>1, <4>2, StartOnce DEF list
        <3> QED BY <3>1, <3>2
    <2> HIDE DEF f
    <2> QED BY <1>7, <2>1, ReachesSame DEF OnceFor
<1>10. BroadcastReaches'
    <2> SUFFICES ASSUME Exact(c), c \notin P2pOnly, NEW d \in list PROVE Complete(d)'
        BY <1>7 DEF BroadcastReaches, Followed
    <2>1. \E m \in f : Reaches(m, d)
        <3>1. CASE d \in direct /\ Reaches(ToPeer(c, d), d)
            BY <3>1
        <3>2. CASE /\ ~AllDirect(direct, list) /\ client_map[c][best] # {}
                   /\ Reaches(ToBest(c, best, direct), d)
            BY <3>2
        <3>3. CASE /\ ~AllDirect(direct, list) /\ client_map[c][best] # {}
                   /\ \E s \in Servers \ {best} :
                         /\ TargetIps(c, best, direct, s) # {}
                         /\ Reaches(ToOther(c, best, direct, s), d)
            BY <3>3
        <3> QED BY <1>0, <3>1, <3>2, <3>3, StartComplete
    <2> HIDE DEF f
    <2> QED BY <1>7, <2>1, ReachesSame DEF Complete
<1> QED BY <1>7, <1>8, <1>9, <1>10 DEF RelayIInv

-----------------------------------------------------------------------------
(* The sessions.                                                           *)

\* Sessions change: nothing is claimed of a broadcast that is under way.
LEMMA SessionStep ==
    ASSUME RelayIInv, NEW c \in Clients, NEW s \in Servers,
           \/ Register(c, s) \/ handle_disconnected(c, s) \/ DropSession(c, s)
           \/ update_client_simple_list(c, s)
    PROVE  RelayIInv'
<1>0. TypeOK
    BY DEF RelayIInv
<1>1. Change
    BY DEF Register, handle_disconnected, DropSession, update_client_simple_list
<1>2. /\ UNCHANGED <<frames, got, sent, lost>>
      /\ settled' \in BOOLEAN /\ (settled' => sent = NoFrame)
      /\ events' \in 0 .. MaxEvents
    <2>1. UNCHANGED <<frames, got, sent, lost>> /\ settled' = (settled /\ sent = NoFrame)
        BY <1>1 DEF Change
    <2>2. events < MaxEvents /\ events' = events + 1
        BY <1>1 DEF Change
    <2>3. events \in 0 .. MaxEvents /\ MaxEvents \in Nat /\ settled \in BOOLEAN
        BY <1>0, RelayAssumption DEF TypeOK
    <2>4. events' \in 0 .. MaxEvents
        BY <2>2, <2>3
    <2> QED BY <2>1, <2>3, <2>4
<1>3. ~Followed'
    BY <1>2, RelayAssumption DEF Followed, NoFrame
<1>4. /\ sender_map' \in [Servers -> SUBSET Clients]
      /\ connected' \in [Clients -> SUBSET Servers]
    <2>1. CASE Register(c, s)
        BY <1>0, <2>1 DEF TypeOK, Register
    <2>2. CASE handle_disconnected(c, s)
        BY <1>0, <2>2 DEF TypeOK, handle_disconnected
    <2>3. CASE DropSession(c, s)
        BY <1>0, <2>3 DEF TypeOK, DropSession
    <2>4. CASE update_client_simple_list(c, s)
        BY <1>0, <2>4 DEF TypeOK, update_client_simple_list
    <2> QED BY <2>1, <2>2, <2>3, <2>4
<1>5. /\ client_map' \in [Clients -> [Servers -> SUBSET Clients]]
      /\ \A d \in Clients, t \in Servers : d \notin client_map'[d][t]
    <2>1. CASE UNCHANGED client_map
        BY <1>0, <2>1 DEF TypeOK
    <2>2. CASE client_map' = [client_map EXCEPT ![c][s] = sender_map[s] \ {c}]
        BY <1>0, <2>2 DEF TypeOK
    <2> QED BY <2>1, <2>2 DEF Register, handle_disconnected, DropSession,
                              update_client_simple_list
<1>6. TypeOK'
    BY <1>0, <1>2, <1>4, <1>5 DEF TypeOK
<1>7. FramesOK' /\ UnicastOnce'
    BY <1>2 DEF RelayIInv, FramesOK, FrameOK, UnicastOnce, NoFrame
<1> QED BY <1>3, <1>6, <1>7 DEF RelayIInv, BroadcastOnce, BroadcastReaches

-----------------------------------------------------------------------------

\* Every step keeps the invariant, and it holds at the start.
LEMMA RelayStep == ASSUME RelayIInv, [Next]_vars PROVE RelayIInv'
<1>1. CASE UNCHANGED vars
    <2>1. UNCHANGED <<sender_map, connected, client_map, frames, got, sent, events,
                      settled, lost>>
        BY <1>1 DEF vars
    <2>2. TypeOK' /\ FramesOK' /\ UnicastOnce'
        BY <2>1 DEF RelayIInv, TypeOK, FramesOK, FrameOK, UnicastOnce
    <2>3. /\ Followed' <=> Followed
          /\ \A c \in Clients : OnceFor(c)' <=> OnceFor(c)
        BY <2>1, ReachesSame DEF Followed, OnceFor
    <2>4. BroadcastOnce'
        BY <2>1, <2>3, ReachesSame DEF RelayIInv, BroadcastOnce
    <2>5. BroadcastReaches'
        <3>1. \A c : Complete(c)' <=> Complete(c)
            BY <2>1, ReachesSame DEF Complete
        <3> QED BY <2>1, <2>3, <3>1 DEF RelayIInv, BroadcastReaches
    <2> QED BY <2>2, <2>4, <2>5 DEF RelayIInv
<1>2. CASE Lose \/ Expire
    <2>1. PICK m \in frames : /\ frames' = frames \ {m} /\ lost' = TRUE
                              /\ UNCHANGED <<sessions, got, sent, events, settled>>
        BY <1>2 DEF Lose, Expire
    <2> QED BY <2>1, FrameIsLost
<1> QED BY <1>1, <1>2, OutboundStep, GatewayStep, BroadcastStep, ServeStep, ReceiveStep,
           SessionStep DEF Next

\* Nothing is under way at the start.
LEMMA RelayInit == Init => RelayIInv
<1> SUFFICES ASSUME Init PROVE RelayIInv
    OBVIOUS
<1>1. /\ frames = {} /\ \A c \in Clients : got[c] = 0
      /\ sent = NoFrame /\ sent.dest = None /\ None # Everybody
    BY RelayAssumption DEF Init, NoFrame
<1>2. TypeOK
    <2>1. sent \in [src : Clients \cup {None},
                    dest : Clients \cup {Everybody, Gateway, None},
                    listed : (SUBSET Clients) \cup {None}]
        BY DEF Init, NoFrame
    <2>2. events \in 0 .. MaxEvents
        BY RelayAssumption DEF Init
    <2>3. \A c \in Clients, s \in Servers :
             (IF c \in sender_map[s] THEN sender_map[s] \ {c} ELSE {}) \in SUBSET (Clients \ {c})
        BY DEF Init
    <2> QED BY <2>1, <2>2, <2>3 DEF Init, TypeOK
<1> QED BY <1>1, <1>2 DEF RelayIInv, FramesOK, UnicastOnce, BroadcastOnce, BroadcastReaches,
                          Followed

\* The inductive invariant holds in every state: a broadcast on its way still
\* stands for everybody it has not reached, and for nobody twice
\* (send_raw_broadcast, handle_broadcast).
THEOREM RelayInvariant == Spec => []RelayIInv
BY RelayInit, RelayStep, PTL DEF Spec

\* Every variable has its type, and what a server sends to a client is for that
\* client or for everybody (ServerTurnInboundHandler may drop all else).
THEOREM TypeCorrect == Spec => []TypeOK
<1>1. RelayIInv => TypeOK
    BY DEF RelayIInv
<1> QED BY RelayInvariant, <1>1, PTL

\* While nobody comes or goes, no device is given a frame twice, unless it was
\* sent to everybody and the device is on two servers that are not the one the
\* sender takes for the best (send_raw_broadcast).
THEOREM DeliveredAtMostOnce == Spec => []DeliveredOnce
<1>1. ASSUME RelayIInv PROVE DeliveredOnce
    <2> SUFFICES ASSUME sent.listed # None, settled, NEW c \in Clients
                 PROVE  got[c] <= 1 \/ (sent.dest = Everybody /\ OnTwoOthers(c))
        BY DEF DeliveredOnce
    <2>1. CASE sent.dest # Everybody
        BY <1>1, <2>1 DEF RelayIInv, UnicastOnce
    <2>2. CASE sent.dest = Everybody
        BY <1>1, <2>2 DEF RelayIInv, BroadcastOnce, Followed, OnceFor
    <2> QED BY <2>1, <2>2
<1> QED BY RelayInvariant, <1>1, PTL

\* While nobody comes or goes and nothing is lost, a broadcast has reached every
\* client its sender knew of when no frame of it is left: what peers, the best
\* server and the other servers are asked to reach leaves nobody out
\* (ipv4_broadcast_outbound).
THEOREM BroadcastsAreComplete == Spec => []BroadcastIsComplete
<1>1. ASSUME RelayIInv PROVE BroadcastIsComplete
    BY <1>1 DEF RelayIInv, BroadcastReaches, Followed, Complete, BroadcastIsComplete
<1> QED BY RelayInvariant, <1>1, PTL
=============================================================================
