------------------------ MODULE ControlServiceProofs ------------------------
(***************************************************************************)
(* Proofs about ControlService for any networks, clients, requests and     *)
(* subnets: the registry lists one state per network, clients are served   *)
(* by the state that is listed, and what is served is what is configured   *)
(* and stored.                                                             *)
(*                                                                         *)
(* The lock of a network is what everything rests on.  Whoever loads a     *)
(* network holds its lock, and nothing is listed for the network as long   *)
(* as the lock is held (LocksOK): so Insert replaces nothing.  The state   *)
(* it lists has been nobody else's (FreshStates), and was built from the   *)
(* configuration of the moment or is marked as belated                     *)
(* (LoadsConfiguration).  A client that is not exposed is a device of the  *)
(* listed state (Listed), so that nobody finds that state unused.          *)
(***************************************************************************)
EXTENDS ControlService, TLAPS

\* A registration or session knows what its step needs.
SessionOK(s) ==
    /\ s \in Session
    /\ s.pc = "none" => s.state = None
    /\ s.pc # "none" => s.code \in Codes
    /\ s.pc \in {"waiting", "loading"} => s.state = None /\ s.net \in Nets
    /\ s.pc = "loaded" => s.net \in Nets
    /\ s.pc \in {"loaded", "found", "pending", "confirmed"} => s.state \in StateIds

\* A request knows what its step needs.
RequestOK(r) ==
    /\ r \in Request
    /\ r.pc = "idle" => r = NoRequest
    /\ r.pc # "idle" => r.code \in Codes /\ r.op # "none"
    /\ r.op = "add" => r.net \in Nets /\ r.pc \in {"db", "memory"}
    /\ r.op = "update" => r.net # None
    /\ r.op = "delete" => r.net = None
    /\ r.op = "device" => r.pc \in {"memory", "remove", "row"} /\ r.device \in Clients
    /\ r.pc \in {"remove", "row"} => r.op = "device"
    /\ r.pc \in {"memory", "unlist"} => r.net # BadNet

\* The types of what no lock protects.
TablesTyped ==
    /\ db_nets \in [Codes -> Nets \cup {None}]
    /\ stored \in [Codes -> Nets \cup {BadNet, None}]
    /\ rows \in [Codes -> SUBSET Clients]
    /\ events \in 0 .. MaxEvents /\ agreed \in BOOLEAN /\ exposed \subseteq Clients

SessionsTyped == session \in [Clients -> Session] /\ \A c \in Clients : SessionOK(session[c])
RequestsTyped ==
    /\ admin \in [Admins -> Request] /\ \A a \in Admins : RequestOK(admin[a])
    /\ release \in Codes \cup {None}
    /\ sweep \in [state : StateIds \cup {None}, expired : SUBSET Clients]

\* The states that exist are those somebody holds.
StatesHeld ==
    /\ provider \in [Codes -> StateIds \cup {None}]
    /\ states \in [StateIds -> NetworkState \cup {None}]
    /\ \A k \in StateIds : states[k] # None <=> Held(k)

Loads(c) == session[c].pc \in {"loading", "loaded"}

\* While a network is loaded its lock is held and nothing is listed for it.
LocksOK ==
    /\ init_lock \in [Codes -> Clients \cup {None}]
    /\ LockHolderLoads
    /\ \A c \in Clients : Loads(c) => /\ init_lock[session[c].code] = c
                                     /\ provider[session[c].code] = None

\* A state that is loaded and not yet listed is nobody else's.
FreshStates ==
    \A c \in Clients : session[c].pc = "loaded" =>
        /\ \A n \in Codes : provider[n] # session[c].state
        /\ \A d \in Clients : session[d].state = session[c].state => d = c

\* A registration that was not overtaken works with the present configuration.
LoadsConfiguration ==
    \A c \in Clients :
        /\ session[c].pc \in {"waiting", "loading", "loaded"} /\ ~session[c].overtaken
              => session[c].net = db_nets[session[c].code]
        /\ session[c].pc = "loaded" => states[session[c].state].net = session[c].net

\* While requests do not overlap there is one at most, and what it is about to
\* change is as it was when it was asked.
Changes(r) == r.op \in {"add", "update", "delete"}
OneRequest ==
    agreed =>
        /\ \A a, b \in Admins : admin[a] # NoRequest /\ admin[b] # NoRequest => a = b
        /\ \A a \in Admins :
              /\ admin[a].op = "add" => db_nets[admin[a].code] = None
              /\ admin[a].op = "update" /\ admin[a].pc \in {"has_devices", "count", "db"}
                    => db_nets[admin[a].code] # None
              /\ Changes(admin[a]) /\ admin[a].pc = "memory"
                    => stored[admin[a].code] = admin[a].net

\* StoredIsServed, without the requests that only delete a device.
StoredAgrees ==
    agreed => \A n \in Codes :
        \/ stored[n] \in {db_nets[n], BadNet}
        \/ \E a \in Admins : /\ admin[a].code = n /\ admin[a].pc = "memory"
                             /\ Changes(admin[a])

\* The inductive invariants: of the registry, and of the configurations.
RegistryIInv ==
    TablesTyped /\ SessionsTyped /\ RequestsTyped /\ StatesHeld /\ LocksOK
ConfigIInv ==
    FreshStates /\ LoadsConfiguration /\ OneRequest /\ StoredAgrees /\ ListedHasConfig

-----------------------------------------------------------------------------
(* Types of the sessions.                                                  *)

\* A step that changes the session of one client.
SessionBecomes(c, s) == session' = [session EXCEPT ![c] = s]

\* A session that is well-formed keeps all well-formed.
LEMMA SessionBecomesKeeps ==
    ASSUME SessionsTyped, NEW c \in Clients, NEW s, SessionOK(s), SessionBecomes(c, s)
    PROVE  SessionsTyped'
BY DEF SessionsTyped, SessionBecomes, SessionOK

\* get finds a state that is listed.
LEMMA FoundIsOK ==
    ASSUME NEW n \in Codes, NEW k \in StateIds
    PROVE  SessionOK([NoSession EXCEPT !.pc = "found", !.code = n, !.state = k])
BY NoneAssumption DEF SessionOK, NoSession, Session, Registering

\* Every step of a registration or session gives its client a session.
LEMMA ClientStepSession ==
    ASSUME RegistryIInv, NEW c \in Clients, ClientStep(c)
    PROVE  \E s : SessionOK(s) /\ SessionBecomes(c, s)
<1> USE DEF SessionBecomes
<1>0. /\ SessionOK(session[c]) /\ session \in [Clients -> Session]
      /\ provider \in [Codes -> StateIds \cup {None}]
      /\ db_nets \in [Codes -> Nets \cup {None}]
    BY DEF RegistryIInv, SessionsTyped, StatesHeld, TablesTyped
<1>a. ASSUME NEW n \in Codes, Found(c, n)
      PROVE  \E s : SessionOK(s) /\ SessionBecomes(c, s)
    BY <1>0, <1>a, FoundIsOK DEF Found
<1>1. ASSUME NEW n \in Codes, register(c, n)
      PROVE  \E s : SessionOK(s) /\ SessionBecomes(c, s)
    <2>1. CASE Found(c, n)
        BY <2>1, <1>a
    <2>2. CASE ~Found(c, n)
        <3> DEFINE s == [NoSession EXCEPT !.pc = "waiting", !.code = n, !.net = db_nets[n]]
        <3>1. session' = [session EXCEPT ![c] = s] /\ db_nets[n] \in Nets
            BY <1>0, <1>1, <2>2 DEF register
        <3>2. SessionOK(s)
            BY <3>1, NoneAssumption DEF SessionOK, NoSession, Session, Registering
        <3> QED BY <3>1, <3>2
    <2> QED BY <2>1, <2>2
<1>2. CASE Lock(c)
    <2>1. CASE Found(c, session[c].code)
        BY <2>1, <1>2, <1>a, <1>0 DEF Lock, SessionOK
    <2>2. CASE ~Found(c, session[c].code)
        <3> DEFINE s == [session[c] EXCEPT !.pc = "loading"]
        <3>1. session' = [session EXCEPT ![c] = s]
            BY <1>0, <1>2, <2>2 DEF Lock
        <3>2. SessionOK(s)
            BY <1>0, <1>2 DEF Lock, SessionOK, Session, Registering
        <3> QED BY <3>1, <3>2
    <2> QED BY <2>1, <2>2
<1>3. CASE Load(c)
    <2>1. PICK k \in StateIds :
             session' = [session EXCEPT ![c].pc = "loaded", ![c].state = k]
        BY <1>3 DEF Load
    <2> DEFINE s == [session[c] EXCEPT !.pc = "loaded", !.state = k]
    <2>2. session' = [session EXCEPT ![c] = s]
        BY <2>1, <1>0
    <2>3. SessionOK(s)
        BY <1>0, <1>3 DEF Load, SessionOK, Session, Registering
    <2> QED BY <2>2, <2>3
<1>4. CASE Insert(c)
    BY <1>0, <1>4, FoundIsOK DEF Insert, SessionOK
<1>5. CASE Allocate(c)
    <2>1. PICK pc \in {"confirmed", "pending"} : session' = [session EXCEPT ![c].pc = pc]
        BY <1>5 DEF Allocate
    <2> DEFINE s == [session[c] EXCEPT !.pc = pc]
    <2>2. session' = [session EXCEPT ![c] = s]
        BY <2>1, <1>0
    <2>3. SessionOK(s)
        BY <1>0, <1>5 DEF Allocate, SessionOK, Session, Registering
    <2> QED BY <2>2, <2>3
<1>6. CASE Refused(c) \/ Drop(c)
    <2>1. session' = [session EXCEPT ![c] = NoSession]
        BY <1>6 DEF Refused, Drop
    <2>2. SessionOK(NoSession)
        BY DEF SessionOK, NoSession, Session, Registering
    <2> QED BY <2>1, <2>2
<1>7. CASE ConfirmReg(c)
    <2> DEFINE s == [session[c] EXCEPT !.pc = "confirmed"]
    <2>1. session' = [session EXCEPT ![c] = s]
        BY <1>0, <1>7 DEF ConfirmReg
    <2>2. SessionOK(s)
        BY <1>0, <1>7 DEF ConfirmReg, SessionOK, Session, Registering
    <2> QED BY <2>1, <2>2
<1> QED BY <1>1, <1>2, <1>3, <1>4, <1>5, <1>6, <1>7 DEF ClientStep

-----------------------------------------------------------------------------
(* Types of the requests.                                                  *)

RequestBecomes(a, r) == admin' = [admin EXCEPT ![a] = r]

\* A request that has not started or has ended.
LEMMA NoRequestIsOK == RequestOK(NoRequest)
BY DEF RequestOK, NoRequest, Request

\* Every step of the administrator gives its request a well-formed one.
LEMMA AdminStepRequest ==
    ASSUME RegistryIInv, NEW a \in Admins, AdminStep(a)
    PROVE  \E r : RequestOK(r) /\ RequestBecomes(a, r)
<1> USE DEF RequestBecomes
<1>0. /\ RequestOK(admin[a]) /\ admin \in [Admins -> Request]
      /\ provider \in [Codes -> StateIds \cup {None}]
      /\ states \in [StateIds -> NetworkState \cup {None}]
      /\ \A k \in StateIds : states[k] # None <=> Held(k)
    BY DEF RegistryIInv, RequestsTyped, StatesHeld
<1>a. ASSUME Ends(a) PROVE \E r : RequestOK(r) /\ RequestBecomes(a, r)
    BY <1>a, NoRequestIsOK DEF Ends
<1>b. ASSUME NEW pc, Goes(a, pc), RequestOK([admin[a] EXCEPT !.pc = pc])
      PROVE  \E r : RequestOK(r) /\ RequestBecomes(a, r)
    BY <1>0, <1>b DEF Goes
<1>1. ASSUME NEW n \in Codes,
             \/ add_network(a, n) \/ update_network(a, n)
             \/ delete_network(a, n) \/ delete_device(a, n)
      PROVE  \E r : RequestOK(r) /\ RequestBecomes(a, r)
    <2>1. CASE add_network(a, n)
        <3>1. PICK net \in Nets : admin' = [admin EXCEPT ![a] =
                 [NoRequest EXCEPT !.op = "add", !.pc = "db", !.code = n, !.net = net]]
            BY <2>1 DEF add_network, Ask
        <3>2. RequestOK([NoRequest EXCEPT !.op = "add", !.pc = "db", !.code = n, !.net = net])
            BY DEF RequestOK, NoRequest, Request
        <3> QED BY <3>1, <3>2
    <2>2. CASE update_network(a, n)
        <3>1. PICK net \in Nets \cup {BadNet} : admin' = [admin EXCEPT ![a] =
                 [NoRequest EXCEPT !.op = "update", !.pc = "has_devices",
                                   !.code = n, !.net = net]]
            BY <2>2 DEF update_network, Ask
        <3>2. RequestOK([NoRequest EXCEPT !.op = "update", !.pc = "has_devices",
                                          !.code = n, !.net = net])
            BY NoneAssumption DEF RequestOK, NoRequest, Request
        <3> QED BY <3>1, <3>2
    <2>3. CASE delete_network(a, n)
        <3>1. RequestOK([NoRequest EXCEPT !.op = "delete", !.pc = "has_devices", !.code = n])
            BY DEF RequestOK, NoRequest, Request
        <3> QED BY <2>3, <3>1 DEF delete_network, Ask
    <2>4. CASE delete_device(a, n)
        <3>1. PICK d \in Clients : admin' = [admin EXCEPT ![a] =
                 [NoRequest EXCEPT !.op = "device", !.pc = "memory", !.code = n, !.device = d]]
            BY <2>4 DEF delete_device, Ask
        <3>2. RequestOK([NoRequest EXCEPT !.op = "device", !.pc = "memory",
                                          !.code = n, !.device = d])
            BY NoneAssumption DEF RequestOK, NoRequest, Request
        <3> QED BY <3>1, <3>2
    <2> QED BY <1>1, <2>1, <2>2, <2>3, <2>4
<1>2. CASE HasDevices(a)
    <2>1. CASE Ends(a)
        BY <2>1, <1>a
    <2>2. CASE ~Ends(a)
        <3>1. RequestOK([admin[a] EXCEPT !.pc = "count"])
            BY <1>0, <1>2 DEF HasDevices, RequestOK, Request
        <3> QED BY <1>2, <2>2, <3>1, <1>b DEF HasDevices
    <2> QED BY <2>1, <2>2
<1>3. CASE Count(a)
    <2>1. CASE Ends(a)
        BY <2>1, <1>a
    <2>2. CASE ~Ends(a)
        <3>1. RequestOK([admin[a] EXCEPT !.pc = "db"])
            BY <1>0, <1>3 DEF Count, RequestOK, Request
        <3> QED BY <1>3, <2>2, <3>1, <1>b DEF Count
    <2> QED BY <2>1, <2>2
<1>4. CASE Store(a)
    <2>1. CASE Ends(a)
        BY <2>1, <1>a
    <2>2. CASE ~Ends(a)
        <3>1. Goes(a, "memory") /\ admin[a].net # BadNet
            BY <1>4, <2>2 DEF Store
        <3>2. RequestOK([admin[a] EXCEPT !.pc = "memory"])
            BY <1>0, <1>4, <3>1 DEF Store, RequestOK, Request
        <3> QED BY <3>1, <3>2, <1>b
    <2> QED BY <2>1, <2>2
<1>5. CASE Memory(a)
    <2>1. CASE admin[a].op = "add"
        BY <2>1, <1>5, <1>a DEF Memory
    <2>2. CASE admin[a].op # "add"
        <3>1. RequestOK([admin[a] EXCEPT !.pc = "unlist"])
            BY <1>0, <1>5, <2>2 DEF Memory, RequestOK, Request
        <3> QED BY <1>5, <2>2, <3>1, <1>b DEF Memory
    <2> QED BY <2>1, <2>2
<1>6. CASE Unlist(a) \/ DeleteRow(a)
    BY <1>6, <1>a DEF Unlist, DeleteRow
<1>7. CASE DeleteDevice(a)
    <2>1. CASE Ends(a)
        BY <2>1, <1>a
    <2>2. CASE ~Ends(a)
        <3>1. PICK pc \in {"remove", "row"} : Goes(a, pc)
            BY <1>7, <2>2 DEF DeleteDevice
        <3>2. RequestOK([admin[a] EXCEPT !.pc = pc])
            BY <1>0, <1>7, <3>1 DEF DeleteDevice, RequestOK, Request
        <3> QED BY <3>1, <3>2, <1>b
    <2> QED BY <2>1, <2>2
<1>8. CASE RemoveDevice(a)
    <2>1. Goes(a, "row")
        BY <1>8 DEF RemoveDevice
    <2>2. RequestOK([admin[a] EXCEPT !.pc = "row"])
        BY <1>0, <1>8 DEF RemoveDevice, RequestOK, Request
    <2> QED BY <2>1, <2>2, <1>b
<1> QED BY <1>1, <1>2, <1>3, <1>4, <1>5, <1>6, <1>7, <1>8 DEF AdminStep

\* What the sessions, requests and locks of the start are.
LEMMA InitRegistry == Init => RegistryIInv
<1> SUFFICES ASSUME Init PROVE RegistryIInv
    OBVIOUS
<1> USE DEF Init
<1>1. TablesTyped
    BY ConfigAssumption DEF TablesTyped, build_networks_from_config
<1>2. SessionsTyped
    BY DEF SessionsTyped, SessionOK, NoSession, Session, Registering
<1>3. RequestsTyped
    BY NoRequestIsOK DEF RequestsTyped, RequestOK, NoSweep
<1>4. StatesHeld
    BY NoneAssumption DEF StatesHeld, Held, NoSession, NoSweep
<1>5. LocksOK
    BY DEF LocksOK, LockHolderLoads, Loads, NoSession
<1> QED BY <1>1, <1>2, <1>3, <1>4, <1>5 DEF RegistryIInv

\* Being overtaken does not change what a session knows.
LEMMA OvertakeKeeps ==
    ASSUME SessionsTyped, NEW n, Overtake(n)
    PROVE  SessionsTyped'
<1>1. ASSUME NEW c \in Clients PROVE SessionOK(session'[c])
    <2>1. CASE session[c].pc \in Registering /\ session[c].code = n
        <3>1. session'[c] = [session[c] EXCEPT !.overtaken = TRUE]
            BY <2>1 DEF Overtake
        <3> QED BY <3>1 DEF SessionsTyped, SessionOK, Session
    <2>2. CASE ~(session[c].pc \in Registering /\ session[c].code = n)
        <3>1. session'[c] = session[c]
            BY <2>2 DEF Overtake
        <3> QED BY <3>1 DEF SessionsTyped
    <2> QED BY <2>1, <2>2
<1>2. session' = [c \in Clients |-> session'[c]]
    BY DEF Overtake
<1> QED BY <1>1, <1>2 DEF SessionsTyped, SessionOK

\* A session that is overtaken is otherwise as it was.
LEMMA OvertakeSame ==
    ASSUME SessionsTyped, NEW n, Overtake(n), NEW c \in Clients
    PROVE  /\ session'[c].pc = session[c].pc /\ session'[c].code = session[c].code
           /\ session'[c].state = session[c].state /\ session'[c].net = session[c].net
BY DEF SessionsTyped, Session, Overtake

\* Which steps leave all sessions, or all requests, alone.
LEMMA OtherSteps ==
    /\ CleanupStep => UNCHANGED <<db_nets, stored, rows, init_lock, session, admin,
                                  agreed>>
    /\ \A c \in Clients : ClientStep(c) => UNCHANGED <<db_nets, stored, admin, sweep,
                                                       release, events, agreed>>
    /\ \A a \in Admins : AdminStep(a) =>
          /\ UNCHANGED <<init_lock, sweep, release>>
          /\ Memory(a) \/ UNCHANGED <<db_nets, session>>
          /\ Unlist(a) \/ UNCHANGED provider
<1>1. CleanupStep => UNCHANGED <<db_nets, stored, rows, init_lock, session, admin,
                                 agreed>>
    BY DEF CleanupStep, CollectExpired, RemoveExpired, BecomeStale, ReleaseCheck,
       ReleaseRemove
<1>2. ASSUME NEW c \in Clients, ClientStep(c)
      PROVE  UNCHANGED <<db_nets, stored, admin, sweep, release, events, agreed>>
    BY <1>2 DEF ClientStep, Found, register, Lock, Load, Insert, Allocate, Refused,
       ConfirmReg, Drop
<1>3. ASSUME NEW a \in Admins, AdminStep(a)
      PROVE  /\ UNCHANGED <<init_lock, sweep, release>>
             /\ Memory(a) \/ UNCHANGED <<db_nets, session>>
             /\ Unlist(a) \/ UNCHANGED provider
    BY <1>3 DEF AdminStep, add_network, update_network, delete_network, delete_device,
       Ask, HasDevices, Count, Store, Memory, Unlist, DeleteDevice, RemoveDevice, DeleteRow
<1> QED BY <1>1, <1>2, <1>3

\* Every step keeps the sessions well-formed.
LEMMA SessionsKept ==
    ASSUME RegistryIInv, [Next]_vars
    PROVE  SessionsTyped'
<1>0. SessionsTyped
    BY DEF RegistryIInv
<1>1. ASSUME NEW c \in Clients, ClientStep(c) PROVE SessionsTyped'
    BY <1>0, <1>1, ClientStepSession, SessionBecomesKeeps
<1>2. ASSUME NEW a \in Admins, AdminStep(a) PROVE SessionsTyped'
    <2>1. CASE Memory(a)
        BY <2>1, <1>0, OvertakeKeeps DEF Memory
    <2>2. CASE UNCHANGED session
        BY <2>2, <1>0 DEF SessionsTyped
    <2> QED BY <1>2, <2>1, <2>2, OtherSteps
<1>3. CASE Restart
    BY <1>3 DEF Restart, SessionsTyped, SessionOK, NoSession, Session, Registering
<1>4. CASE CleanupStep \/ UNCHANGED vars
    BY <1>0, <1>4, OtherSteps DEF SessionsTyped, vars
<1> QED BY <1>1, <1>2, <1>3, <1>4 DEF Next

\* Every step keeps the requests and the release well-formed.
LEMMA RequestsKept ==
    ASSUME RegistryIInv, [Next]_vars
    PROVE  RequestsTyped'
<1>0. RequestsTyped /\ StatesHeld
    BY DEF RegistryIInv
<1>1. ASSUME NEW a \in Admins, AdminStep(a) PROVE RequestsTyped'
    <2>1. PICK r : RequestOK(r) /\ RequestBecomes(a, r)
        BY <1>1, AdminStepRequest
    <2>2. UNCHANGED <<sweep, release>>
        BY <1>1, OtherSteps
    <2> QED BY <1>0, <2>1, <2>2 DEF RequestsTyped, RequestBecomes, RequestOK
<1>2. CASE CleanupStep
    <2>1. UNCHANGED admin
        BY <1>2, OtherSteps
    <2>2. /\ release' \in Codes \cup {None}
          /\ sweep' \in [state : StateIds \cup {None}, expired : SUBSET Clients]
        <3>1. ASSUME NEW n \in Codes, CollectExpired(n)
              PROVE  /\ UNCHANGED release
                     /\ sweep' \in [state : StateIds \cup {None}, expired : SUBSET Clients]
            <4>1. provider[n] \in StateIds /\ states[provider[n]] \in NetworkState
                BY <1>0, <3>1 DEF CollectExpired, StatesHeld, Held
            <4>2. states[provider[n]].devices \subseteq Clients
                BY <4>1 DEF NetworkState
            <4> QED BY <3>1, <4>1, <4>2 DEF CollectExpired
        <3>2. CASE RemoveExpired \/ ReleaseRemove
            BY <1>0, <3>2 DEF RemoveExpired, ReleaseRemove, RequestsTyped, NoSweep
        <3>3. ASSUME NEW n \in Codes, BecomeStale(n) \/ ReleaseCheck(n)
              PROVE  UNCHANGED sweep /\ release' \in {release, n}
            BY <3>3 DEF ReleaseCheck, BecomeStale
        <3> QED BY <1>0, <1>2, <3>1, <3>2, <3>3 DEF CleanupStep, RequestsTyped
    <2> QED BY <1>0, <2>1, <2>2 DEF RequestsTyped
<1>3. CASE Restart
    BY <1>3, NoRequestIsOK DEF Restart, RequestsTyped, RequestOK, NoSweep
<1>4. ASSUME UNCHANGED <<admin, sweep, release>> PROVE RequestsTyped'
    BY <1>0, <1>4 DEF RequestsTyped
<1> QED BY <1>1, <1>2, <1>3, <1>4, OtherSteps DEF Next, vars

\* Only clients are exposed.
LEMMA ExposedKept ==
    ASSUME RegistryIInv, [Next]_vars
    PROVE  exposed' \subseteq Clients
<1>0. exposed \subseteq Clients /\ RequestsTyped
    BY DEF RegistryIInv, TablesTyped
<1>1. ASSUME NEW c \in Clients, ClientStep(c) PROVE exposed' \subseteq Clients
    BY <1>0, <1>1 DEF ClientStep, register, Lock, Load, Insert, Allocate, Refused,
       ConfirmReg, Drop
<1>2. CASE CleanupStep
    <2>1. sweep.expired \subseteq Clients
        BY <1>0 DEF RequestsTyped
    <2>2. CASE RemoveExpired
        BY <1>0, <2>1, <2>2 DEF RemoveExpired
    <2>3. ASSUME NEW n \in Codes, CollectExpired(n) \/ BecomeStale(n) \/ ReleaseCheck(n)
          PROVE  exposed' \subseteq Clients
        BY <1>0, <2>3 DEF CollectExpired, BecomeStale, ReleaseCheck, Underway
    <2> QED BY <1>0, <1>2, <2>2, <2>3 DEF CleanupStep, ReleaseRemove
<1>3. ASSUME NEW a \in Admins, AdminStep(a) PROVE exposed' \subseteq Clients
    <2>1. CASE RemoveDevice(a)
        <3>1. admin[a].device \in Clients
            BY <1>0, <2>1 DEF RequestsTyped, RequestOK, RemoveDevice
        <3> QED BY <1>0, <2>1, <3>1 DEF RemoveDevice
    <2>2. CASE ~RemoveDevice(a)
        BY <1>0, <1>3, <2>2 DEF AdminStep, add_network, update_network, delete_network,
           delete_device, Ask, HasDevices, Count, Store, Memory, Unlist, DeleteDevice,
           DeleteRow, Underway
    <2> QED BY <2>1, <2>2
<1>4. CASE Restart \/ UNCHANGED vars
    BY <1>0, <1>4 DEF Restart, vars
<1> QED BY <1>1, <1>2, <1>3, <1>4 DEF Next

\* Every step keeps the types of the tables and of the configuration.
LEMMA TablesKept ==
    ASSUME RegistryIInv, [Next]_vars
    PROVE  TablesTyped'
<1>0. TablesTyped /\ SessionsTyped /\ RequestsTyped
    BY DEF RegistryIInv
<1>1. ASSUME NEW c \in Clients, ClientStep(c) PROVE TablesTyped'
    <2>1. UNCHANGED <<db_nets, stored, events, agreed>>
        BY <1>1, OtherSteps
    <2>2. rows' \in [Codes -> SUBSET Clients]
        <3>1. UNCHANGED rows \/ SaveDevice(session[c].code, c) \/ ConfirmReg(c)
            BY <1>1 DEF ClientStep, register, Lock, Load, Insert, Allocate, Refused, Drop
        <3>2. CASE ConfirmReg(c)
            <4>1. {c} \cap states[session[c].state].devices \subseteq Clients
                OBVIOUS
            <4> QED BY <1>0, <3>2, <4>1 DEF ConfirmReg, TablesTyped
        <3> QED BY <1>0, <3>1, <3>2 DEF SaveDevice, TablesTyped
    <2>3. exposed' \subseteq Clients
        BY <1>1, ExposedKept DEF Next
    <2> QED BY <1>0, <2>1, <2>2, <2>3 DEF TablesTyped
<1>2. ASSUME NEW a \in Admins, AdminStep(a) PROVE TablesTyped'
    <2>0. RequestOK(admin[a]) /\ exposed' \subseteq Clients
        BY <1>0, <1>2, ExposedKept DEF RequestsTyped
    <2>1. ASSUME NEW n \in Codes,
                 \/ add_network(a, n) \/ update_network(a, n)
                 \/ delete_network(a, n) \/ delete_device(a, n)
          PROVE  TablesTyped'
        <3>1. \E r : Ask(a, r)
            BY <2>1 DEF add_network, update_network, delete_network, delete_device
        <3> QED BY <1>0, <2>0, <3>1, ConfigAssumption DEF TablesTyped, Ask
    <2>2. CASE Store(a)
        <3> DEFINE n == admin[a].code
        <3>1. /\ n \in Codes /\ admin[a].op \in {"add", "update", "delete"}
              /\ admin[a].op # "delete" => admin[a].net \in Nets \cup {BadNet}
            BY <2>0, <2>2 DEF Store, RequestOK, Request
        <3>2. UNCHANGED stored \/ \E net \in Nets \cup {BadNet, None} :
                 stored' = [stored EXCEPT ![n] = net]
            <4>1. CASE admin[a].op = "add"
                BY <4>1, <2>2, <3>1 DEF Store
            <4>2. CASE admin[a].op = "update"
                BY <4>2, <2>2, <3>1 DEF Store
            <4>3. CASE admin[a].op = "delete"
                BY <4>3, <2>2, <3>1 DEF Store
            <4> QED BY <3>1, <4>1, <4>2, <4>3
        <3> QED BY <1>0, <2>0, <2>2, <3>1, <3>2 DEF TablesTyped, Store
    <2>3. CASE Memory(a)
        <3>1. admin[a].code \in Codes /\ admin[a].net \in Nets \cup {None}
            BY <2>0, <2>3 DEF Memory, RequestOK, Request
        <3> QED BY <1>0, <2>0, <2>3, <3>1 DEF TablesTyped, Memory
    <2>4. CASE DeleteRow(a)
        BY <1>0, <2>0, <2>4 DEF TablesTyped, DeleteRow
    <2>5. CASE HasDevices(a) \/ Count(a) \/ Unlist(a) \/ DeleteDevice(a) \/ RemoveDevice(a)
        BY <1>0, <2>0, <2>5
           DEF TablesTyped, HasDevices, Count, Unlist, DeleteDevice, RemoveDevice
    <2> QED BY <1>2, <2>1, <2>2, <2>3, <2>4, <2>5 DEF AdminStep
<1>3. CASE Restart
    <2>1. ASSUME NEW codes \in SUBSET Codes
          PROVE  Seeded(codes) \in [Codes -> Nets \cup {BadNet, None}]
        BY <1>0, ConfigAssumption DEF TablesTyped, Seeded
    <2>2. ASSUME NEW table \in [Codes -> Nets \cup {BadNet, None}]
          PROVE  Managed(table) \in [Codes -> Nets \cup {None}]
        BY <2>2 DEF Managed
    <2>3. stored' \in [Codes -> Nets \cup {BadNet, None}]
        BY <1>0, <1>3, <2>1 DEF Restart, TablesTyped
    <2>4. db_nets' \in {Managed(stored'), ConfigNets} /\ agreed' \in BOOLEAN
        BY <1>3 DEF Restart, build_networks_from_config
    <2>5. rows' = rows /\ events' \in 0 .. MaxEvents /\ exposed' = {}
        BY <1>0, <1>3, ConfigAssumption DEF Restart, TablesTyped
    <2> QED BY <1>0, <2>2, <2>3, <2>4, <2>5, ConfigAssumption DEF TablesTyped
<1>4. CASE CleanupStep
    <2>1. UNCHANGED events \/ (events < MaxEvents /\ events' = events + 1)
        BY <1>4 DEF CleanupStep, CollectExpired, RemoveExpired, BecomeStale,
           ReleaseCheck, ReleaseRemove
    <2>2. events' \in 0 .. MaxEvents
        BY <1>0, <2>1, ConfigAssumption DEF TablesTyped
    <2>3. UNCHANGED <<db_nets, stored, rows, agreed>> /\ exposed' \subseteq Clients
        BY <1>4, OtherSteps, ExposedKept DEF Next
    <2> QED BY <1>0, <2>2, <2>3 DEF TablesTyped
<1>5. CASE UNCHANGED vars
    BY <1>0, <1>5 DEF TablesTyped, vars
<1> QED BY <1>1, <1>2, <1>3, <1>4, <1>5 DEF Next

-----------------------------------------------------------------------------
(* The states that exist and who holds them.                               *)

\* A step that moves no Arc and only changes states that exist.
LEMMA SameArcs ==
    ASSUME StatesHeld, UNCHANGED <<provider, sweep>>,
           \A c \in Clients : session'[c].state = session[c].state,
           states' \in [StateIds -> NetworkState \cup {None}],
           \A k \in StateIds : states'[k] # None <=> states[k] # None
    PROVE  StatesHeld'
BY DEF StatesHeld, Held

\* A step that moves Arcs: only what is held has to exist.
LEMMA ArcsMove ==
    ASSUME NEW f, StatesBecome(f),
           provider' \in [Codes -> StateIds \cup {None}],
           \A k \in StateIds : Held(k)' => f[k] \in NetworkState
    PROVE  StatesHeld'
<1>1. \A k \in StateIds : states'[k] = IF Held(k)' THEN f[k] ELSE None
    BY DEF StatesBecome
<1>2. states' \in [StateIds -> NetworkState \cup {None}]
    BY <1>1 DEF StatesBecome
<1>3. \A k \in StateIds : (states[k] # None <=> Held(k))'
    BY <1>1, NoneAssumption
<1> QED BY <1>2, <1>3 DEF StatesHeld

\* get: the listed state is shared with one client more.
LEMMA FoundKeeps ==
    ASSUME RegistryIInv, NEW c \in Clients, NEW n \in Codes, Found(c, n)
    PROVE  StatesHeld'
<1> DEFINE k == provider[n]
           f == [states EXCEPT ![k].stale = FALSE]
<1>0. StatesHeld /\ session \in [Clients -> Session]
    BY DEF RegistryIInv, SessionsTyped
<1>1. k \in StateIds /\ UNCHANGED <<provider, sweep>> /\ StatesBecome(f)
    BY <1>0 DEF Found, StatesHeld
<1>2. \A d \in Clients : session'[d].state \in {session[d].state, k}
    BY <1>0, <1>1 DEF Found, NoSession
<1>3. \A j \in StateIds : Held(j)' => states[j] \in NetworkState
    BY <1>0, <1>1, <1>2 DEF Held, StatesHeld
<1>4. \A j \in StateIds : Held(j)' => f[j] \in NetworkState
    BY <1>0, <1>1, <1>3 DEF StatesHeld, NetworkState
<1> QED BY <1>0, <1>1, <1>4, ArcsMove DEF StatesHeld

\* A step of a registration or session keeps the states that are held.
LEMMA ClientStepStates ==
    ASSUME RegistryIInv, NEW c \in Clients, ClientStep(c)
    PROVE  StatesHeld'
<1>0. /\ StatesHeld /\ session \in [Clients -> Session]
      /\ \A d \in Clients : SessionOK(session[d])
    BY DEF RegistryIInv, SessionsTyped
<1>a. ASSUME NEW j \in StateIds, Held(j) PROVE states[j] \in NetworkState
    BY <1>0, <1>a DEF StatesHeld
<1>1. ASSUME NEW n \in Codes, register(c, n) PROVE StatesHeld'
    <2>1. CASE ~Found(c, n)
        <3>1. /\ UNCHANGED <<provider, states, sweep>>
              /\ \A d \in Clients : session'[d].state = session[d].state
            BY <1>0, <1>1, <2>1 DEF register, NoSession, SessionOK
        <3> QED BY <1>0, <3>1, SameArcs DEF StatesHeld
    <2> QED BY <2>1, FoundKeeps
<1>2. CASE Lock(c)
    <2>1. CASE ~Found(c, session[c].code)
        <3>1. /\ UNCHANGED <<provider, states, sweep>>
              /\ \A d \in Clients : session'[d].state = session[d].state
            BY <1>0, <1>2, <2>1 DEF Lock, Session
        <3> QED BY <1>0, <3>1, SameArcs DEF StatesHeld
    <2> QED BY <1>0, <1>2, <2>1, FoundKeeps DEF Lock, SessionOK
<1>3. CASE Load(c)
    <2>1. PICK devices \in {rows[session[c].code], {}}, k \in StateIds :
             /\ states[k] = None
             /\ session' = [session EXCEPT ![c].pc = "loaded", ![c].state = k]
             /\ StatesBecome([states EXCEPT ![k] =
                   [net |-> session[c].net, devices |-> devices, stray |-> FALSE,
                    stale |-> FALSE, belated |-> FALSE]])
        BY <1>3 DEF Load
    <2> DEFINE new == [net |-> session[c].net, devices |-> devices, stray |-> FALSE,
                       stale |-> FALSE, belated |-> FALSE]
               f == [states EXCEPT ![k] = new]
    <2>2. UNCHANGED <<provider, sweep>>
        BY <1>3 DEF Load
    <2>3. new \in NetworkState
        <3>1. session[c].code \in Codes /\ session[c].net \in Nets
            BY <1>0, <1>3 DEF Load, SessionOK
        <3>2. devices \in SUBSET Clients
            BY <3>1 DEF RegistryIInv, TablesTyped
        <3> QED BY <3>1, <3>2 DEF NetworkState
    <2>4. \A d \in Clients : session'[d].state \in {session[d].state, k}
        BY <1>0, <2>1 DEF Session
    <2>5. \A j \in StateIds : Held(j)' => f[j] \in NetworkState
        BY <1>0, <1>a, <2>2, <2>3, <2>4 DEF Held, StatesHeld
    <2> QED BY <1>0, <2>1, <2>2, <2>5, ArcsMove DEF StatesHeld
<1>4. CASE Insert(c)
    <2> DEFINE k == session[c].state
               f == [states EXCEPT ![k].belated = session[c].overtaken]
    <2>1. /\ k \in StateIds /\ session[c].code \in Codes
          /\ session[c].overtaken \in BOOLEAN
        BY <1>0, <1>4 DEF Insert, SessionOK, Session
    <2>2. /\ provider' = [provider EXCEPT ![session[c].code] = k]
          /\ UNCHANGED sweep /\ StatesBecome(f)
        BY <1>4 DEF Insert
    <2>3. \A d \in Clients : session'[d].state = session[d].state
        BY <1>0, <1>4 DEF Insert, NoSession
    <2>4. \A j \in StateIds : Held(j)' => Held(j)
        BY <1>0, <2>1, <2>2, <2>3 DEF Held, StatesHeld
    <2>5. \A j \in StateIds : Held(j)' => f[j] \in NetworkState
        BY <1>0, <1>a, <2>1, <2>4 DEF NetworkState, StatesHeld
    <2>6. provider' \in [Codes -> StateIds \cup {None}]
        BY <1>0, <2>1, <2>2 DEF StatesHeld
    <2> QED BY <2>2, <2>5, <2>6, ArcsMove
<1>5. CASE Allocate(c)
    <2> DEFINE k == session[c].state
    <2>1. k \in StateIds /\ Held(k)
        BY <1>0, <1>5 DEF Allocate, SessionOK, Held
    <2>2. /\ UNCHANGED <<provider, sweep>>
          /\ \A d \in Clients : session'[d].state = session[d].state
        BY <1>0, <1>5 DEF Allocate, Session
    <2>3. PICK stray \in {states[k].stray, FALSE} :
             states' = [states EXCEPT ![k].devices = @ \cup {c}, ![k].stray = stray]
        BY <1>5 DEF Allocate
    <2>4. states[k] \in NetworkState /\ states \in [StateIds -> NetworkState \cup {None}]
        BY <1>0, <1>a, <2>1 DEF StatesHeld
    <2> DEFINE s == [states[k] EXCEPT !.devices = @ \cup {c}, !.stray = stray]
    <2>5. s \in NetworkState /\ states' = [states EXCEPT ![k] = s]
        BY <2>1, <2>3, <2>4 DEF NetworkState
    <2>6. /\ states' \in [StateIds -> NetworkState \cup {None}]
          /\ \A j \in StateIds : states'[j] # None <=> states[j] # None
        BY <2>1, <2>4, <2>5, NoneAssumption
    <2> QED BY <1>0, <2>2, <2>6, SameArcs
<1>6. CASE Refused(c)
    <2>1. UNCHANGED <<provider, sweep>> /\ StatesBecome(states)
        BY <1>6 DEF Refused
    <2>2. \A d \in Clients : session'[d].state \in {session[d].state, None}
        BY <1>0, <1>6 DEF Refused, NoSession
    <2>3. \A j \in StateIds : Held(j)' => states[j] \in NetworkState
        BY <1>a, <2>1, <2>2, NoneAssumption DEF Held
    <2> QED BY <1>0, <2>1, <2>3, ArcsMove DEF StatesHeld
<1>7. CASE ConfirmReg(c)
    <2>1. /\ UNCHANGED <<provider, states, sweep>>
          /\ \A d \in Clients : session'[d].state = session[d].state
        BY <1>0, <1>7 DEF ConfirmReg, Session
    <2> QED BY <1>0, <2>1, SameArcs DEF StatesHeld
<1>8. CASE Drop(c)
    <2> DEFINE k == session[c].state
               f == [states EXCEPT ![k].devices = @ \ {c}]
    <2>1. UNCHANGED <<provider, sweep>> /\ (StatesBecome(states) \/ StatesBecome(f))
        BY <1>8 DEF Drop
    <2>2. \A d \in Clients : session'[d].state \in {session[d].state, None}
        BY <1>0, <1>8 DEF Drop, NoSession
    <2>3. \A j \in StateIds : Held(j)' => states[j] \in NetworkState
        BY <1>a, <2>1, <2>2, NoneAssumption DEF Held
    <2>4. \A j \in StateIds : Held(j)' => f[j] \in NetworkState
        BY <1>0, <2>3 DEF StatesHeld, NetworkState
    <2> QED BY <1>0, <2>1, <2>3, <2>4, ArcsMove DEF StatesHeld
<1> QED BY <1>1, <1>2, <1>3, <1>4, <1>5, <1>6, <1>7, <1>8 DEF ClientStep

\* A state that exists gets other devices or another age.
LEMMA StateChanges ==
    ASSUME StatesHeld, UNCHANGED <<provider, session, sweep>>, NEW k \in StateIds, Held(k),
           NEW s \in NetworkState, states' = [states EXCEPT ![k] = s]
    PROVE  StatesHeld'
<1>1. /\ states' \in [StateIds -> NetworkState \cup {None}]
      /\ \A j \in StateIds : states'[j] # None <=> states[j] # None
    BY NoneAssumption DEF StatesHeld
<1> QED BY <1>1, SameArcs

\* A listed state is taken from the registry.
LEMMA UnlistedKeeps ==
    ASSUME StatesHeld, NEW n, UNCHANGED <<session, sweep>>, StatesBecome(states),
           provider' = [provider EXCEPT ![n] = None]
    PROVE  StatesHeld'
<1>1. provider' \in [Codes -> StateIds \cup {None}]
    BY DEF StatesHeld
<1>2. \A j \in StateIds : Held(j)' => states[j] \in NetworkState
    BY NoneAssumption DEF Held, StatesHeld
<1> QED BY <1>1, <1>2, ArcsMove

\* Every step keeps exactly the states that are held.
LEMMA StatesKept ==
    ASSUME RegistryIInv, [Next]_vars
    PROVE  StatesHeld'
<1>0. StatesHeld /\ RequestsTyped
    BY DEF RegistryIInv
<1>a. ASSUME NEW n \in Codes, provider[n] # None
      PROVE  /\ provider[n] \in StateIds /\ Held(provider[n])
             /\ states[provider[n]] \in NetworkState
    BY <1>0, <1>a DEF StatesHeld, Held
<1>b. ASSUME UNCHANGED <<provider, session, sweep, states>> PROVE StatesHeld'
    BY <1>0, <1>b DEF StatesHeld, Held
<1>1. ASSUME NEW c \in Clients, ClientStep(c) PROVE StatesHeld'
    BY <1>1, ClientStepStates
<1>2. CASE CleanupStep
    <2>1. ASSUME NEW n \in Codes, CollectExpired(n) PROVE StatesHeld'
        <3>1. /\ UNCHANGED <<provider, session, states>>
              /\ sweep.state = None /\ sweep'.state = provider[n] /\ provider[n] # None
            BY <2>1 DEF CollectExpired, NoSweep
        <3>2. \A k \in StateIds : Held(k)' <=> Held(k)
            BY <3>1, NoneAssumption DEF Held
        <3> QED BY <1>0, <3>1, <3>2 DEF StatesHeld
    <2>5. CASE RemoveExpired
        <3> DEFINE k == sweep.state
                   cut == sweep.expired \cap Senders(k)
                   f == [states EXCEPT ![k].devices = @ \ sweep.expired,
                                       ![k].stray = @ \/ cut # {}]
        <3>1. /\ UNCHANGED <<provider, session>> /\ sweep'.state = None
              /\ StatesBecome(f)
            BY <2>5 DEF RemoveExpired, NoSweep
        <3>2. \A j \in StateIds : Held(j)' => states[j] \in NetworkState
            BY <1>0, <3>1, NoneAssumption DEF Held, StatesHeld
        <3>3. ASSUME NEW j \in StateIds, Held(j)' PROVE f[j] \in NetworkState
            <4>1. states[j] \in NetworkState /\ states \in [StateIds -> NetworkState \cup {None}]
                BY <1>0, <3>2, <3>3 DEF StatesHeld
            <4>2. CASE j = k
                <5>1. f[j] = [states[j] EXCEPT !.devices = @ \ sweep.expired,
                                               !.stray = @ \/ cut # {}]
                    BY <4>1, <4>2
                <5>2. (states[j].stray \/ cut # {}) \in BOOLEAN
                    OBVIOUS
                <5> HIDE DEF f, cut
                <5> QED BY <4>1, <5>1, <5>2 DEF NetworkState
            <4>3. CASE j # k
                BY <4>1, <4>3
            <4> QED BY <4>2, <4>3
        <3> HIDE DEF f
        <3> QED BY <1>0, <3>1, <3>3, ArcsMove DEF StatesHeld
    <2>2. ASSUME NEW n \in Codes, BecomeStale(n) PROVE StatesHeld'
        <3> DEFINE k == provider[n]
                   s == [states[k] EXCEPT !.stale = TRUE]
        <3>1. k \in StateIds /\ Held(k) /\ states[k] \in NetworkState
            BY <1>a, <2>2 DEF BecomeStale
        <3>2. s \in NetworkState /\ states' = [states EXCEPT ![k] = s]
            BY <1>0, <2>2, <3>1 DEF BecomeStale, NetworkState, StatesHeld
        <3>3. UNCHANGED <<provider, session, sweep>>
            BY <2>2 DEF BecomeStale
        <3> QED BY <1>0, <3>1, <3>2, <3>3, StateChanges
    <2>3. ASSUME NEW n \in Codes, ReleaseCheck(n) PROVE StatesHeld'
        BY <1>b, <2>3 DEF ReleaseCheck
    <2>4. CASE ReleaseRemove
        BY <1>0, <2>4, UnlistedKeeps DEF ReleaseRemove
    <2> QED BY <1>2, <2>1, <2>2, <2>3, <2>4, <2>5 DEF CleanupStep
<1>3. ASSUME NEW a \in Admins, AdminStep(a) PROVE StatesHeld'
    <2>1. CASE Memory(a)
        <3>1. UNCHANGED <<provider, states, sweep>> /\ Overtake(admin[a].code)
            BY <2>1 DEF Memory
        <3>2. \A c \in Clients : session'[c].state = session[c].state
            BY <3>1, OvertakeSame DEF RegistryIInv
        <3> QED BY <1>0, <3>1, <3>2, SameArcs DEF StatesHeld
    <2>2. CASE Unlist(a)
        BY <1>0, <2>2, UnlistedKeeps DEF Unlist
    <2>3. CASE RemoveDevice(a)
        <3> DEFINE k == provider[admin[a].code]
                   s == [states[k] EXCEPT !.devices = @ \ {admin[a].device}]
        <3>1. /\ UNCHANGED <<provider, session, sweep>>
              /\ states' = [states EXCEPT ![k].devices = @ \ {admin[a].device}]
            BY <2>3 DEF RemoveDevice
        <3>2. admin[a].code \in Codes /\ states \in [StateIds -> NetworkState \cup {None}]
            BY <1>0, <2>3 DEF RequestsTyped, RequestOK, RemoveDevice, StatesHeld
        <3>3. CASE k = None
            <4>1. k \notin StateIds
                BY <3>3, NoneAssumption
            <4>2. states' = states
                BY <3>1, <3>2, <4>1
            <4> QED BY <1>b, <3>1, <4>2
        <3>4. CASE k # None
            <4>1. k \in StateIds /\ Held(k) /\ states[k] \in NetworkState
                BY <1>a, <3>2, <3>4
            <4>2. s \in NetworkState /\ states' = [states EXCEPT ![k] = s]
                BY <3>1, <3>2, <4>1 DEF NetworkState
            <4> QED BY <1>0, <3>1, <4>1, <4>2, StateChanges
        <3> QED BY <3>3, <3>4
    <2>4. ASSUME NEW n \in Codes,
                 \/ add_network(a, n) \/ update_network(a, n)
                 \/ delete_network(a, n) \/ delete_device(a, n)
          PROVE  StatesHeld'
        BY <1>b, <2>4 DEF add_network, update_network, delete_network, delete_device, Ask
    <2>5. CASE HasDevices(a) \/ Count(a) \/ Store(a) \/ DeleteDevice(a) \/ DeleteRow(a)
        BY <1>b, <2>5 DEF HasDevices, Count, Store, DeleteDevice, DeleteRow
    <2> QED BY <1>3, <2>1, <2>2, <2>3, <2>4, <2>5 DEF AdminStep
<1>4. CASE Restart
    BY <1>4, NoneAssumption DEF Restart, StatesHeld, Held, NoSession, NoSweep
<1>5. CASE UNCHANGED vars
    BY <1>b, <1>5 DEF vars
<1> QED BY <1>1, <1>2, <1>3, <1>4, <1>5 DEF Next

-----------------------------------------------------------------------------
(* The lock of a network.                                                  *)

\* Only Insert lists another state for a network.
LEMMA ProviderStep ==
    ASSUME [Next]_vars, NEW n \in Codes, provider'[n] \notin {provider[n], None},
           StatesHeld
    PROVE  \E c \in Clients : /\ Insert(c) /\ session[c].code = n
                              /\ provider'[n] = session[c].state
<1>1. ASSUME NEW c \in Clients, ClientStep(c)
      PROVE  UNCHANGED provider \/ Insert(c)
    BY <1>1 DEF ClientStep, register, Lock, Load, Allocate, Refused, ConfirmReg, Drop,
       Found
<1>2. ASSUME NEW c \in Clients, Insert(c)
      PROVE  session[c].code = n /\ provider'[n] = session[c].state
    BY <1>2 DEF Insert, StatesHeld
<1>3. ASSUME CleanupStep \/ \E a \in Admins : AdminStep(a)
      PROVE  provider'[n] \in {provider[n], None}
    <2>1. CASE CleanupStep
        BY <2>1 DEF CleanupStep, CollectExpired, RemoveExpired, BecomeStale,
           ReleaseCheck, ReleaseRemove,
           StatesHeld
    <2>2. ASSUME NEW a \in Admins, AdminStep(a)
          PROVE  provider'[n] \in {provider[n], None}
        BY <2>2, OtherSteps DEF Unlist, StatesHeld
    <2> QED BY <1>3, <2>1, <2>2
<1>4. CASE Restart
    BY <1>4 DEF Restart
<1> QED BY <1>1, <1>2, <1>3, <1>4 DEF Next, vars

\* The lock is left alone, and so is who loads.
LEMMA LocksSame ==
    ASSUME LocksOK, UNCHANGED init_lock,
           \A c \in Clients : /\ Loads(c)' <=> Loads(c)
                              /\ Loads(c) => session'[c].code = session[c].code,
           \A n \in Codes : provider'[n] \in {provider[n], None},
           \A c \in Clients : SessionOK(session[c])
    PROVE  LocksOK'
<1>1. LockHolderLoads'
    BY DEF LocksOK, LockHolderLoads, Loads
<1>2. \A c \in Clients : Loads(c) => session[c].code \in Codes
    BY DEF Loads, SessionOK
<1> QED BY <1>1, <1>2 DEF LocksOK

\* Every step keeps the locks with those who load.
LEMMA LocksKept ==
    ASSUME RegistryIInv, [Next]_vars
    PROVE  LocksOK'
<1>0. /\ LocksOK /\ session \in [Clients -> Session] /\ StatesHeld
      /\ \A c \in Clients : SessionOK(session[c])
    BY DEF RegistryIInv, SessionsTyped
<1>1. ASSUME NEW c \in Clients, ClientStep(c) PROVE LocksOK'
    <2>a. ASSUME NEW n \in Codes, Found(c, n), ~Loads(c), UNCHANGED init_lock
          PROVE  LocksOK'
        <3>1. UNCHANGED provider
            BY <2>a DEF Found
        <3>2. \A d \in Clients : (Loads(d)' <=> Loads(d))
                                 /\ (Loads(d) => session'[d].code = session[d].code)
            BY <1>0, <2>a DEF Found, Loads, NoSession
        <3> QED BY <1>0, <2>a, <3>1, <3>2, LocksSame
    <2>1. ASSUME NEW n \in Codes, register(c, n) PROVE LocksOK'
        <3>1. UNCHANGED init_lock /\ ~Loads(c)
            BY <2>1 DEF register, Loads
        <3>2. CASE ~Found(c, n)
            <4>1. UNCHANGED provider
                BY <2>1, <3>2 DEF register
            <4>2. \A d \in Clients : (Loads(d)' <=> Loads(d))
                                     /\ (Loads(d) => session'[d].code = session[d].code)
                BY <1>0, <2>1, <3>2 DEF register, Loads, NoSession
            <4> QED BY <1>0, <3>1, <4>1, <4>2, LocksSame
        <3> QED BY <2>a, <3>1, <3>2
    <2>2. CASE Lock(c)
        <3> DEFINE n == session[c].code
        <3>1. ~Loads(c) /\ n \in Codes /\ init_lock[n] = None
            BY <1>0, <2>2 DEF Lock, Loads, SessionOK
        <3>2. CASE Found(c, n)
            <4>1. provider[n] # None /\ UNCHANGED init_lock
                BY <2>2, <3>2 DEF Lock, Found
            <4> QED BY <2>a, <3>1, <3>2, <4>1
        <3>3. CASE ~Found(c, n)
            <4>1. /\ provider[n] = None /\ UNCHANGED provider
                  /\ session' = [session EXCEPT ![c].pc = "loading"]
                  /\ init_lock' = [init_lock EXCEPT ![n] = c]
                BY <2>2, <3>3 DEF Lock
            <4>2. /\ session'[c].pc = "loading" /\ session'[c].code = n
                  /\ \A d \in Clients : d # c => session'[d] = session[d]
                BY <1>0, <4>1 DEF Session
            <4>3. init_lock' \in [Codes -> Clients \cup {None}]
                BY <1>0, <4>1 DEF LocksOK
            <4>4. LockHolderLoads'
                BY <1>0, <3>1, <4>1, <4>2 DEF LocksOK, LockHolderLoads, Loads
            <4>5. ASSUME NEW d \in Clients, Loads(d)'
                  PROVE  init_lock'[session'[d].code] = d /\ provider'[session'[d].code] = None
                <5>1. CASE d = c
                    BY <1>0, <3>1, <4>1, <4>2, <5>1 DEF LocksOK
                <5>2. CASE d # c
                    <6>1. /\ Loads(d) /\ session'[d].code = session[d].code
                          /\ init_lock[session[d].code] = d
                          /\ provider[session[d].code] = None
                        BY <1>0, <4>2, <4>5, <5>2 DEF Loads, LocksOK
                    <6>2. session[d].code # n
                        BY <3>1, <6>1, NoneAssumption
                    <6> QED BY <1>0, <4>1, <6>1, <6>2 DEF LocksOK
                <5> QED BY <5>1, <5>2
            <4> QED BY <4>3, <4>4, <4>5 DEF LocksOK
        <3> QED BY <3>2, <3>3
    <2>3. CASE Load(c)
        <3>1. UNCHANGED <<provider, init_lock>>
            BY <2>3 DEF Load
        <3>2. \A d \in Clients : (Loads(d)' <=> Loads(d))
                                 /\ (Loads(d) => session'[d].code = session[d].code)
            BY <1>0, <2>3 DEF Load, Loads, Session
        <3> QED BY <1>0, <3>1, <3>2, LocksSame
    <2>4. CASE Insert(c)
        <3> DEFINE n == session[c].code
        <3>1. Loads(c) /\ n \in Codes /\ init_lock[n] = c
            BY <1>0, <2>4 DEF Insert, Loads, SessionOK, LocksOK
        <3>2. /\ init_lock' = [init_lock EXCEPT ![n] = None]
              /\ provider' = [provider EXCEPT ![n] = session[c].state]
              /\ session'[c].pc = "found"
              /\ \A d \in Clients : d # c => session'[d] = session[d]
            BY <1>0, <2>4 DEF Insert, NoSession
        <3>3. init_lock' \in [Codes -> Clients \cup {None}]
            BY <1>0, <3>2 DEF LocksOK
        <3>4. LockHolderLoads'
            <4> SUFFICES ASSUME NEW m \in Codes, init_lock'[m] # None
                         PROVE  /\ session'[init_lock'[m]].pc \in {"loading", "loaded"}
                                /\ session'[init_lock'[m]].code = m
                BY DEF LockHolderLoads
            <4>1. m # n /\ init_lock'[m] = init_lock[m]
                BY <1>0, <3>1, <3>2 DEF LocksOK
            <4>2. /\ session[init_lock[m]].pc \in {"loading", "loaded"}
                  /\ session[init_lock[m]].code = m /\ init_lock[m] \in Clients
                BY <1>0, <4>1 DEF LocksOK, LockHolderLoads
            <4> QED BY <3>2, <4>1, <4>2
        <3>5. ASSUME NEW d \in Clients, Loads(d)'
              PROVE  init_lock'[session'[d].code] = d /\ provider'[session'[d].code] = None
            <4>1. d # c
                BY <3>2, <3>5 DEF Loads
            <4>2. /\ session'[d].code = session[d].code
                  /\ init_lock[session[d].code] = d /\ provider[session[d].code] = None
                BY <1>0, <3>2, <3>5, <4>1 DEF Loads, LocksOK
            <4>3. session[d].code # n
                BY <3>1, <4>1, <4>2
            <4> QED BY <1>0, <3>2, <4>2, <4>3 DEF LocksOK, StatesHeld
        <3> QED BY <3>3, <3>4, <3>5 DEF LocksOK
    <2>5. CASE Allocate(c) \/ Refused(c) \/ ConfirmReg(c) \/ Drop(c)
        <3>1. UNCHANGED <<provider, init_lock>>
            BY <2>5 DEF Allocate, Refused, ConfirmReg, Drop
        <3>2. ~Loads(c)
            BY <2>5 DEF Allocate, Refused, ConfirmReg, Drop, Loads
        <3>4. ~Loads(c)'
            BY <1>0, <2>5 DEF Allocate, Refused, ConfirmReg, Drop, Loads, NoSession, Session
        <3>3. \A d \in Clients : d # c => session'[d] = session[d]
            BY <1>0, <2>5 DEF Allocate, Refused, ConfirmReg, Drop
        <3> QED BY <1>0, <3>1, <3>2, <3>3, <3>4, LocksSame DEF Loads
    <2> QED BY <1>1, <2>1, <2>2, <2>3, <2>4, <2>5 DEF ClientStep
<1>2. ASSUME NEW a \in Admins, AdminStep(a) PROVE LocksOK'
    <2>1. UNCHANGED init_lock
        BY <1>2, OtherSteps
    <2>2. \A n \in Codes : provider'[n] \in {provider[n], None}
        BY <1>0, <1>2, OtherSteps DEF Unlist, StatesHeld
    <2>3. \A c \in Clients : (Loads(c)' <=> Loads(c)) /\ session'[c].code = session[c].code
        <3>1. CASE Memory(a)
            BY <3>1, OvertakeSame DEF Memory, Loads, RegistryIInv
        <3> QED BY <1>2, <3>1, OtherSteps DEF Loads
    <2> QED BY <1>0, <2>1, <2>2, <2>3, LocksSame
<1>3. CASE CleanupStep \/ UNCHANGED vars
    <2>1. UNCHANGED <<init_lock, session>>
        BY <1>3, OtherSteps DEF vars
    <2>2. \A n \in Codes : provider'[n] \in {provider[n], None}
        BY <1>0, <1>3 DEF CleanupStep, CollectExpired, RemoveExpired, BecomeStale,
           ReleaseCheck, ReleaseRemove,
           StatesHeld, vars
    <2> QED BY <1>0, <2>1, <2>2, LocksSame DEF Loads
<1>4. CASE Restart
    BY <1>4 DEF Restart, LocksOK, LockHolderLoads, Loads, NoSession
<1> QED BY <1>1, <1>2, <1>3, <1>4 DEF Next

\* What the registry keeps in every state.
THEOREM RegistryInvariant == Spec => []RegistryIInv
<1>1. RegistryIInv /\ [Next]_vars => RegistryIInv'
    BY SessionsKept, RequestsKept, TablesKept, StatesKept, LocksKept DEF RegistryIInv
<1> QED BY InitRegistry, <1>1, PTL DEF Spec

\* RegistryInv: the Arcs of the NetworkStates point to states that exist and
\* no other state does, and the lock of a network is only ever held by a
\* registration that is loading that network, however registrations, requests,
\* the cleanup task and restarts interleave (get_or_create_network_state).
THEOREM RegistryIsSound == Spec => []RegistryInv
<1>1. RegistryIInv => RegistryInv
    BY DEF RegistryIInv, TablesTyped, SessionsTyped, RequestsTyped, StatesHeld, LocksOK,
           RegistryInv, TypeOK, SessionOK, RequestOK
<1> QED BY <1>1, RegistryInvariant, PTL

\* ListedIsNotReplaced: a NetworkState that is listed is never replaced by
\* another, for any number of clients that open the network at the same time:
\* whoever inserts holds the lock, and nothing is listed while it is held.
THEOREM NothingIsReplaced == Spec => ListedIsNotReplaced
<1>1. ASSUME RegistryIInv, [Next]_vars
      PROVE  [\A n \in Codes : provider[n] # None =>
                 provider'[n] \in {provider[n], None}]_vars
    <2>1. ASSUME NEW n \in Codes, provider[n] # None,
                 NEW c \in Clients, Insert(c), session[c].code = n
          PROVE  FALSE
        BY <1>1, <2>1 DEF Insert, RegistryIInv, LocksOK, Loads
    <2> QED BY <1>1, <2>1, ProviderStep DEF RegistryIInv
<1> QED BY <1>1, RegistryInvariant, PTL DEF Spec, ListedIsNotReplaced

-----------------------------------------------------------------------------
(* Who is served by a state that is not listed.                            *)

Served == {"pending", "confirmed"}

\* A client that is not exposed works on a network that nobody is about to
\* take off the list; the state it has found is listed, and it is one of the
\* devices of the state that serves it, so that nobody finds that state empty.
Listed(c) ==
    c \notin exposed =>
        /\ session[c].pc # "none" => ~Unlisting(session[c].code)
        /\ session[c].pc \in Served \cup {"found"} =>
              provider[session[c].code] = session[c].state
        /\ session[c].pc \in Served => c \in states[session[c].state].devices

ServedIInv == \A c \in Clients : Listed(c)

\* A network begins to be taken off the list by a check that has seen nobody
\* on its state, and those who are registering then are marked.
LEMMA UnlistingBegins ==
    ASSUME RegistryIInv, [Next]_vars, NEW n \in Codes, Unlisting(n)', ~Unlisting(n)
    PROVE  /\ provider[n] = None \/ states[provider[n]].devices = {}
           /\ exposed' = exposed \cup Underway(n) /\ UNCHANGED session
<1> DEFINE Seen == /\ provider[n] = None \/ states[provider[n]].devices = {}
                   /\ exposed' = exposed \cup Underway(n) /\ UNCHANGED session
<1>0. RequestsTyped
    BY DEF RegistryIInv
<1>1. ASSUME UNCHANGED <<admin, release>> PROVE FALSE
    BY <1>1 DEF Unlisting
<1>2. ASSUME NEW a \in Admins, AdminStep(a) PROVE Seen
    <2> DEFINE Due(r) == r.code = n /\ r.op \in {"update", "delete"}
                         /\ r.pc \in {"db", "memory", "unlist"}
    <2>1. PICK r : RequestOK(r) /\ RequestBecomes(a, r)
        BY <1>2, AdminStepRequest
    <2>2. UNCHANGED release
        BY <1>2, OtherSteps
    <2>3. ~Due(admin[a]) /\ Due(admin'[a])
        <3>1. PICK b \in Admins : Due(admin'[b])
            BY <2>2 DEF Unlisting
        <3>2. ~Due(admin[b])
            BY DEF Unlisting
        <3>3. \A e \in Admins : e # a => admin'[e] = admin[e]
            BY <1>0, <2>1 DEF RequestBecomes, RequestsTyped
        <3> QED BY <3>1, <3>2, <3>3
    <2>a. ASSUME Ends(a) PROVE FALSE
        BY <1>0, <2>3, <2>a DEF Ends, RequestsTyped, NoRequest
    <2>b. ASSUME NEW pc, Goes(a, pc)
          PROVE  /\ admin'[a].pc = pc /\ admin'[a].op = admin[a].op
                 /\ admin'[a].code = admin[a].code
        <3>1. admin'[a] = [admin[a] EXCEPT !.pc = pc] /\ admin[a] \in Request
            BY <1>0, <2>b DEF Goes, RequestsTyped
        <3> QED BY <3>1 DEF Request
    <2>4. CASE Count(a)
        <3>1. Goes(a, "db") /\ ~Ends(a)
            BY <2>4, <2>a DEF Count
        <3>2. admin[a].code = n
            BY <2>3, <2>b, <3>1
        <3> QED BY <2>4, <2>a, <3>2 DEF Count
    <2>5. CASE HasDevices(a)
        BY <2>5, <2>a, <2>b, <2>3 DEF HasDevices
    <2>6. CASE Store(a) \/ Memory(a)
        <3>1. admin[a].pc \in {"db", "memory"}
            BY <2>6 DEF Store, Memory
        <3>2. PICK pc \in {"memory", "unlist"} : Goes(a, pc)
            BY <2>6, <2>a DEF Store, Memory
        <3> QED BY <2>b, <2>3, <3>1, <3>2
    <2>7. CASE DeleteDevice(a) \/ RemoveDevice(a)
        <3>1. PICK pc \in {"row", "remove"} : Goes(a, pc)
            BY <2>7, <2>a DEF DeleteDevice, RemoveDevice
        <3> QED BY <2>b, <2>3, <3>1
    <2>8. CASE Unlist(a) \/ DeleteRow(a)
        BY <2>8, <2>a DEF Unlist, DeleteRow
    <2>9. ASSUME NEW m \in Codes,
                 \/ add_network(a, m) \/ update_network(a, m)
                 \/ delete_network(a, m) \/ delete_device(a, m)
          PROVE  FALSE
        <3>1. CASE add_network(a, m)
            <4>1. admin'[a].op = "add"
                BY <1>0, <3>1 DEF add_network, Ask, RequestsTyped, NoRequest
            <4> QED BY <2>3, <4>1
        <3>2. CASE update_network(a, m)
            <4>1. admin'[a].pc = "has_devices"
                BY <1>0, <3>2 DEF update_network, Ask, RequestsTyped, NoRequest
            <4> QED BY <2>3, <4>1
        <3>3. CASE delete_network(a, m)
            <4>1. admin'[a].pc = "has_devices"
                BY <1>0, <3>3 DEF delete_network, Ask, RequestsTyped, NoRequest
            <4> QED BY <2>3, <4>1
        <3>4. CASE delete_device(a, m)
            <4>1. admin'[a].op = "device"
                BY <1>0, <3>4 DEF delete_device, Ask, RequestsTyped, NoRequest
            <4> QED BY <2>3, <4>1
        <3> QED BY <2>9, <3>1, <3>2, <3>3, <3>4
    <2> QED BY <1>2, <2>4, <2>5, <2>6, <2>7, <2>8, <2>9 DEF AdminStep
<1>3. CASE CleanupStep
    <2>1. ASSUME NEW m \in Codes, ReleaseCheck(m) PROVE Seen
        <3>1. m = n
            BY <1>3, <2>1, OtherSteps DEF ReleaseCheck, Unlisting
        <3> QED BY <2>1, <3>1 DEF ReleaseCheck
    <2>2. ASSUME NEW m \in Codes, CollectExpired(m) \/ BecomeStale(m) PROVE FALSE
        BY <1>1, <2>2 DEF CollectExpired, BecomeStale
    <2>3. CASE RemoveExpired
        BY <1>1, <2>3 DEF RemoveExpired
    <2>4. CASE ReleaseRemove
        BY <1>3, <2>4, OtherSteps, NoneAssumption DEF ReleaseRemove, Unlisting
    <2> QED BY <1>3, <2>1, <2>2, <2>3, <2>4 DEF CleanupStep
<1>4. CASE Restart
    BY <1>4, NoneAssumption DEF Restart, Unlisting, NoRequest
<1> QED BY <1>1, <1>2, <1>3, <1>4, OtherSteps DEF Next, vars

\* A session goes on with a state that stays listed.
LEMMA StaysListed ==
    ASSUME RegistryIInv, RegistryIInv', ServedIInv, [Next]_vars, NEW c \in Clients,
           session'[c].pc = session[c].pc, session'[c].code = session[c].code,
           session'[c].state = session[c].state, c \notin exposed' => c \notin exposed,
           session[c].pc \in Served \cup {"found"} /\ c \notin exposed' =>
               provider'[session[c].code] = provider[session[c].code],
           session[c].pc \in Served /\ c \notin exposed'
               /\ c \in states[session[c].state].devices =>
               c \in states'[session[c].state].devices
    PROVE  Listed(c)'
<1>0. SessionOK(session[c]) /\ Listed(c)
    BY DEF RegistryIInv, SessionsTyped, ServedIInv
<1> SUFFICES ASSUME c \notin exposed', session[c].pc # "none"
             PROVE  ~Unlisting(session[c].code)'
    BY <1>0 DEF Listed, Served
<1>1. ASSUME Unlisting(session[c].code)' PROVE FALSE
    <2> DEFINE n == session[c].code
    <2>1. n \in Codes /\ ~Unlisting(n)
        BY <1>0 DEF SessionOK, Listed
    <2>2. /\ provider[n] = None \/ states[provider[n]].devices = {}
          /\ exposed' = exposed \cup Underway(n)
        BY <1>1, <2>1, UnlistingBegins
    <2>3. session[c].pc \notin Registering
        BY <2>2 DEF Underway
    <2>4. session[c].pc \in Served
        BY <1>0, <2>3 DEF SessionOK, Session, Served
    <2>5. /\ provider[n] = session[c].state /\ session[c].state \in StateIds
          /\ c \in states[session[c].state].devices
        BY <1>0, <2>4 DEF SessionOK, Listed, Served
    <2> QED BY <2>2, <2>5, NoneAssumption
<1> QED BY <1>1

\* A registration or session takes no device but its own from a state.
LEMMA OthersDevices ==
    ASSUME RegistryIInv, NEW c \in Clients, NEW d \in Clients, ClientStep(d), c # d,
           session[c].pc \in Served, c \in states[session[c].state].devices
    PROVE  c \in states'[session[c].state].devices
<1> DEFINE k == session[c].state
           Stays == c \in states'[k].devices
<1>0. /\ k \in StateIds /\ Held(k) /\ states[k] \in NetworkState
      /\ states \in [StateIds -> NetworkState \cup {None}]
      /\ session \in [Clients -> Session] /\ provider \in [Codes -> StateIds \cup {None}]
    <2>1. k \in StateIds /\ Held(k)
        BY DEF RegistryIInv, SessionsTyped, SessionOK, Held, Served
    <2> QED BY <2>1 DEF RegistryIInv, StatesHeld, SessionsTyped
<1>1. session'[c] = session[c]
    BY <1>0, ClientStepSession DEF SessionBecomes
<1>a. ASSUME NEW f, StatesBecome(f), c \in f[k].devices PROVE Stays
    <2>1. PICK j \in StateIds : j = k
        BY <1>0
    <2>2. Held(j)'
        BY <1>1, <2>1 DEF Held
    <2>3. states'[j] = f[j]
        BY <1>a, <2>2 DEF StatesBecome
    <2> QED BY <1>a, <2>1, <2>3
<1>b. ASSUME NEW n, Found(d, n) PROVE Stays
    <2> DEFINE f == [states EXCEPT ![provider[n]].stale = FALSE]
    <2>1. c \in f[k].devices
        BY <1>0 DEF NetworkState
    <2>2. StatesBecome(f)
        BY <1>b DEF Found
    <2> HIDE DEF f
    <2> QED BY <1>a, <2>1, <2>2
<1>2. ASSUME NEW n \in Codes, register(d, n) PROVE Stays
    BY <1>b, <1>2 DEF register
<1>3. CASE Lock(d)
    BY <1>b, <1>3 DEF Lock
<1>4. CASE Load(d)
    <2>1. PICK devices \in {rows[session[d].code], {}}, j \in StateIds :
             /\ states[j] = None
             /\ StatesBecome([states EXCEPT ![j] =
                   [net |-> session[d].net, devices |-> devices, stray |-> FALSE,
                    stale |-> FALSE, belated |-> FALSE]])
        BY <1>4 DEF Load
    <2> DEFINE new == [net |-> session[d].net, devices |-> devices, stray |-> FALSE,
                       stale |-> FALSE, belated |-> FALSE]
    <2> HIDE DEF new
    <2>2. j # k
        <3>1. states[j] = None
            BY <2>1
        <3> QED BY <1>0, <3>1, NoneAssumption
    <2>3. c \in [states EXCEPT ![j] = new][k].devices
        BY <1>0, <2>2
    <2>4. StatesBecome([states EXCEPT ![j] = new])
        BY <2>1 DEF new
    <2> QED BY <1>a, <2>3, <2>4
<1>5. CASE Insert(d)
    <2> DEFINE f == [states EXCEPT ![session[d].state].belated = session[d].overtaken]
    <2>1. c \in f[k].devices
        BY <1>0 DEF NetworkState
    <2>2. StatesBecome(f)
        BY <1>5 DEF Insert
    <2> HIDE DEF f
    <2> QED BY <1>a, <2>1, <2>2
<1>6. CASE Allocate(d)
    <2> DEFINE j == session[d].state
               devices == states[j].devices \cup {d}
    <2>1. PICK stray : states' = [states EXCEPT ![j].devices = devices, ![j].stray = stray]
        BY <1>6 DEF Allocate
    <2>2. CASE j = k
        <3>1. states'[k] = [states[k] EXCEPT !.devices = devices, !.stray = stray]
            BY <1>0, <2>1, <2>2
        <3>2. c \in devices
            BY <2>2
        <3> HIDE DEF devices
        <3> QED BY <1>0, <3>1, <3>2 DEF NetworkState
    <2>3. CASE j # k
        BY <1>0, <2>1, <2>3
    <2> QED BY <2>2, <2>3
<1>7. CASE Refused(d) \/ ConfirmReg(d)
    BY <1>a, <1>7 DEF Refused, ConfirmReg
<1>8. CASE Drop(d)
    <2> DEFINE f == [states EXCEPT ![session[d].state].devices = @ \ {d}]
    <2>1. c \in f[k].devices
        BY <1>0 DEF NetworkState
    <2>2. StatesBecome(f) \/ StatesBecome(states)
        BY <1>8 DEF Drop
    <2> HIDE DEF f
    <2> QED BY <1>a, <2>1, <2>2
<1> QED BY <1>2, <1>3, <1>4, <1>5, <1>6, <1>7, <1>8 DEF ClientStep

\* A network is taken off the list on which nobody works who is not exposed.
LEMMA UnlistedOthers ==
    ASSUME RegistryIInv, RegistryIInv', ServedIInv, [Next]_vars, NEW c \in Clients,
           NEW n \in Codes, Unlisting(n), UNCHANGED <<session, exposed>>,
           provider' = [provider EXCEPT ![n] = None], StatesBecome(states)
    PROVE  Listed(c)'
<1>0. SessionOK(session[c]) /\ Listed(c) /\ StatesHeld
    BY DEF RegistryIInv, SessionsTyped, ServedIInv
<1>1. ASSUME session[c].pc \in Served \cup {"found"}, c \notin exposed'
      PROVE  provider'[session[c].code] = provider[session[c].code]
    <2>1. session[c].code # n
        BY <1>0, <1>1 DEF Listed, Served
    <2> QED BY <1>0, <1>1, <2>1 DEF SessionOK, StatesHeld, Served
<1>2. ASSUME session[c].pc \in Served, c \in states[session[c].state].devices
      PROVE  c \in states'[session[c].state].devices
    <2>1. PICK j \in StateIds : j = session[c].state
        BY <1>0, <1>2 DEF SessionOK, Served
    <2>2. Held(j)'
        BY <2>1 DEF Held
    <2> QED BY <1>2, <2>1, <2>2 DEF StatesBecome
<1> QED BY <1>1, <1>2, StaysListed

\* Every step leaves those who are not exposed on the list.
LEMMA ListedStay ==
    ASSUME RegistryIInv, RegistryIInv', ServedIInv, [Next]_vars, NEW c \in Clients
    PROVE  Listed(c)'
<1>0. /\ session \in [Clients -> Session] /\ SessionOK(session[c]) /\ Listed(c)
      /\ StatesHeld /\ LocksOK /\ RequestsTyped
    BY DEF RegistryIInv, SessionsTyped, ServedIInv
<1>a. ASSUME UNCHANGED <<session, provider, states>>, exposed \subseteq exposed'
      PROVE  Listed(c)'
    BY <1>a, StaysListed
<1>1. ASSUME NEW d \in Clients, ClientStep(d), c # d PROVE Listed(c)'
    <2>1. session'[c] = session[c]
        BY <1>0, <1>1, ClientStepSession DEF SessionBecomes
    <2>2. c \notin exposed' => c \notin exposed
        BY <1>1 DEF ClientStep, register, Lock, Load, Insert, Allocate, Refused,
           ConfirmReg, Drop
    <2>3. ASSUME session[c].pc \in Served \cup {"found"}, c \notin exposed'
          PROVE  provider'[session[c].code] = provider[session[c].code]
        <3>1. CASE ~Insert(d)
            <4>1. UNCHANGED provider
                BY <1>1, <3>1 DEF ClientStep, register, Lock, Load, Allocate, Refused,
                   ConfirmReg, Drop, Found
            <4> QED BY <4>1
        <3>2. CASE Insert(d)
            <4>1. /\ session[c].code \in Codes /\ session[c].state \in StateIds
                  /\ provider[session[c].code] = session[c].state
                BY <1>0, <2>2, <2>3 DEF SessionOK, Listed, Served
            <4>2. Loads(d) /\ provider[session[d].code] = None
                BY <1>0, <3>2 DEF Insert, Loads, LocksOK
            <4>3. session[c].code # session[d].code
                BY <4>1, <4>2, NoneAssumption
            <4> QED BY <1>0, <3>2, <4>1, <4>3 DEF Insert, StatesHeld
        <3> QED BY <3>1, <3>2
    <2>4. session[c].pc \in Served /\ c \in states[session[c].state].devices =>
              c \in states'[session[c].state].devices
        BY <1>1, OthersDevices
    <2> QED BY <2>1, <2>2, <2>3, <2>4, StaysListed
<1>2. CASE ClientStep(c)
    <2>0. UNCHANGED <<admin, release>>
        BY <1>2, OtherSteps
    <2>a. ASSUME NEW n \in Codes, Found(c, n), c \notin exposed' => ~Unlisting(n)
          PROVE  Listed(c)'
        <3>1. /\ session'[c].pc = "found" /\ session'[c].code = n
              /\ session'[c].state = provider[n] /\ UNCHANGED provider
            BY <1>0, <2>a DEF Found, NoSession
        <3>2. c \notin exposed' => ~Unlisting(n)'
            BY <2>0, <2>a DEF Unlisting
        <3> QED BY <3>1, <3>2 DEF Listed, Served
    <2>1. ASSUME NEW n \in Codes, register(c, n) PROVE Listed(c)'
        <3>1. c \notin exposed' => ~Unlisting(n)
            BY <2>1 DEF register
        <3>2. CASE Found(c, n)
            BY <2>a, <3>1, <3>2
        <3>3. CASE ~Found(c, n)
            <4>1. session'[c].pc = "waiting" /\ session'[c].code = n
                BY <1>0, <2>1, <3>3 DEF register, NoSession
            <4>2. c \notin exposed' => ~Unlisting(n)'
                BY <2>0, <3>1 DEF Unlisting
            <4> QED BY <4>1, <4>2 DEF Listed, Served
        <3> QED BY <3>2, <3>3
    <2>2. CASE Lock(c)
        <3>1. /\ UNCHANGED exposed /\ session[c].pc = "waiting" /\ session[c].code \in Codes
            BY <1>0, <2>2 DEF Lock, SessionOK
        <3>2. c \notin exposed' => ~Unlisting(session[c].code)
            BY <1>0, <3>1 DEF Listed
        <3>3. CASE Found(c, session[c].code)
            BY <2>a, <3>1, <3>2, <3>3
        <3>4. CASE ~Found(c, session[c].code)
            <4>1. session' = [session EXCEPT ![c].pc = "loading"]
                BY <2>2, <3>4 DEF Lock
            <4>2. session'[c].pc = "loading" /\ session'[c].code = session[c].code
                BY <1>0, <4>1 DEF Session
            <4>3. c \notin exposed' => ~Unlisting(session[c].code)'
                BY <2>0, <3>2, <4>2 DEF Unlisting
            <4> QED BY <4>2, <4>3 DEF Listed, Served
        <3> QED BY <3>3, <3>4
    <2>3. CASE Load(c)
        <3>1. PICK k \in StateIds :
                 session' = [session EXCEPT ![c].pc = "loaded", ![c].state = k]
            BY <2>3 DEF Load
        <3>2. session'[c].pc = "loaded" /\ session'[c].code = session[c].code
            BY <1>0, <3>1 DEF Session
        <3>3. UNCHANGED exposed /\ session[c].pc # "none"
            BY <2>3 DEF Load
        <3>4. c \notin exposed' => ~Unlisting(session[c].code)'
            BY <1>0, <2>0, <3>2, <3>3 DEF Unlisting, Listed
        <3> QED BY <3>2, <3>4 DEF Listed, Served
    <2>4. CASE Insert(c)
        <3> DEFINE n == session[c].code
        <3>1. /\ session'[c].pc = "found" /\ session'[c].code = n
              /\ session'[c].state = session[c].state
              /\ provider' = [provider EXCEPT ![n] = session[c].state]
              /\ UNCHANGED exposed /\ session[c].pc # "none"
            BY <1>0, <2>4 DEF Insert, NoSession
        <3>2. provider'[n] = session[c].state
            BY <1>0, <3>1 DEF StatesHeld, SessionOK
        <3>3. c \notin exposed' => ~Unlisting(session[c].code)'
            BY <1>0, <2>0, <3>1 DEF Unlisting, Listed
        <3> QED BY <3>1, <3>2, <3>3 DEF Listed, Served
    <2>5. CASE Allocate(c)
        <3> DEFINE k == session[c].state
                   devices == states[k].devices \cup {c}
        <3>1. /\ UNCHANGED <<exposed, provider>> /\ session[c].pc = "found"
              /\ k \in StateIds /\ Held(k)
            BY <1>0, <2>5 DEF Allocate, SessionOK, Held
        <3>2. PICK pc \in {"confirmed", "pending"} : session' = [session EXCEPT ![c].pc = pc]
            BY <2>5 DEF Allocate
        <3>3. /\ session'[c].pc = pc /\ session'[c].code = session[c].code
              /\ session'[c].state = k
            BY <1>0, <3>2 DEF Session
        <3>4. PICK stray : states' = [states EXCEPT ![k].devices = devices, ![k].stray = stray]
            BY <2>5 DEF Allocate
        <3>5. states[k] \in NetworkState /\ states \in [StateIds -> NetworkState \cup {None}]
            BY <1>0, <3>1 DEF StatesHeld
        <3>6. states'[k] = [states[k] EXCEPT !.devices = devices, !.stray = stray]
            BY <3>1, <3>4, <3>5
        <3>7. c \in states'[k].devices
            BY <3>5, <3>6 DEF NetworkState
        <3>8. c \notin exposed' => ~Unlisting(session[c].code)'
            BY <1>0, <2>0, <3>1, <3>3 DEF Unlisting, Listed
        <3>9. c \notin exposed' => provider'[session[c].code] = k
            BY <1>0, <3>1 DEF Listed
        <3> QED BY <3>3, <3>7, <3>8, <3>9 DEF Listed
    <2>6. CASE Refused(c) \/ Drop(c)
        <3>1. session'[c].pc = "none"
            BY <1>0, <2>6 DEF Refused, Drop, NoSession
        <3> QED BY <3>1 DEF Listed, Served
    <2>7. CASE ConfirmReg(c)
        <3>1. /\ session' = [session EXCEPT ![c].pc = "confirmed"]
              /\ session[c].pc = "pending" /\ UNCHANGED <<provider, states, exposed>>
            BY <2>7 DEF ConfirmReg
        <3>2. /\ session'[c].pc = "confirmed" /\ session'[c].code = session[c].code
              /\ session'[c].state = session[c].state
            BY <1>0, <3>1 DEF Session
        <3>3. c \notin exposed' => ~Unlisting(session[c].code)'
            BY <1>0, <2>0, <3>1, <3>2 DEF Unlisting, Listed
        <3> QED BY <1>0, <3>1, <3>2, <3>3 DEF Listed, Served
    <2> QED BY <1>2, <2>1, <2>2, <2>3, <2>4, <2>5, <2>6, <2>7 DEF ClientStep
<1>3. CASE CleanupStep
    <2>0. UNCHANGED session
        BY <1>3, OtherSteps
    <2>1. ASSUME NEW n \in Codes, CollectExpired(n) \/ ReleaseCheck(n) PROVE Listed(c)'
        BY <1>a, <2>0, <2>1 DEF CollectExpired, ReleaseCheck
    <2>2. ASSUME NEW n \in Codes, BecomeStale(n) PROVE Listed(c)'
        <3>1. /\ UNCHANGED <<provider, exposed>>
              /\ states' = [states EXCEPT ![provider[n]].stale = TRUE]
            BY <2>2 DEF BecomeStale
        <3>2. ASSUME session[c].pc \in Served, c \in states[session[c].state].devices
              PROVE  c \in states'[session[c].state].devices
            <4>1. session[c].state \in StateIds /\ Held(session[c].state)
                BY <1>0, <3>2 DEF SessionOK, Held, Served
            <4>2. states[session[c].state] \in NetworkState
                BY <1>0, <4>1 DEF StatesHeld
            <4> QED BY <1>0, <3>1, <3>2, <4>1, <4>2 DEF StatesHeld, NetworkState
        <3> QED BY <2>0, <3>1, <3>2, StaysListed
    <2>3. CASE RemoveExpired
        <3> DEFINE k == sweep.state
                   cut == sweep.expired \cap Senders(k)
                   f == [states EXCEPT ![k].devices = @ \ sweep.expired,
                                       ![k].stray = @ \/ cut # {}]
        <3>1. UNCHANGED provider /\ StatesBecome(f) /\ exposed' = exposed \cup cut
            BY <2>3 DEF RemoveExpired
        <3>2. ASSUME session[c].pc \in Served, c \in states[session[c].state].devices,
                     c \notin exposed'
              PROVE  c \in states'[session[c].state].devices
            <4>1. PICK j \in StateIds : j = session[c].state
                BY <1>0, <3>2 DEF SessionOK, Served
            <4>2. Held(j) /\ Held(j)'
                BY <2>0, <4>1 DEF Held
            <4>3. states[j] \in NetworkState /\ states \in [StateIds -> NetworkState \cup {None}]
                BY <1>0, <4>2 DEF StatesHeld
            <4>4. states'[j] = f[j]
                BY <3>1, <4>2 DEF StatesBecome
            <4>5. CASE j = k
                <5>1. c \in Senders(k)
                    BY <3>2, <4>1, <4>5 DEF Senders, Served
                <5>2. c \notin sweep.expired
                    BY <3>1, <3>2, <5>1
                <5>3. f[j] = [states[j] EXCEPT !.devices = @ \ sweep.expired,
                                               !.stray = @ \/ cut # {}]
                    BY <4>3, <4>5
                <5> HIDE DEF f, cut
                <5>4. f[j].devices = states[j].devices \ sweep.expired
                    BY <4>3, <5>3 DEF NetworkState
                <5> QED BY <3>2, <4>1, <4>4, <5>2, <5>4
            <4>6. CASE j # k
                <5>1. f[j] = states[j]
                    BY <4>3, <4>6
                <5> QED BY <3>2, <4>1, <4>4, <5>1
            <4> QED BY <4>5, <4>6
        <3>3. exposed \subseteq exposed'
            BY <3>1
        <3> QED BY <2>0, <3>1, <3>2, <3>3, StaysListed
    <2>4. CASE ReleaseRemove
        <3>1. /\ release \in Codes /\ UNCHANGED exposed /\ Unlisting(release)
              /\ provider' = [provider EXCEPT ![release] = None]
              /\ StatesBecome(states)
            BY <1>0, <2>4 DEF ReleaseRemove, RequestsTyped, Unlisting
        <3> QED BY <2>0, <3>1, UnlistedOthers
    <2> QED BY <1>3, <2>1, <2>2, <2>3, <2>4 DEF CleanupStep
<1>4. ASSUME NEW a \in Admins, AdminStep(a) PROVE Listed(c)'
    <2>1. CASE Memory(a)
        <3>1. /\ session'[c].pc = session[c].pc /\ session'[c].code = session[c].code
              /\ session'[c].state = session[c].state
            BY <2>1, OvertakeSame DEF Memory, RegistryIInv
        <3>2. UNCHANGED <<provider, states, exposed>>
            BY <2>1 DEF Memory
        <3> QED BY <3>1, <3>2, StaysListed
    <2>2. CASE Unlist(a)
        <3> DEFINE n == admin[a].code
        <3>1. n \in Codes /\ admin[a].op \in {"update", "delete"}
            BY <1>0, <2>2 DEF Unlist, RequestsTyped, RequestOK, Request
        <3>2. /\ Unlisting(n) /\ UNCHANGED <<session, exposed>>
              /\ provider' = [provider EXCEPT ![n] = None] /\ StatesBecome(states)
            BY <2>2, <3>1 DEF Unlist, Unlisting
        <3> QED BY <3>1, <3>2, UnlistedOthers
    <2>3. CASE RemoveDevice(a)
        <3> DEFINE k == provider[admin[a].code]
                   d == admin[a].device
        <3>1. /\ UNCHANGED <<provider, session>>
              /\ states' = [states EXCEPT ![k].devices = @ \ {d}]
              /\ exposed' = exposed \cup ({d} \cap Senders(k))
            BY <2>3 DEF RemoveDevice
        <3>2. ASSUME session[c].pc \in Served, c \in states[session[c].state].devices,
                     c \notin exposed'
              PROVE  c \in states'[session[c].state].devices
            <4>1. PICK j \in StateIds : j = session[c].state
                BY <1>0, <3>2 DEF SessionOK, Served
            <4>2. Held(j)
                BY <4>1 DEF Held
            <4>3. states[j] \in NetworkState /\ states \in [StateIds -> NetworkState \cup {None}]
                BY <1>0, <4>2 DEF StatesHeld
            <4>4. CASE j = k
                <5>1. c \in Senders(k)
                    BY <3>2, <4>1, <4>4 DEF Senders, Served
                <5>2. c # d
                    BY <3>1, <3>2, <5>1
                <5>3. states'[j].devices = states[j].devices \ {d}
                    BY <3>1, <4>3, <4>4 DEF NetworkState
                <5> QED BY <3>2, <4>1, <5>2, <5>3
            <4>5. CASE j # k
                BY <3>1, <3>2, <4>1, <4>3, <4>5
            <4> QED BY <4>4, <4>5
        <3>3. exposed \subseteq exposed'
            BY <3>1
        <3> QED BY <3>1, <3>2, <3>3, StaysListed
    <2>4. ASSUME NEW n \in Codes,
                 \/ add_network(a, n) \/ update_network(a, n)
                 \/ delete_network(a, n) \/ delete_device(a, n)
          PROVE  Listed(c)'
        BY <1>a, <2>4 DEF add_network, update_network, delete_network, delete_device, Ask
    <2>5. CASE HasDevices(a) \/ Store(a) \/ DeleteDevice(a) \/ DeleteRow(a)
        BY <1>a, <2>5 DEF HasDevices, Store, DeleteDevice, DeleteRow
    <2>6. CASE Count(a)
        BY <1>a, <2>6 DEF Count
    <2> QED BY <1>4, <2>1, <2>2, <2>3, <2>4, <2>5, <2>6 DEF AdminStep
<1>5. CASE Restart
    BY <1>5 DEF Restart, Listed, NoSession, Served
<1>6. CASE UNCHANGED vars
    BY <1>a, <1>6 DEF vars
<1> QED BY <1>1, <1>2, <1>3, <1>4, <1>5, <1>6 DEF Next

\* What is served is listed as long as nobody had found the network unused.
THEOREM ServedInvariant == Spec => []ServedIInv
<1>1. Init => ServedIInv
    BY DEF Init, ServedIInv, Listed, NoSession, Served
<1>2. RegistryIInv /\ RegistryIInv' /\ ServedIInv /\ [Next]_vars => ServedIInv'
    BY ListedStay DEF ServedIInv
<1> QED BY <1>1, <1>2, RegistryInvariant, PTL DEF Spec

\* ServedIsListed: whoever is served is served by the listed state, for any
\* number of clients, requests, sweeps and restarts; the two looks of a request
\* or of the cleanup task strand only clients that were registering at the
\* first or began later, and those whose device was taken while they were
\* served (update_network, delete_network, release_network,
\* release_expired_ips, delete_device).
THEOREM ServedAreListed == Spec => []ServedIsListed
<1>1. ServedIInv => ServedIsListed
    BY DEF ServedIInv, Listed, ServedIsListed, Served
<1> QED BY <1>1, ServedInvariant, PTL

-----------------------------------------------------------------------------
(* The subnets that are served, configured and stored.                     *)

\* A state that stays in use keeps its subnet, and is belated or not from the
\* moment it is listed.
LEMMA StateStep ==
    ASSUME RegistryIInv, [Next]_vars, NEW k \in StateIds,
           states[k] # None, states'[k] # None
    PROVE  /\ states'[k].net = states[k].net
           /\ \/ states'[k].belated = states[k].belated
              \/ \E c \in Clients : /\ Insert(c) /\ session[c].state = k
                                    /\ states'[k].belated = session[c].overtaken
<1>0. /\ states \in [StateIds -> NetworkState \cup {None}]
      /\ provider \in [Codes -> StateIds \cup {None}]
      /\ states[k] \in NetworkState
    BY DEF RegistryIInv, StatesHeld
<1> DEFINE Keeps == /\ states'[k].net = states[k].net
                    /\ states'[k].belated = states[k].belated
<1>a. ASSUME NEW f, StatesBecome(f), f[k].net = states[k].net,
             f[k].belated = states[k].belated
      PROVE  Keeps
    BY <1>a DEF StatesBecome
<1>b. ASSUME StatesBecome(states) \/ UNCHANGED states PROVE Keeps
    BY <1>a, <1>b
<1>c. ASSUME NEW j, NEW devices, StatesBecome([states EXCEPT ![j].devices = devices])
      PROVE  Keeps
    BY <1>0, <1>a, <1>c DEF NetworkState
<1>d. ASSUME NEW j, NEW devices, NEW stray,
             LET f == [states EXCEPT ![j].devices = devices, ![j].stray = stray]
             IN  states' = f \/ StatesBecome(f)
      PROVE  Keeps
    <2> DEFINE f == [states EXCEPT ![j].devices = devices, ![j].stray = stray]
    <2>1. f[k].net = states[k].net /\ f[k].belated = states[k].belated
        <3>1. f[k] \in {states[k], [states[k] EXCEPT !.devices = devices, !.stray = stray]}
            BY <1>0
        <3> QED BY <1>0, <3>1 DEF NetworkState
    <2>2. states' = f \/ StatesBecome(f)
        BY <1>d
    <2> HIDE DEF f
    <2> QED BY <1>a, <2>1, <2>2
<1>e. ASSUME NEW c \in Clients, NEW n, Found(c, n) PROVE Keeps
    BY <1>0, <1>a, <1>e DEF Found, NetworkState
<1>1. ASSUME NEW c \in Clients, ClientStep(c), ~Insert(c) PROVE Keeps
    <2>1. ASSUME NEW n \in Codes, register(c, n) PROVE Keeps
        BY <1>b, <1>e, <2>1 DEF register
    <2>2. CASE Lock(c)
        BY <1>b, <1>e, <2>2 DEF Lock
    <2>3. CASE Load(c)
        <3>1. PICK devices \in {rows[session[c].code], {}}, j \in StateIds :
                 /\ states[j] = None
                 /\ StatesBecome([states EXCEPT ![j] =
                       [net |-> session[c].net, devices |-> devices, stray |-> FALSE,
                        stale |-> FALSE, belated |-> FALSE]])
            BY <2>3 DEF Load
        <3> DEFINE f == [states EXCEPT ![j] =
                            [net |-> session[c].net, devices |-> devices,
                             stray |-> FALSE, stale |-> FALSE, belated |-> FALSE]]
        <3>2. f[k] = states[k]
            BY <1>0, <3>1
        <3> QED BY <1>a, <3>1, <3>2
    <2>4. CASE Allocate(c)
        <3> DEFINE j == session[c].state
                   devices == states[j].devices \cup {c}
        <3>1. PICK stray : states' = [states EXCEPT ![j].devices = devices, ![j].stray = stray]
            BY <2>4 DEF Allocate
        <3> HIDE DEF devices, j
        <3> QED BY <1>d, <3>1
    <2>5. CASE Refused(c) \/ ConfirmReg(c)
        BY <1>b, <2>5 DEF Refused, ConfirmReg
    <2>6. CASE Drop(c)
        BY <1>b, <1>c, <2>6 DEF Drop
    <2> QED BY <1>1, <2>1, <2>2, <2>3, <2>4, <2>5, <2>6 DEF ClientStep
<1>2. ASSUME NEW c \in Clients, Insert(c)
      PROVE  /\ states'[k].net = states[k].net
             /\ \/ states'[k].belated = states[k].belated
                \/ session[c].state = k /\ states'[k].belated = session[c].overtaken
    BY <1>0, <1>2 DEF Insert, StatesBecome, NetworkState
<1>3. CASE CleanupStep
    <2>1. ASSUME NEW n \in Codes, CollectExpired(n) PROVE Keeps
        BY <1>b, <2>1 DEF CollectExpired
    <2>2. ASSUME NEW n \in Codes, BecomeStale(n) PROVE Keeps
        BY <1>0, <2>2 DEF BecomeStale, NetworkState
    <2>3. ASSUME NEW n \in Codes, ReleaseCheck(n) PROVE Keeps
        BY <1>b, <2>3 DEF ReleaseCheck
    <2>4. CASE ReleaseRemove
        BY <1>b, <2>4 DEF ReleaseRemove
    <2>5. CASE RemoveExpired
        BY <1>d, <2>5 DEF RemoveExpired
    <2> QED BY <1>3, <2>1, <2>2, <2>3, <2>4, <2>5 DEF CleanupStep
<1>4. ASSUME NEW a \in Admins, AdminStep(a) PROVE Keeps
    <2>1. CASE RemoveDevice(a)
        BY <1>0, <2>1 DEF RemoveDevice, NetworkState
    <2>2. CASE Unlist(a)
        BY <1>b, <2>2 DEF Unlist
    <2> QED BY <1>4, <1>b, <2>1, <2>2 DEF AdminStep, add_network, update_network,
               delete_network, delete_device, Ask, HasDevices, Count, Store, Memory,
               DeleteDevice, DeleteRow
<1>5. CASE Restart
    BY <1>5 DEF Restart
<1>6. CASE UNCHANGED vars
    BY <1>b, <1>6 DEF vars
<1> QED BY <1>1, <1>2, <1>3, <1>4, <1>5, <1>6 DEF Next

\* At the start nothing is served, and the table holds the configuration.
LEMMA InitConfig == Init => ConfigIInv
<1> SUFFICES ASSUME Init PROVE ConfigIInv
    OBVIOUS
<1> USE DEF Init
<1>1. FreshStates /\ LoadsConfiguration
    BY DEF FreshStates, LoadsConfiguration, NoSession
<1>2. OneRequest
    BY DEF OneRequest, NoRequest, Changes
<1>3. StoredAgrees
    BY DEF StoredAgrees, build_networks_from_config
<1>4. ListedHasConfig
    BY DEF ListedHasConfig
<1> QED BY <1>1, <1>2, <1>3, <1>4 DEF ConfigIInv

\* A state that is loaded stays private until it is listed.
LEMMA FreshKept ==
    ASSUME RegistryIInv, FreshStates, [Next]_vars
    PROVE  FreshStates'
<1>0. /\ session \in [Clients -> Session] /\ StatesHeld
      /\ \A c \in Clients : SessionOK(session[c])
    BY DEF RegistryIInv, SessionsTyped
<1>a. ASSUME \A c \in Clients : session'[c].state \in {session[c].state, None},
             \A c \in Clients : session'[c].pc = "loaded" =>
                 session[c].pc = "loaded" /\ session'[c].state = session[c].state,
             \A n \in Codes : provider'[n] \in {provider[n], None}
      PROVE  FreshStates'
    BY <1>0, <1>a, NoneAssumption DEF FreshStates, SessionOK
<1>1. ASSUME NEW c \in Clients, ClientStep(c) PROVE FreshStates'
    <2>a. ASSUME NEW n \in Codes, Found(c, n) PROVE FreshStates'
        <3>1. /\ session'[c].pc = "found" /\ session'[c].state = provider[n]
              /\ provider[n] # None
              /\ \A d \in Clients : d # c => session'[d] = session[d]
              /\ UNCHANGED provider
            BY <1>0, <2>a DEF Found, NoSession
        <3> QED BY <3>1 DEF FreshStates
    <2>1. ASSUME NEW n \in Codes, register(c, n) PROVE FreshStates'
        <3>1. CASE ~Found(c, n)
            BY <1>0, <1>a, <2>1, <3>1 DEF register, NoSession
        <3> QED BY <2>a, <3>1
    <2>2. CASE Lock(c)
        <3>1. CASE ~Found(c, session[c].code)
            <4>1. /\ UNCHANGED provider
                  /\ session' = [session EXCEPT ![c].pc = "loading"]
                BY <2>2, <3>1 DEF Lock
            <4>2. /\ session'[c].pc = "loading" /\ session'[c].state = session[c].state
                  /\ \A d \in Clients : d # c => session'[d] = session[d]
                BY <1>0, <4>1 DEF Session
            <4> QED BY <1>a, <4>1, <4>2
        <3> QED BY <1>0, <2>2, <2>a, <3>1 DEF Lock, SessionOK
    <2>3. CASE Load(c)
        <3>1. PICK k \in StateIds :
                 /\ states[k] = None
                 /\ session' = [session EXCEPT ![c].pc = "loaded", ![c].state = k]
            BY <2>3 DEF Load
        <3>2. /\ \A n \in Codes : provider[n] # k
              /\ \A d \in Clients : session[d].state # k
            BY <1>0, <3>1 DEF StatesHeld, Held
        <3>3. /\ session'[c].state = k /\ UNCHANGED provider
              /\ \A d \in Clients : d # c => session'[d] = session[d]
            BY <1>0, <2>3, <3>1 DEF Load, Session
        <3> QED BY <3>2, <3>3 DEF FreshStates
    <2>4. CASE Insert(c)
        <3> DEFINE k == session[c].state
        <3>1. /\ session'[c].pc = "found" /\ session'[c].state = k
              /\ session[c].pc = "loaded"
              /\ \A d \in Clients : d # c => session'[d] = session[d]
              /\ \A n \in Codes : provider'[n] \in {provider[n], k}
            BY <1>0, <2>4 DEF Insert, NoSession, StatesHeld
        <3> QED BY <3>1 DEF FreshStates
    <2>5. CASE Allocate(c) \/ Refused(c) \/ ConfirmReg(c) \/ Drop(c)
        <3>1. UNCHANGED provider
            BY <2>5 DEF Allocate, Refused, ConfirmReg, Drop
        <3>2. /\ session'[c].pc # "loaded"
              /\ session'[c].state \in {session[c].state, None}
              /\ \A d \in Clients : d # c => session'[d] = session[d]
            BY <1>0, <2>5 DEF Allocate, Refused, ConfirmReg, Drop, NoSession, Session
        <3> QED BY <1>a, <3>1, <3>2
    <2> QED BY <1>1, <2>1, <2>2, <2>3, <2>4, <2>5 DEF ClientStep
<1>2. ASSUME NEW a \in Admins, AdminStep(a) PROVE FreshStates'
    <2>1. \A n \in Codes : provider'[n] \in {provider[n], None}
        BY <1>0, <1>2, OtherSteps DEF Unlist, StatesHeld
    <2>2. \A c \in Clients : /\ session'[c].pc = session[c].pc
                             /\ session'[c].state = session[c].state
        <3>1. CASE Memory(a)
            BY <3>1, OvertakeSame DEF Memory, RegistryIInv
        <3> QED BY <1>2, <3>1, OtherSteps
    <2> QED BY <1>a, <2>1, <2>2
<1>3. CASE CleanupStep \/ UNCHANGED vars
    <2>1. \A n \in Codes : provider'[n] \in {provider[n], None}
        BY <1>0, <1>3 DEF CleanupStep, CollectExpired, RemoveExpired, BecomeStale,
           ReleaseCheck, ReleaseRemove,
           StatesHeld, vars
    <2> QED BY <1>3, <1>a, <2>1, OtherSteps DEF vars
<1>4. CASE Restart
    BY <1>4 DEF Restart, FreshStates, NoSession
<1> QED BY <1>1, <1>2, <1>3, <1>4 DEF Next

\* A registration that is not overtaken stays up to date.
LEMMA LoadsKept ==
    ASSUME RegistryIInv, RegistryIInv', LoadsConfiguration, [Next]_vars
    PROVE  LoadsConfiguration'
<1>0. /\ session \in [Clients -> Session] /\ StatesHeld /\ StatesHeld'
      /\ \A c \in Clients : SessionOK(session[c]) /\ SessionOK(session'[c])
    BY DEF RegistryIInv, SessionsTyped
<1> DEFINE Copies(c) == /\ session[c].pc \in {"waiting", "loading", "loaded"}
                        /\ ~session[c].overtaken
           Copied(c) == Copies(c) => session[c].net = db_nets[session[c].code]
           Built(c) == session[c].pc = "loaded" =>
                           states[session[c].state].net = session[c].net
\* A state that was loaded keeps its subnet.
<1>a. ASSUME NEW c \in Clients, session[c].pc = "loaded", session'[c].pc = "loaded",
             session'[c].state = session[c].state, session'[c].net = session[c].net
      PROVE  Built(c)'
    <2> DEFINE k == session[c].state
    <2>1. k \in StateIds /\ states[k] # None /\ states'[k] # None
        BY <1>0, <1>a DEF SessionOK, StatesHeld, Held
    <2> QED BY <1>a, <2>1, StateStep DEF LoadsConfiguration
<1>b. ASSUME NEW c \in Clients, UNCHANGED <<db_nets, session[c]>>
      PROVE  Copied(c)' /\ Built(c)'
    BY <1>b, <1>a DEF LoadsConfiguration
<1>1. ASSUME NEW c \in Clients, NEW d \in Clients, ClientStep(d)
      PROVE  Copied(c)' /\ Built(c)'
    <2>0. UNCHANGED db_nets
        BY <1>1, OtherSteps
    <2>1. CASE c # d
        <3>1. UNCHANGED session[c]
            BY <1>0, <1>1, <2>1, ClientStepSession DEF SessionBecomes
        <3> QED BY <1>b, <2>0, <3>1
    <2>2. CASE c = d
        <3>a. ASSUME NEW n \in Codes, Found(c, n) PROVE Copied(c)' /\ Built(c)'
            BY <1>0, <3>a DEF Found, NoSession
        <3>1. ASSUME NEW n \in Codes, register(c, n) PROVE Copied(c)' /\ Built(c)'
            BY <1>0, <2>0, <3>1, <3>a DEF register, NoSession
        <3>2. CASE Lock(c)
            <4>1. CASE ~Found(c, session[c].code)
                <5>1. session' = [session EXCEPT ![c].pc = "loading"]
                    BY <3>2, <4>1 DEF Lock
                <5> QED BY <1>0, <2>0, <3>2, <5>1 DEF Lock, LoadsConfiguration, Session
            <4> QED BY <1>0, <3>2, <3>a, <4>1 DEF Lock, SessionOK
        <3>3. CASE Load(c)
            <4>1. PICK devices \in {rows[session[c].code], {}}, k \in StateIds :
                     /\ session' = [session EXCEPT ![c].pc = "loaded", ![c].state = k]
                     /\ StatesBecome([states EXCEPT ![k] =
                           [net |-> session[c].net, devices |-> devices,
                            stray |-> FALSE, stale |-> FALSE, belated |-> FALSE]])
                BY <3>3 DEF Load
            <4>2. /\ session'[c].pc = "loaded" /\ session'[c].state = k
                  /\ session'[c].net = session[c].net /\ session'[c].code = session[c].code
                  /\ session'[c].overtaken = session[c].overtaken
                BY <1>0, <4>1 DEF Session
            <4>3. Held(k)'
                BY <4>2 DEF Held
            <4>4. states'[k].net = session[c].net
                BY <1>0, <4>1, <4>3 DEF StatesBecome, StatesHeld
            <4> QED BY <2>0, <3>3, <4>2, <4>4 DEF Load, LoadsConfiguration
        <3>4. CASE Insert(c)
            BY <1>0, <3>4 DEF Insert, NoSession
        <3>5. CASE Allocate(c) \/ Refused(c) \/ ConfirmReg(c) \/ Drop(c)
            BY <1>0, <3>5 DEF Allocate, Refused, ConfirmReg, Drop, NoSession, Session
        <3> QED BY <1>1, <2>2, <3>1, <3>2, <3>3, <3>4, <3>5 DEF ClientStep
    <2> QED BY <2>1, <2>2
<1>2. ASSUME NEW c \in Clients, NEW a \in Admins, AdminStep(a)
      PROVE  Copied(c)' /\ Built(c)'
    <2>1. CASE Memory(a)
        <3> DEFINE n == admin[a].code
        <3>1. /\ \A m \in Codes : m # n => db_nets'[m] = db_nets[m]
              /\ Overtake(n)
            BY <2>1 DEF Memory, RegistryIInv, TablesTyped
        <3>2. CASE session[c].pc \in Registering /\ session[c].code = n
            <4>1. session'[c] = [session[c] EXCEPT !.overtaken = TRUE]
                BY <3>1, <3>2 DEF Overtake
            <4>2. /\ session'[c].overtaken /\ session'[c].pc = session[c].pc
                  /\ session'[c].state = session[c].state
                  /\ session'[c].net = session[c].net
                BY <1>0, <4>1 DEF Session
            <4> QED BY <1>a, <4>2
        <3>3. CASE ~(session[c].pc \in Registering /\ session[c].code = n)
            <4>1. UNCHANGED session[c]
                BY <3>1, <3>3 DEF Overtake
            <4>2. Copies(c) => db_nets'[session[c].code] = db_nets[session[c].code]
                BY <1>0, <3>1, <3>3 DEF Registering, SessionOK
            <4> QED BY <1>a, <4>1, <4>2 DEF LoadsConfiguration
        <3> QED BY <3>2, <3>3
    <2> QED BY <1>2, <1>b, <2>1, OtherSteps
<1>3. ASSUME NEW c \in Clients, Restart PROVE Copied(c)' /\ Built(c)'
    BY <1>3 DEF Restart, NoSession
<1>4. ASSUME NEW c \in Clients, CleanupStep \/ UNCHANGED vars
      PROVE  Copied(c)' /\ Built(c)'
    BY <1>4, <1>b, OtherSteps DEF vars
<1> QED BY <1>1, <1>2, <1>3, <1>4 DEF Next, LoadsConfiguration

\* A handler has parsed a request and calls the service.
NewRequest(a) == \E n \in Codes : \/ add_network(a, n) \/ update_network(a, n)
                                 \/ delete_network(a, n) \/ delete_device(a, n)

\* A request is new or takes the step it has come to.
LEMMA RequestAt ==
    ASSUME NEW a \in Admins, AdminStep(a)
    PROVE  \/ /\ NewRequest(a) /\ admin[a] = NoRequest /\ (agreed' => agreed /\ Alone(a))
              /\ UNCHANGED stored
           \/ admin[a].pc \in {"has_devices", "count", "row"} /\ UNCHANGED <<stored, agreed>>
           \/ admin[a].pc = "db" /\ Store(a) /\ UNCHANGED agreed
           \/ /\ admin[a].pc = "memory" /\ (Memory(a) \/ DeleteDevice(a))
              /\ UNCHANGED <<stored, agreed>>
           \/ admin[a].pc = "remove" /\ RemoveDevice(a) /\ UNCHANGED <<stored, agreed>>
           \/ admin[a].pc = "unlist" /\ Unlist(a) /\ UNCHANGED <<stored, agreed>>
<1>1. ASSUME NewRequest(a)
      PROVE  admin[a] = NoRequest /\ (agreed' => agreed /\ Alone(a)) /\ UNCHANGED stored
    BY <1>1 DEF NewRequest, add_network, update_network, delete_network, delete_device, Ask
<1>2. CASE HasDevices(a) \/ Count(a) \/ DeleteRow(a)
    BY <1>2 DEF HasDevices, Count, DeleteRow
<1>3. CASE Store(a)
    BY <1>3 DEF Store
<1>4. CASE Memory(a) \/ DeleteDevice(a)
    BY <1>4 DEF Memory, DeleteDevice
<1>5. CASE Unlist(a) \/ RemoveDevice(a)
    BY <1>5 DEF Unlist, RemoveDevice
<1> QED BY <1>1, <1>2, <1>3, <1>4, <1>5 DEF AdminStep, NewRequest

\* What a step of a request may do to the tables, to agreed and to other requests.
LEMMA RequestFrame ==
    ASSUME RegistryIInv, NEW a \in Admins, AdminStep(a)
    PROVE  /\ \A b \in Admins : b # a => admin'[b] = admin[b]
           /\ agreed' => agreed
           /\ admin[a] = NoRequest /\ agreed' => Alone(a)
           /\ Store(a) \/ UNCHANGED stored
<1>1. \A b \in Admins : b # a => admin'[b] = admin[b]
    BY AdminStepRequest DEF RequestBecomes, RegistryIInv, RequestsTyped
<1>2. NoRequest.pc = "idle"
    BY DEF NoRequest
<1>3. agreed' => agreed
    BY RequestAt
<1>4. ASSUME admin[a] = NoRequest, agreed' PROVE Alone(a)
    <2>1. admin[a].pc = "idle"
        BY <1>2, <1>4
    <2> QED BY <1>4, <2>1, RequestAt
<1>5. Store(a) \/ UNCHANGED stored
    BY RequestAt
<1> QED BY <1>1, <1>3, <1>4, <1>5

\* A request that is under way is the only one.
LEMMA OnlyOne ==
    ASSUME OneRequest, agreed, NEW a \in Admins, admin[a].pc # "idle",
           NEW b \in Admins, admin[b].pc # "idle"
    PROVE  a = b
BY DEF OneRequest, NoRequest

\* What a request is about to change stays as it was.
LEMMA OneRequestKept ==
    ASSUME RegistryIInv, OneRequest, StoredAgrees, [Next]_vars
    PROVE  OneRequest'
<1>0. /\ \A a \in Admins : RequestOK(admin[a])
      /\ admin \in [Admins -> Request] /\ TablesTyped
    BY DEF RegistryIInv, RequestsTyped
<1> DEFINE Due(a) ==
        /\ admin[a].op = "add" => db_nets[admin[a].code] = None
        /\ admin[a].op = "update" /\ admin[a].pc \in {"has_devices", "count", "db"}
              => db_nets[admin[a].code] # None
        /\ Changes(admin[a]) /\ admin[a].pc = "memory"
              => stored[admin[a].code] = admin[a].net
<1>1. ASSUME NEW a \in Admins, AdminStep(a), agreed'
      PROVE  OneRequest'
    <2>1. agreed /\ (\A b \in Admins : b # a => admin'[b] = admin[b])
          /\ (admin[a] = NoRequest => Alone(a))
        BY <1>1, RequestFrame
    <2>2. \A b \in Admins : b # a => admin'[b] = NoRequest
        <3>1. CASE admin[a] = NoRequest
            BY <2>1, <3>1 DEF Alone
        <3>2. CASE admin[a] # NoRequest
            BY <2>1, <3>2 DEF OneRequest
        <3> QED BY <3>1, <3>2
    <2>3. Due(a)'
        <3>0. RequestOK(admin[a]) /\ Due(a)
            BY <1>0, <2>1 DEF OneRequest
        <3>a. CASE Ends(a)
            BY <1>0, <3>a DEF Ends, NoRequest, Changes
        <3>1. ASSUME NEW n \in Codes,
                     \/ add_network(a, n) \/ update_network(a, n)
                     \/ delete_network(a, n) \/ delete_device(a, n)
              PROVE  Due(a)'
            <4>1. CASE add_network(a, n)
                <5>1. PICK net \in Nets : admin' = [admin EXCEPT ![a] =
                         [NoRequest EXCEPT !.op = "add", !.pc = "db", !.code = n, !.net = net]]
                    BY <4>1 DEF add_network, Ask
                <5>2. db_nets'[n] = None
                    BY <4>1 DEF add_network, Ask
                <5> QED BY <1>0, <5>1, <5>2 DEF NoRequest
            <4>2. CASE update_network(a, n)
                <5>1. PICK net \in Nets \cup {BadNet} : admin' = [admin EXCEPT ![a] =
                         [NoRequest EXCEPT !.op = "update", !.pc = "has_devices",
                                           !.code = n, !.net = net]]
                    BY <4>2 DEF update_network, Ask
                <5>2. db_nets'[n] # None
                    BY <4>2 DEF update_network, Ask
                <5> QED BY <1>0, <5>1, <5>2 DEF NoRequest
            <4>3. CASE delete_network(a, n)
                <5>1. admin' = [admin EXCEPT ![a] = [NoRequest EXCEPT
                         !.op = "delete", !.pc = "has_devices", !.code = n]]
                    BY <4>3 DEF delete_network, Ask
                <5> QED BY <1>0, <5>1 DEF NoRequest
            <4>4. CASE delete_device(a, n)
                <5>1. PICK d \in Clients : admin' = [admin EXCEPT ![a] = [NoRequest EXCEPT
                         !.op = "device", !.pc = "memory", !.code = n, !.device = d]]
                    BY <4>4 DEF delete_device, Ask
                <5> QED BY <1>0, <5>1 DEF NoRequest, Changes
            <4> QED BY <3>1, <4>1, <4>2, <4>3, <4>4
        <3>2. CASE (HasDevices(a) \/ Count(a)) /\ ~Ends(a)
            <4>1. PICK pc \in {"count", "db"} : Goes(a, pc)
                BY <3>2 DEF HasDevices, Count
            <4>2. UNCHANGED <<db_nets, stored>> /\ admin[a].pc \in {"has_devices", "count"}
                BY <3>2 DEF HasDevices, Count
            <4>3. admin'[a] = [admin[a] EXCEPT !.pc = pc]
                BY <1>0, <4>1 DEF Goes
            <4>4. /\ admin'[a].pc = pc /\ admin'[a].op = admin[a].op
                  /\ admin'[a].code = admin[a].code /\ pc # "memory"
                BY <1>0, <4>3 DEF Request
            <4> QED BY <3>0, <4>2, <4>4
        <3>4. CASE Store(a) /\ ~Ends(a)
            <4> DEFINE n == admin[a].code
            <4>1. n \in Codes /\ Changes(admin[a])
                BY <3>0, <3>4 DEF Store, RequestOK, Request, Changes
            <4>2. /\ Goes(a, "memory") /\ UNCHANGED db_nets
                  /\ stored' = [stored EXCEPT ![n] =
                        CASE admin[a].op = "add" -> admin[a].net
                          [] admin[a].op = "update" ->
                                IF stored[n] = None THEN None ELSE admin[a].net
                          [] admin[a].op = "delete" -> None]
                BY <3>4 DEF Store
            <4>3. /\ admin'[a].pc = "memory" /\ admin'[a].op = admin[a].op
                  /\ admin'[a].code = n /\ admin'[a].net = admin[a].net
                BY <1>0, <4>2 DEF Goes, Request
            <4>4. stored'[n] = admin[a].net
                <5>1. CASE admin[a].op = "add"
                    BY <1>0, <4>1, <4>2, <5>1 DEF TablesTyped
                <5>2. CASE admin[a].op = "update"
                    <6>1. db_nets[n] # None
                        BY <3>0, <3>4, <5>2 DEF Store
                    <6>2. stored[n] \in {db_nets[n], BadNet}
                        <7>1. ASSUME NEW b \in Admins, admin[b].pc = "memory" PROVE FALSE
                            BY <2>1, <3>4, <7>1, OnlyOne DEF Store
                        <7> QED BY <2>1, <4>1, <7>1 DEF StoredAgrees
                    <6>3. stored[n] # None
                        BY <6>1, <6>2, NoneAssumption
                    <6> QED BY <1>0, <4>1, <4>2, <5>2, <6>3 DEF TablesTyped
                <5>3. CASE admin[a].op = "delete"
                    BY <1>0, <3>0, <4>1, <4>2, <5>3 DEF TablesTyped, RequestOK
                <5> QED BY <4>1, <5>1, <5>2, <5>3 DEF Changes
            <4> QED BY <3>0, <4>2, <4>3, <4>4
        <3>5. CASE Memory(a) /\ ~Ends(a)
            <4>1. Goes(a, "unlist") /\ admin[a].op # "add"
                BY <3>5 DEF Memory
            <4>2. admin'[a].pc = "unlist" /\ admin'[a].op = admin[a].op
                BY <1>0, <4>1 DEF Goes, Request
            <4> QED BY <4>1, <4>2
        <3>6. CASE (DeleteDevice(a) \/ RemoveDevice(a)) /\ ~Ends(a)
            <4>1. PICK pc : Goes(a, pc) /\ admin[a].op = "device"
                BY <3>0, <3>6 DEF DeleteDevice, RemoveDevice, RequestOK
            <4>2. admin'[a].op = "device"
                BY <1>0, <4>1 DEF Goes, Request
            <4> QED BY <4>2 DEF Changes
        <3> QED BY <1>1, <3>a, <3>1, <3>2, <3>4, <3>5, <3>6 DEF AdminStep, Unlist, DeleteRow
    <2>4. \A b \in Admins : b # a => Due(b)'
        BY <2>2 DEF NoRequest, Changes
    <2> QED BY <2>2, <2>3, <2>4 DEF OneRequest
<1>2. ASSUME UNCHANGED <<db_nets, stored, admin, agreed>> PROVE OneRequest'
    BY <1>2 DEF OneRequest, Changes
<1>3. CASE Restart
    BY <1>3 DEF Restart, OneRequest, NoRequest, Changes
<1>4. ASSUME ~agreed' PROVE OneRequest'
    BY <1>4 DEF OneRequest
<1> QED BY <1>1, <1>2, <1>3, <1>4, OtherSteps DEF Next, vars

\* Only a request between its two writes leaves the table ahead of db_nets.
LEMMA StoredKept ==
    ASSUME RegistryIInv, OneRequest, StoredAgrees, [Next]_vars
    PROVE  StoredAgrees'
<1>0. /\ \A a \in Admins : RequestOK(admin[a])
      /\ admin \in [Admins -> Request] /\ TablesTyped
    BY DEF RegistryIInv, RequestsTyped
<1> DEFINE Changing(b, n) == /\ admin[b].code = n /\ admin[b].pc = "memory"
                             /\ Changes(admin[b])
<1>1. ASSUME NEW a \in Admins, AdminStep(a), agreed', NEW n \in Codes
      PROVE  \/ stored'[n] \in {db_nets'[n], BadNet}
             \/ \E b \in Admins : Changing(b, n)'
    <2>1. agreed /\ (\A b \in Admins : b # a => admin'[b] = admin[b])
          /\ (Store(a) \/ UNCHANGED stored)
        BY <1>1, RequestFrame
    <2>2. \/ stored[n] \in {db_nets[n], BadNet}
          \/ \E b \in Admins : Changing(b, n)
        BY <2>1 DEF StoredAgrees
    <2>3. CASE Memory(a)
        <3> DEFINE m == admin[a].code
        <3>1. /\ m \in Codes /\ UNCHANGED stored /\ stored[m] = admin[a].net
              /\ db_nets' = [db_nets EXCEPT ![m] = admin[a].net]
            BY <1>0, <2>1, <2>3 DEF Memory, RequestOK, OneRequest, Changes
        <3>2. CASE n = m
            BY <1>0, <3>1, <3>2 DEF TablesTyped
        <3>3. CASE n # m
            <4>1. ASSUME NEW b \in Admins, Changing(b, n) PROVE FALSE
                BY <2>1, <2>3, <3>3, <4>1, OnlyOne DEF Memory
            <4> QED BY <1>0, <2>2, <3>1, <3>3, <4>1 DEF TablesTyped
        <3> QED BY <3>2, <3>3
    <2>4. CASE Store(a)
        <3> DEFINE m == admin[a].code
        <3>1. m \in Codes /\ Changes(admin[a]) /\ UNCHANGED db_nets
            BY <1>0, <2>4 DEF Store, RequestOK, Request, Changes
        <3>2. ASSUME NEW b \in Admins, Changing(b, n) PROVE FALSE
            BY <2>1, <2>4, <3>2, OnlyOne DEF Store
        <3>3. CASE Goes(a, "memory") /\ n = m
            <4>1. admin'[a] = [admin[a] EXCEPT !.pc = "memory"]
                BY <1>0, <3>3 DEF Goes
            <4>2. Changing(a, n)'
                BY <1>0, <3>1, <3>3, <4>1 DEF Request, Changes
            <4> QED BY <4>2
        <3>4. CASE n # m
            BY <1>0, <2>2, <2>4, <3>1, <3>2, <3>4 DEF Store, TablesTyped
        <3>5. CASE ~Goes(a, "memory") /\ n = m
            <4>1. UNCHANGED stored \/ admin[a].net = BadNet
                BY <2>4, <3>5 DEF Store
            <4>2. CASE UNCHANGED stored
                BY <2>2, <3>1, <3>2, <4>2
            <4>3. CASE admin[a].net = BadNet /\ ~UNCHANGED stored
                <5>1. stored' = [stored EXCEPT ![m] =
                        CASE admin[a].op = "add" -> admin[a].net
                          [] admin[a].op = "update" ->
                                IF stored[m] = None THEN None ELSE admin[a].net
                          [] admin[a].op = "delete" -> None]
                    BY <2>4, <4>3 DEF Store
                <5>2. admin[a].op # "delete"
                    BY <1>0, <4>3, NoneAssumption DEF RequestOK
                <5>3. stored'[m] \in {stored[m], BadNet}
                    <6>1. CASE admin[a].op = "add"
                        BY <1>0, <3>1, <4>3, <5>1, <6>1 DEF TablesTyped
                    <6>2. CASE admin[a].op = "update"
                        BY <1>0, <3>1, <4>3, <5>1, <6>2 DEF TablesTyped
                    <6> QED BY <3>1, <5>2, <6>1, <6>2 DEF Changes
                <5> QED BY <2>2, <3>1, <3>2, <3>5, <5>3
            <4> QED BY <4>1, <4>2, <4>3
        <3> QED BY <3>3, <3>4, <3>5
    <2>5. CASE ~Memory(a) /\ ~Store(a)
        <3>1. UNCHANGED <<stored, db_nets>>
            BY <1>1, <2>1, <2>5, OtherSteps
        <3>2. ~Changing(a, n)
            <4>1. DeleteDevice(a) => ~Changes(admin[a])
                BY DEF DeleteDevice, Changes
            <4>2. NoRequest.pc = "idle"
                BY DEF NoRequest
            <4>3. admin[a].pc = "memory" => DeleteDevice(a)
                BY <1>1, <2>5, <4>2, RequestAt
            <4> QED BY <4>1, <4>3
        <3>3. \A b \in Admins : Changing(b, n) => Changing(b, n)'
            BY <2>1, <3>2 DEF Changes
        <3> QED BY <2>2, <3>1, <3>3
    <2> QED BY <2>3, <2>4, <2>5
<1>2. ASSUME UNCHANGED <<db_nets, stored, admin, agreed>> PROVE StoredAgrees'
    BY <1>2 DEF StoredAgrees, Changes
<1>3. CASE Restart
    <2>1. agreed' => db_nets' = Managed(stored')
        BY <1>3 DEF Restart
    <2> QED BY <2>1 DEF Managed, StoredAgrees
<1>4. ASSUME ~agreed' PROVE StoredAgrees'
    BY <1>4 DEF StoredAgrees
<1>5. ASSUME NEW a \in Admins, AdminStep(a) PROVE StoredAgrees'
    BY <1>1, <1>4, <1>5 DEF StoredAgrees
<1> QED BY <1>2, <1>3, <1>5, OtherSteps DEF Next, vars

\* What is served stays what is configured.
LEMMA ListedKept ==
    ASSUME RegistryIInv, RegistryIInv', ConfigIInv, [Next]_vars
    PROVE  ListedHasConfig'
<1>0. /\ StatesHeld /\ StatesHeld' /\ TablesTyped
      /\ admin \in [Admins -> Request] /\ \A a \in Admins : RequestOK(admin[a])
      /\ session \in [Clients -> Session] /\ \A c \in Clients : SessionOK(session[c])
    BY DEF RegistryIInv, RequestsTyped, SessionsTyped
<1> DEFINE Taken(n) == \E b \in Admins : admin[b].code = n /\ admin[b].pc = "unlist"
           Fits(n) == \/ provider[n] = None
                        \/ states[provider[n]].net = db_nets[n]
                        \/ states[provider[n]].belated
                        \/ Taken(n)
<1>1. CASE Restart
    BY <1>1 DEF Restart, ListedHasConfig
<1>2. ASSUME NEW n \in Codes, agreed', provider'[n] # None, ~Restart
      PROVE  Fits(n)'
    <2> DEFINE k == provider'[n]
    <2>0. agreed
        BY <1>2, OtherSteps, RequestFrame DEF Next, vars
    <2>1. k \in StateIds /\ states'[k] # None
        BY <1>0, <1>2 DEF StatesHeld, Held
    <2>2. CASE provider'[n] # provider[n]
        <3>1. PICK c \in Clients : /\ Insert(c) /\ session[c].code = n
                                   /\ k = session[c].state
            BY <1>0, <1>2, <2>2, ProviderStep
        <3>2. states'[k].belated = session[c].overtaken /\ UNCHANGED db_nets
            BY <1>0, <2>1, <3>1 DEF Insert, StatesBecome, StatesHeld, Held, NetworkState
        <3>3. states[k] # None
            BY <1>0, <2>1, <3>1 DEF StatesHeld, Held
        <3>6. session[c].pc = "loaded"
            BY <3>1 DEF Insert
        <3>7. states[k].net = session[c].net
            BY <3>1, <3>6 DEF ConfigIInv, LoadsConfiguration
        <3>4. states'[k].net = session[c].net
            BY <2>1, <3>3, <3>7, StateStep
        <3>5. CASE ~session[c].overtaken
            BY <3>1, <3>2, <3>4, <3>5, <3>6 DEF ConfigIInv, LoadsConfiguration
        <3> QED BY <3>2, <3>5
    <2>3. CASE provider'[n] = provider[n]
        <3>1. states[k] # None /\ states[k] \in NetworkState
            BY <1>0, <1>2, <2>1, <2>3 DEF StatesHeld, Held
        <3>2. states'[k].net = states[k].net /\ states'[k].belated = states[k].belated
            <4>1. ASSUME NEW c \in Clients, Insert(c), session[c].state = k PROVE FALSE
                BY <2>3, <4>1 DEF Insert, ConfigIInv, FreshStates
            <4> QED BY <2>1, <3>1, <4>1, StateStep
        <3>3. Fits(n)
            BY <2>0 DEF ConfigIInv, ListedHasConfig
        <3>4. CASE states[k].belated
            BY <3>2, <3>4
        <3>5. ASSUME NEW b \in Admins, admin[b].code = n, admin[b].pc = "unlist"
              PROVE  Fits(n)'
            <4>1. CASE UNCHANGED admin
                BY <3>5, <4>1
            <4>2. ASSUME NEW a \in Admins, AdminStep(a) PROVE Fits(n)'
                <5>1. CASE a = b
                    <6>1. Unlist(a)
                        BY <3>5, <4>2, <5>1, RequestAt DEF NoRequest
                    <6> QED BY <1>0, <1>2, <3>5, <5>1, <6>1 DEF Unlist, StatesHeld
                <5>2. CASE a # b
                    BY <3>5, <4>2, <5>2, RequestFrame
                <5> QED BY <5>1, <5>2
            <4> QED BY <1>2, <4>1, <4>2, OtherSteps DEF Next, vars
        <3>6. CASE states[k].net = db_nets[n]
            <4>1. CASE UNCHANGED db_nets
                BY <3>2, <3>6, <4>1
            <4>2. ASSUME NEW a \in Admins, Memory(a) PROVE Fits(n)'
                <5>1. CASE admin[a].code # n
                    BY <1>0, <3>2, <3>6, <4>2, <5>1 DEF Memory, TablesTyped
                <5>2. CASE admin[a].code = n
                    <6>1. admin[a].op # "add"
                        BY <2>0, <3>1, <3>6, <5>2, NoneAssumption DEF ConfigIInv, OneRequest,
                           NetworkState
                    <6>2. admin'[a] = [admin[a] EXCEPT !.pc = "unlist"]
                        BY <1>0, <4>2, <6>1 DEF Memory, Goes
                    <6>3. admin'[a].pc = "unlist" /\ admin'[a].code = n
                        BY <1>0, <5>2, <6>2 DEF Request
                    <6> QED BY <6>3
                <5> QED BY <5>1, <5>2
            <4> QED BY <1>2, <4>1, <4>2, OtherSteps DEF Next, vars
        <3> QED BY <1>2, <2>3, <3>3, <3>4, <3>5, <3>6
    <2> QED BY <2>2, <2>3
<1> QED BY <1>1, <1>2 DEF ListedHasConfig

\* Where the three places that know the configuration may differ.
THEOREM ConfigurationInvariant == Spec => []ConfigIInv
<1>1. RegistryIInv /\ RegistryIInv' /\ ConfigIInv /\ [Next]_vars => ConfigIInv'
    BY FreshKept, LoadsKept, OneRequestKept, StoredKept, ListedKept DEF ConfigIInv
<1> QED BY InitConfig, RegistryInvariant, <1>1, PTL DEF Spec

\* ConfigurationsAgree: as long as the requests of the administrator do not
\* overlap and the table can be read, a network is served with the subnet that
\* is configured, and a restart brings back what is configured
\* (update_network, delete_network, load_or_initialize_networks).
THEOREM ConfigurationsStayTogether == Spec => []ConfigurationsAgree
<1>1. ConfigIInv => ConfigurationsAgree
    BY DEF ConfigIInv, ConfigurationsAgree, StoredAgrees, StoredIsServed
<1> QED BY <1>1, ConfigurationInvariant, PTL
=============================================================================
