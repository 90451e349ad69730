--------------------------- MODULE ControlService ---------------------------
(***************************************************************************)
(* The registry of networks on the server (vnts): db_nets, the configured  *)
(* networks in memory; the tables networks and devices they stem from; and *)
(* network_state_provider, the NetworkStates that serve them, which are    *)
(* created by the first registration and given up when nobody is left.     *)
(*                                                                         *)
(* A registration copies the configuration, looks its network up, and      *)
(* where there is none waits for a lock and for the database before it     *)
(* lists a new one.  The administrator's requests check that nobody is     *)
(* there, wait for the database, change db_nets and drop the listed state. *)
(* All of these and the cleanup task run side by side; every await is a    *)
(* step of its own, and so is every critical section of a state.           *)
(*                                                                         *)
(* A NetworkState is what its count and its emptiness depend on; leases    *)
(* are NetworkState's.  A client is a device with one connection at a      *)
(* time.  A configuration is its subnet: secrets and lease durations       *)
(* change together with it.  BadNet is a gateway that parses but has no    *)
(* subnet (0.0.0.0).                                                       *)
(***************************************************************************)
EXTENDS Integers, FiniteSets

CONSTANTS
    Codes,        \* network codes
    DefaultCode,  \* DEFAULT_NETWORK_CODE
    Clients,      \* devices, each with one connection
    Admins,       \* requests of the web interface that may overlap
    Nets,         \* valid subnets
    BadNet,       \* what update_network stores before it notices
    ConfigNets,   \* custom_nets of the configuration file
    StateIds,     \* NetworkStates that exist at a time, a bound
    MaxEvents,    \* bound on requests, sweeps and restarts
    None          \* Option::None

ASSUME ConfigAssumption ==
    /\ ConfigNets \in [Codes -> Nets \cup {None}]
    /\ MaxEvents \in Nat

VARIABLES
    db_nets,   \* networks in memory: code -> subnet or None
    stored,    \* table networks: code -> subnet, BadNet or None
    rows,      \* table devices: code -> the devices that have a row
    provider,  \* network_state_provider: code -> id of a NetworkState, or None
    states,    \* the NetworkStates that somebody holds an Arc of
    init_lock, \* network_init_locks: code -> the client that holds it
    session,   \* registrations under way and sessions
    admin,     \* requests of the administrator
    sweep,     \* release_expired_ips between its two looks at a state
    release,   \* release_network between its check and its removal: a code
    events,    \* requests, sweeps and restarts so far
    agreed,    \* history: no two requests overlapped, no load failed
    exposed    \* history: clients that registered while somebody had found
               \*   the network unused, or lost their device while served

vars == <<db_nets, stored, rows, provider, states, init_lock, session,
          admin, sweep, release, events, agreed, exposed>>

\* stray: a sender is left in sender_map whose device is gone.
NetworkState == [net : Nets, devices : SUBSET Clients, stray : BOOLEAN,
                 stale : BOOLEAN, belated : BOOLEAN]

ASSUME NoneAssumption ==
    /\ None \notin Codes /\ None \notin Clients /\ None \notin StateIds
    /\ None \notin Nets /\ None # BadNet /\ None \notin NetworkState

\* Registering: "waiting" for the lock, "loading" from the
\* database, "loaded", "found" a state.  overtaken (history): db_nets changed
\* after the configuration was copied; a state that is listed by such a
\* registration is belated.
Registering == {"waiting", "loading", "loaded", "found"}
NoSession == [pc |-> "none", code |-> None, net |-> None, state |-> None,
              overtaken |-> FALSE]
Session == [pc : Registering \cup {"none", "pending", "confirmed"},
            code : Codes \cup {None}, net : Nets \cup {None},
            state : StateIds \cup {None}, overtaken : BOOLEAN]

NoRequest == [op |-> "none", pc |-> "idle", code |-> None, net |-> None,
              device |-> None]
Request == [op : {"none", "add", "update", "delete", "device"},
            pc : {"idle", "has_devices", "count", "db", "memory", "unlist",
                  "remove", "row"},
            code : Codes \cup {None}, net : Nets \cup {BadNet, None},
            device : Clients \cup {None}]
NoSweep == [state |-> None, expired |-> {}]

\* Somebody has an Arc of state k.
Held(k) == \/ \E n \in Codes : provider[n] = k
           \/ \E c \in Clients : session[c].state = k
           \/ sweep.state = k

TypeOK ==
    /\ db_nets \in [Codes -> Nets \cup {None}]
    /\ stored \in [Codes -> Nets \cup {BadNet, None}]
    /\ rows \in [Codes -> SUBSET Clients]
    /\ provider \in [Codes -> StateIds \cup {None}]
    /\ states \in [StateIds -> NetworkState \cup {None}]
    /\ init_lock \in [Codes -> Clients \cup {None}]
    /\ session \in [Clients -> Session]
    /\ admin \in [Admins -> Request]
    /\ sweep \in [state : StateIds \cup {None}, expired : SUBSET Clients]
    /\ release \in Codes \cup {None}
    /\ events \in 0 .. MaxEvents /\ agreed \in BOOLEAN
    /\ exposed \subseteq Clients
    \* Arcs point to states that exist, and the others are freed.
    /\ \A k \in StateIds : states[k] # None <=> Held(k)

\* Without a table, or when it cannot be read.
build_networks_from_config == ConfigNets

Init ==
    /\ db_nets = build_networks_from_config /\ stored = ConfigNets
    /\ rows = [n \in Codes |-> {}]
    /\ provider = [n \in Codes |-> None]
    /\ states = [k \in StateIds |-> None]
    /\ init_lock = [n \in Codes |-> None]
    /\ session = [c \in Clients |-> NoSession]
    /\ admin = [a \in Admins |-> NoRequest]
    /\ sweep = NoSweep /\ release = None
    /\ events = 0 /\ agreed = TRUE /\ exposed = {}

-----------------------------------------------------------------------------
(***************************************************************************)
(* Registration and sessions                                               *)
(***************************************************************************)

\* The devices of a state that are connected: their entries are, and they
\* have a sender (NetworkState shows more of the two).
Senders(k) == {c \in states[k].devices :
                  /\ session[c].state = k
                  /\ session[c].pc \in {"pending", "confirmed"}}

\* A request, or the cleanup task, has found network n unused and is going to
\* take its state off the list.
Unlisting(n) ==
    \/ release = n
    \/ \E a \in Admins : /\ admin[a].code = n
                        /\ admin[a].op \in {"update", "delete"}
                        /\ admin[a].pc \in {"db", "memory", "unlist"}

Underway(n) == {c \in Clients : session[c].pc \in Registering /\ session[c].code = n}

\* The states become f, without those whose last Arc is dropped in this step.
StatesBecome(f) ==
    states' = [k \in StateIds |-> IF Held(k)' THEN f[k] ELSE None]

\* get and update_time: the listed state is found and not stale any more.
Found(c, n) ==
    LET k == provider[n] IN
    /\ k # None /\ UNCHANGED <<provider, sweep>>
    /\ session' = [session EXCEPT ![c] =
          [NoSession EXCEPT !.pc = "found", !.code = n, !.state = k]]
    /\ StatesBecome([states EXCEPT ![k].stale = FALSE])

\* register up to the lock: network_config, and the first look at the
\* registry.  A network that is not configured is refused.  What is changed
\* between the two matters only to those who wait, as if they waited already.
register(c, n) ==
    /\ session[c].pc = "none" /\ db_nets[n] # None
    /\ \/ Found(c, n)
       \/ /\ provider[n] = None
          /\ session' = [session EXCEPT ![c] =
                [NoSession EXCEPT !.pc = "waiting", !.code = n,
                                  !.net = db_nets[n]]]
          /\ UNCHANGED <<provider, states, sweep>>
    /\ exposed' = IF Unlisting(n) THEN exposed \cup {c} ELSE exposed
    /\ UNCHANGED <<db_nets, stored, rows, init_lock, admin, release, events,
                   agreed>>

\* Mutant: the lock is not given back when the state is found after all.
KeepLock(c) ==
    /\ session[c].pc = "waiting" /\ init_lock[session[c].code] = None
    /\ init_lock' = [init_lock EXCEPT ![session[c].code] = c]
    /\ \/ Found(c, session[c].code)
       \/ /\ provider[session[c].code] = None
          /\ session' = [session EXCEPT ![c].pc = "loading"]
          /\ UNCHANGED <<states, sweep>>
    /\ UNCHANGED <<db_nets, stored, rows, provider, admin, release, events,
                   agreed, exposed>>

\* Mutant: the registry is not looked at again under the lock.
SingleCheck(c) ==
    /\ session[c].pc = "waiting" /\ init_lock[session[c].code] = None
    /\ session' = [session EXCEPT ![c].pc = "loading"]
    /\ init_lock' = [init_lock EXCEPT ![session[c].code] = c]
    /\ UNCHANGED <<db_nets, stored, rows, provider, states, admin, sweep,
                   release, events, agreed, exposed>>

\* init_lock.lock().await and the second look.
Lock(c) ==
    /\ session[c].pc = "waiting" /\ init_lock[session[c].code] = None
    /\ \/ Found(c, session[c].code) /\ UNCHANGED init_lock
       \/ /\ provider[session[c].code] = None
          /\ session' = [session EXCEPT ![c].pc = "loading"]
          /\ init_lock' = [init_lock EXCEPT ![session[c].code] = c]
          /\ UNCHANGED <<states, sweep>>
    /\ UNCHANGED <<db_nets, stored, rows, provider, admin, release, events,
                   agreed, exposed>>

\* new_from_db with the configuration copied earlier; a query that fails
\* gives an empty network.
Load(c) ==
    /\ UNCHANGED <<provider, sweep>>
    /\ session[c].pc = "loading"
    /\ \E devices \in {rows[session[c].code], {}}, k \in StateIds :
          /\ states[k] = None
          /\ session' = [session EXCEPT ![c].pc = "loaded", ![c].state = k]
          /\ StatesBecome([states EXCEPT ![k] =
                [net |-> session[c].net, devices |-> devices, stray |-> FALSE,
                 stale |-> FALSE, belated |-> FALSE]])
    /\ UNCHANGED <<db_nets, stored, rows, init_lock, admin, release, events,
                   agreed, exposed>>

Insert(c) ==
    LET n == session[c].code
        k == session[c].state IN
    /\ session[c].pc = "loaded"
    /\ provider' = [provider EXCEPT ![n] = k]
    /\ UNCHANGED sweep
    /\ init_lock' = [init_lock EXCEPT ![n] = None]
    /\ session' = [session EXCEPT ![c] =
          [NoSession EXCEPT !.pc = "found", !.code = n, !.state = k]]
    /\ StatesBecome([states EXCEPT ![k].belated = session[c].overtaken])
    /\ UNCHANGED <<db_nets, stored, rows, admin, release, events, agreed,
                   exposed>>

\* A spawned save_or_update_device runs at once or is lost; what its delay
\* does is LeaseStore's subject.
SaveDevice(n, c) == rows' \in {rows, [rows EXCEPT ![n] = @ \cup {c}]}

\* allocate_ip: with an address the device is known, and a Normal
\* registration spawns the write of its row.  A stray sender is replaced when
\* the address is its own.
Allocate(c) ==
    /\ session[c].pc = "found"
    /\ \E stray \in {states[session[c].state].stray, FALSE} :
          states' = [states EXCEPT ![session[c].state].devices = @ \cup {c},
                                   ![session[c].state].stray = stray]
    /\ \/ /\ session' = [session EXCEPT ![c].pc = "confirmed"]
          /\ SaveDevice(session[c].code, c)
       \/ /\ session' = [session EXCEPT ![c].pc = "pending"]
          /\ UNCHANGED rows
    /\ UNCHANGED <<db_nets, stored, provider, init_lock, admin, sweep, release,
                   events, agreed, exposed>>

\* allocate_ip fails: the address is taken or there is none.
Refused(c) ==
    /\ session[c].pc = "found"
    /\ UNCHANGED <<provider, sweep>>
    /\ session' = [session EXCEPT ![c] = NoSession]
    /\ StatesBecome(states)
    /\ exposed' = exposed \ {c}
    /\ UNCHANGED <<db_nets, stored, rows, init_lock, admin, release, events,
                   agreed>>

\* handle_confirm_reg: the row of a device that is still known is written, and
\* the session is confirmed.
ConfirmReg(c) ==
    /\ session[c].pc = "pending"
    /\ rows' = [rows EXCEPT ![session[c].code] =
                   @ \cup ({c} \cap states[session[c].state].devices)]
    /\ session' = [session EXCEPT ![c].pc = "confirmed"]
    /\ UNCHANGED <<db_nets, stored, provider, states, init_lock, admin, sweep,
                   release, events, agreed, exposed>>

\* Session::drop works on the state the session holds, listed or not.  When
\* its device is gone it does nothing.
Drop(c) ==
    LET k == session[c].state IN
    /\ session[c].pc \in {"pending", "confirmed"}
    /\ UNCHANGED <<provider, sweep>>
    /\ session' = [session EXCEPT ![c] = NoSession]
    /\ exposed' = exposed \ {c}
    /\ IF session[c].pc = "pending"
       THEN /\ StatesBecome([states EXCEPT ![k].devices = @ \ {c}])
            /\ UNCHANGED rows
       ELSE /\ StatesBecome(states)
            /\ IF c \in Senders(k) THEN SaveDevice(session[c].code, c)
                                   ELSE UNCHANGED rows
    /\ UNCHANGED <<db_nets, stored, init_lock, admin, release, events, agreed>>

-----------------------------------------------------------------------------
(***************************************************************************)
(* The cleanup task                                                        *)
(***************************************************************************)

\* release_expired_ips collects offline devices of a listed state (one task
\* sweeps and releases) ...
CollectExpired(n) ==
    LET k == provider[n] IN
    /\ events < MaxEvents /\ events' = events + 1
    /\ sweep = NoSweep /\ release = None /\ k # None
    /\ \E expired \in SUBSET (states[k].devices \ Senders(k)) :
          expired # {} /\ sweep' = [state |-> k, expired |-> expired]
    /\ UNCHANGED <<db_nets, stored, rows, provider, states, init_lock, session,
                   admin, release, agreed, exposed>>

\* ... and forgets them in memory, whoever has connected meanwhile; a sender
\* stays then, and so do the rows.
RemoveExpired ==
    LET k == sweep.state
        cut == sweep.expired \cap Senders(k) IN
    /\ sweep # NoSweep /\ sweep' = NoSweep
    /\ UNCHANGED <<provider, session>>
    /\ StatesBecome([states EXCEPT ![k].devices = @ \ sweep.expired,
                                   ![k].stray = @ \/ cut # {}])
    /\ exposed' = exposed \cup cut
    /\ UNCHANGED <<db_nets, stored, rows, init_lock, admin, release, events,
                   agreed>>

\* An hour passes without a registration (only listed states are asked).  No
\* registration takes an hour between finding the state and allocating.
BecomeStale(n) ==
    LET k == provider[n] IN
    /\ k # None /\ ~states[k].stale
    /\ \A c \in Clients : session[c].state = k => session[c].pc \notin {"loaded", "found"}
    /\ states' = [states EXCEPT ![k].stale = TRUE]
    /\ UNCHANGED <<db_nets, stored, rows, provider, init_lock, session, admin,
                   sweep, release, events, agreed, exposed>>

\* delete_device looks at the registry while it holds the entry of network n.
Pinned(n) == \E a \in Admins : admin[a].pc = "remove" /\ admin[a].code = n

\* release_network: is_empty and last_active_time ...
ReleaseCheck(n) ==
    /\ sweep = NoSweep /\ release = None /\ provider[n] # None
    /\ states[provider[n]].stale /\ states[provider[n]].devices = {}
    /\ release' = n
    /\ exposed' = exposed \cup Underway(n)
    /\ UNCHANGED <<db_nets, stored, rows, provider, states, init_lock, session,
                   admin, sweep, events, agreed>>

\* ... and remove: whatever is listed under the code by now goes.
ReleaseRemove ==
    /\ release # None /\ ~Pinned(release)
    /\ provider' = [provider EXCEPT ![release] = None]
    /\ UNCHANGED <<session, sweep>>
    /\ StatesBecome(states)
    /\ release' = None
    /\ UNCHANGED <<db_nets, stored, rows, init_lock, admin, events, agreed,
                   exposed>>

-----------------------------------------------------------------------------
(***************************************************************************)
(* The administrator                                                       *)
(***************************************************************************)

Goes(a, pc) == admin' = [admin EXCEPT ![a].pc = pc]
Ends(a) == admin' = [admin EXCEPT ![a] = NoRequest]
Alone(a) == \A b \in Admins \ {a} : admin[b] = NoRequest

\* A handler of the web interface has parsed a request and calls the service.
Ask(a, request) ==
    /\ admin[a] = NoRequest /\ admin' = [admin EXCEPT ![a] = request]
    /\ events < MaxEvents /\ events' = events + 1
    /\ agreed' = (agreed /\ Alone(a))
    /\ UNCHANGED <<db_nets, stored, rows, provider, states, init_lock, session,
                   sweep, release, exposed>>

\* What each request checks before its first await; one that is refused here
\* changes nothing.
add_network(a, n) ==
    \E net \in Nets :
        /\ db_nets[n] = None
        /\ Ask(a, [NoRequest EXCEPT !.op = "add", !.pc = "db", !.code = n,
                                    !.net = net])

update_network(a, n) ==
    \E net \in Nets \cup {BadNet} :
        /\ db_nets[n] # None
        /\ Ask(a, [NoRequest EXCEPT !.op = "update", !.pc = "has_devices",
                                    !.code = n, !.net = net])

delete_network(a, n) ==
    /\ db_nets[n] # None /\ n # DefaultCode
    /\ Ask(a, [NoRequest EXCEPT !.op = "delete", !.pc = "has_devices",
                                !.code = n])

delete_device(a, n) ==
    \E d \in Clients :
        Ask(a, [NoRequest EXCEPT !.op = "device", !.pc = "memory",
                                !.code = n, !.device = d])

\* network_has_devices: with a row, or without an answer, the request ends.
HasDevices(a) ==
    /\ admin[a].pc = "has_devices"
    /\ \/ rows[admin[a].code] = {} /\ Goes(a, "count")
       \/ Ends(a)
    /\ UNCHANGED <<db_nets, stored, rows, provider, states, init_lock, session,
                   sweep, release, events, agreed, exposed>>

\* Mutant: only the rows of the network are looked at.
CountRows(a) ==
    /\ admin[a].pc = "count" /\ Goes(a, "db")
    /\ exposed' = exposed \cup Underway(admin[a].code)
    /\ UNCHANGED <<db_nets, stored, rows, provider, states, init_lock, session,
                   sweep, release, events, agreed>>

\* count: devices in memory or senders.
Count(a) ==
    LET n == admin[a].code
        k == provider[n] IN
    /\ admin[a].pc = "count"
    /\ IF k # None /\ (states[k].devices # {} \/ states[k].stray)
       THEN Ends(a) /\ UNCHANGED exposed
       ELSE Goes(a, "db") /\ exposed' = exposed \cup Underway(n)
    /\ UNCHANGED <<db_nets, stored, rows, provider, states, init_lock, session,
                   sweep, release, events, agreed>>

\* save_network, db::update_network, db::delete_network.  An update of a row
\* that is gone changes nothing, which goes unnoticed; an error ends the
\* request.  The subnet of an update is looked at only after the write.
Store(a) ==
    LET n == admin[a].code IN
    /\ admin[a].pc = "db"
    /\ \/ /\ stored' = [stored EXCEPT ![n] =
                CASE admin[a].op = "add" -> admin[a].net
                  [] admin[a].op = "update" ->
                        IF stored[n] = None THEN None ELSE admin[a].net
                  [] admin[a].op = "delete" -> None]
          /\ IF admin[a].net = BadNet THEN Ends(a) ELSE Goes(a, "memory")
       \/ Ends(a) /\ UNCHANGED stored
    /\ UNCHANGED <<db_nets, rows, provider, states, init_lock, session, sweep,
                   release, events, agreed, exposed>>

\* Registrations of network n that are under way do not see what changes.
Overtake(n) ==
    session' = [c \in Clients |->
        IF session[c].pc \in Registering /\ session[c].code = n
        THEN [session[c] EXCEPT !.overtaken = TRUE] ELSE session[c]]

\* db_nets is changed; a deletion puts None.
Memory(a) ==
    /\ admin[a].op \in {"add", "update", "delete"} /\ admin[a].pc = "memory"
    /\ db_nets' = [db_nets EXCEPT ![admin[a].code] = admin[a].net]
    /\ Overtake(admin[a].code)
    /\ IF admin[a].op = "add" THEN Ends(a) ELSE Goes(a, "unlist")
    /\ UNCHANGED <<stored, rows, provider, states, init_lock, sweep, release,
                   events, agreed, exposed>>

\* Mutant: the state of the old configuration stays listed.
KeepListed(a) ==
    /\ admin[a].pc = "unlist" /\ Ends(a)
    /\ UNCHANGED <<db_nets, stored, rows, provider, states, init_lock, session,
                   sweep, release, events, agreed, exposed>>

\* network_state_provider.remove
Unlist(a) ==
    /\ admin[a].pc = "unlist" /\ ~Pinned(admin[a].code)
    /\ provider' = [provider EXCEPT ![admin[a].code] = None]
    /\ UNCHANGED <<session, sweep>>
    /\ StatesBecome(states)
    /\ Ends(a)
    /\ UNCHANGED <<db_nets, stored, rows, init_lock, release, events, agreed,
                   exposed>>

\* delete_device: an online device is refused ...
DeleteDevice(a) ==
    LET k == provider[admin[a].code] IN
    /\ admin[a].op = "device" /\ admin[a].pc = "memory"
    /\ \/ k = None /\ Goes(a, "row")
       \/ k # None /\ IF admin[a].device \in Senders(k) THEN Ends(a)
                                                       ELSE Goes(a, "remove")
    /\ UNCHANGED <<db_nets, stored, rows, provider, states, init_lock, session,
                   sweep, release, events, agreed, exposed>>

\* ... another one is forgotten, with its sender when it has come online
\* meanwhile ...
RemoveDevice(a) ==
    LET k == provider[admin[a].code]
        d == admin[a].device IN
    /\ admin[a].pc = "remove" /\ Goes(a, "row")
    /\ states' = [states EXCEPT ![k].devices = @ \ {d}]
    /\ exposed' = exposed \cup ({d} \cap Senders(k))
    /\ UNCHANGED <<db_nets, stored, rows, provider, init_lock, session, sweep,
                   release, events, agreed>>

\* ... and its row goes, or the database refuses.
DeleteRow(a) ==
    /\ admin[a].pc = "row" /\ Ends(a)
    /\ \/ rows' = [rows EXCEPT ![admin[a].code] = @ \ {admin[a].device}]
       \/ UNCHANGED rows
    /\ UNCHANGED <<db_nets, stored, provider, states, init_lock, session,
                   sweep, release, events, agreed, exposed>>

-----------------------------------------------------------------------------
(***************************************************************************)
(* Start of the server                                                     *)
(***************************************************************************)

\* to_ipv4_net: a row with such a gateway is skipped.
Managed(table) ==
    [n \in Codes |-> IF table[n] = BadNet THEN None ELSE table[n]]

\* seed_config_networks_to_db: what the table has not yet; each row may fail.
Seeded(codes) ==
    [n \in Codes |-> IF n \in codes /\ stored[n] = None
                     THEN ConfigNets[n] ELSE stored[n]]

\* load_or_initialize_networks: a table that is empty, or cannot be read, is
\* filled from the configuration; when nothing can be read after that
\* either, the configuration is what serves.
Restart ==
    /\ events < MaxEvents /\ events' = events + 1
    /\ \E first, second \in BOOLEAN, codes \in SUBSET Codes :
       LET empty == ~first \/ \A n \in Codes : stored[n] = None
           table == IF empty THEN Seeded(codes) ELSE stored
           read == /\ IF empty THEN second ELSE first
                   /\ \E n \in Codes : table[n] # None
       IN /\ stored' = table
          /\ db_nets' = IF read THEN Managed(table)
                        ELSE build_networks_from_config
          /\ agreed' = read
    /\ provider' = [n \in Codes |-> None]
    /\ states' = [k \in StateIds |-> None]
    /\ init_lock' = [n \in Codes |-> None]
    /\ session' = [c \in Clients |-> NoSession]
    /\ admin' = [a \in Admins |-> NoRequest]
    /\ sweep' = NoSweep /\ release' = None /\ exposed' = {}
    /\ UNCHANGED rows

-----------------------------------------------------------------------------
(***************************************************************************)
(* Specification                                                           *)
(***************************************************************************)

ClientStep(c) ==
    \/ \E n \in Codes : register(c, n)
    \/ Lock(c) \/ Load(c) \/ Insert(c)
    \/ Allocate(c) \/ Refused(c) \/ ConfirmReg(c) \/ Drop(c)

CleanupStep ==
    \/ \E n \in Codes : CollectExpired(n) \/ BecomeStale(n) \/ ReleaseCheck(n)
    \/ RemoveExpired \/ ReleaseRemove

AdminStep(a) ==
    \/ \E n \in Codes : \/ add_network(a, n) \/ update_network(a, n)
                       \/ delete_network(a, n) \/ delete_device(a, n)
    \/ HasDevices(a) \/ Count(a) \/ Store(a) \/ Memory(a) \/ Unlist(a)
    \/ DeleteDevice(a) \/ RemoveDevice(a) \/ DeleteRow(a)

Next ==
    \/ \E c \in Clients : ClientStep(c)
    \/ CleanupStep
    \/ \E a \in Admins : AdminStep(a)
    \/ Restart

Spec == Init /\ [][Next]_vars

-----------------------------------------------------------------------------
(***************************************************************************)
(* Properties                                                              *)
(***************************************************************************)

\* However many clients open a network at the same time, nobody replaces a
\* NetworkState that is listed: the clients on it would not be seen by those
\* who come later (get_or_create_network_state checks, waits and checks).
ListedIsNotReplaced ==
    [][\A n \in Codes : provider[n] # None =>
          provider'[n] \in {provider[n], None}]_vars

\* Whoever is served is served by the state that is listed, and so is seen by
\* everybody who comes later.  Taking a state off the list in two steps, the
\* check and the removal, strands only those who were registering when it was
\* found unused or came after that, and those whose device was swept or
\* deleted while they were served.
ServedIsListed ==
    \A c \in Clients : session[c].pc \in {"pending", "confirmed"} =>
        provider[session[c].code] = session[c].state \/ c \in exposed

\* A network that is served is configured, and with the subnet it is served
\* with: a request that changes the configuration takes the state of the old
\* one away.  Exempt are the moment in between, a state listed by a
\* registration that copied the configuration before (it stays wrong), and
\* requests that overlapped.
ListedHasConfig ==
    agreed => \A n \in Codes :
        \/ provider[n] = None
        \/ states[provider[n]].net = db_nets[n]
        \/ states[provider[n]].belated
        \/ \E a \in Admins : admin[a].code = n /\ admin[a].pc = "unlist"

\* What is configured in memory survives a restart and nothing else appears:
\* the table says the same, except between the two writes of a request and
\* for a subnet that only the table took.  Requests must not overlap.
StoredIsServed ==
    agreed => \A n \in Codes :
        \/ stored[n] \in {db_nets[n], BadNet}
        \/ \E a \in Admins : admin[a].code = n /\ admin[a].pc = "memory"

\* Whoever holds the lock of a network is loading it and will give it back:
\* a lock that stays with somebody else would stop every later registration.
LockHolderLoads ==
    \A n \in Codes : init_lock[n] # None =>
        /\ session[init_lock[n]].pc \in {"loading", "loaded"}
        /\ session[init_lock[n]].code = n

\* One state per network, and nobody keeps a lock.
RegistryInv == TypeOK /\ LockHolderLoads

\* The three places that know the configuration agree: what is served is
\* configured, and what is configured is stored.
ConfigurationsAgree == ListedHasConfig /\ StoredIsServed
=============================================================================
