# Models and proofs for vnt

vnt builds a virtual layer 3 network: clients (`vnt`) register with one or more
servers (`vnts`), get a virtual IPv4 address, learn of each other from the
servers, punch holes to reach each other directly, and fall back on relaying
through a server. Servers may be connected to each other. This directory holds
TLA+ models of that system, written from the code under `src/`, the TLC runs
that check them, and TLAPS proofs about the address leases and what a restart
leaves of them, the list of devices that clients keep, the registry of networks,
the federation of servers, the relay of frames, joining several servers, error
correction, the routes of a client and how it comes to have them, and the start
and stop of the client.

## 1. Inventory of the system

The state, the operations and the hard behaviour of each part; section 3 says
which module covers it. `vnts/` is `src/vnts/src/`, `core/` is
`src/vnt/vnt-core/src/`.

**Address leases** (`vnts/server/network_state_provider.rs`). Per network:
`data_version`, `device_map`, `device_ip_map` under one mutex and `sender_map`
as a concurrent map. Operations: `allocate_ip`, `confirm_registration`,
`offline_ip`, `release_pre_registered_ip`, `collect_expired_devices`,
`remove_devices`, `remove_device_from_memory`, `changed_client_simple_list`.
Hard: several operations are two critical sections, or a critical section and
an unguarded change of `sender_map`; a device may be on two connections at a
time; a `random_id` decides whose `Drop` counts. Correct means: no address is
leased twice, frames go to the lessee, an offline lease ends, and every visible
change moves the version.

**Registration, sessions, cleanup** (`vnts/server/control_server/service.rs`,
`handler.rs`, `vnts/server/tcp.rs`). A `Session` per connection, pending or
confirmed; `register`, `handle_confirm_reg`, `Session::drop`, the hourly sweep
`release_expired_ips`, the administrator's `delete_device`, and a registry of
networks (`get_or_create`, `release_network`, `add/update/delete_network`) that
is read and changed around awaits of the database.

**Database** (`vnts/server/control_server/db.rs`). Rows of devices, networks
and peer servers in SQLite. Some writes are awaited, some spawned: they run in
any order, fail, and are lost with the process.

**Device list synchronisation** (`handler.rs`, `core/context/mod.rs`,
`core/tunnel_core/server/inbound.rs`). The client sends the version it holds,
the server answers with the changes since, or with everything. Answers are lost
when a queue is full, connections break, servers restart with version 0.

**Federation of servers** (`vnts/server/peer_server.rs`). A task per configured
address connects and reconnects; a loop per connection pings and pulls the
clients of the other server into `ip_to_routes`. The administrator adds and
removes servers at the same time; a stopped task's future is dropped wherever
it is.

**Relay of frames** (`handler.rs`, `peer_server.rs`) and **client data path**
(`core/tunnel_core/outbound.rs`, `core/tunnel_core/server/outbound.rs`,
`core/tunnel_core/p2p/`, `core/enhanced_tunnel/`). A frame goes to a peer, over
peers or servers that pass it on, or to everybody; a broadcast is divided among
peers and servers. No table is consistent with another; routes may form a
circle, and the ttl is counted at three places.

**Client registration and connections** (`core/core/mod.rs`,
`core/tunnel_core/server/connection_manager.rs`, `transport/`). Pre-registration
with all servers, agreement on one address, confirmation; registration again
with that address after every loss. Answers and frames share a connection, both
ends read and write it in one task, and every wait but the writes has a timeout.

**Starting and stopping the client** (`vnt-web/src/service_http.rs`,
`core/core/mod.rs`, `core/utils/task_control.rs`). Requests to start, restart
and stop overlap; the status, the manager of the one task group and the group
have a lock each; guards change them when they are dropped.

**P2p routes and hole punching** (`core/tunnel_core/p2p/`). Three maps of the
route table under three locks, changed by one receive task per tunnel, the
heartbeat and the expiry; `PunchStart1/2` through the server, `PunchReq/Res`
directly, a back-off per client; relay probes through other clients.

**Forward error correction** (`core/fec/`). Batches of packets with parity per
destination; groups of shards per source and group id, which time out.

**The rest**: userspace NAT and port mapping (`core/nat/`,
`core/port_mapping/`), NAT detection, QUIC over the tunnel, TUN device,
encryption, command line, IPC, configuration, router plugins.

`PROJECT.json` lists these parts with their status, and under `hazards` what is
hard to test in them, at the line where it bites, with the properties that
would catch it going wrong.

## 2. Plan

1. Leases, then the database and restarts around them, then the list that
   clients see of them. (done)
2. Connections between servers. (done)
3. The route table of a client. (done)
4. Error correction between two clients. (done)
5. The registry of networks, its requests and its cleanup. (done)
6. Hole punching between two clients. (done)
7. The way of a frame through clients, servers and federated servers. (done)
8. Joining several servers at once, and leaving; starts and stops of the client.
   (done)
9. Proofs about the leases, the federation and starts and stops. (done)
10. Proofs about the registry, joining, the relay of frames, the status, restarts,
    the device list and error correction. (done)
11. Proofs about the route table and punching, and about what a restart may break.
    (done)

Left: the tables of the userspace NAT, whose entries time out while packets come;
the requests of `rpc.rs`; a run of `ClientList` with several servers.

## 3. Modules

| Module | Models | State and actions |
|---|---|---|
| `NetworkState` | leases, sessions, sweep, deletion | the four maps, the status of each session, the program counters of the sweep and of `delete_device`; one action per critical section |
| `LeaseStore` | `NetworkState` with the table `devices` and restarts | adds rows, spawned writes, the confirmation's write; extends each action by what it does to the database |
| `DeviceList` | abstract: what a server promises of its list | list and version; `Renew`, `Remove` |
| `ClientList` | list synchronisation of one client | lists and versions of the servers, messages under way, the client's maps |
| `PeerServer` | `PeerServerManager` of one server | connections and their loops, routes, connection tasks, administrator's requests |
| `RouteTable` | the client's routes | the three maps, a receive task per key, the expiry |
| `Fec` | `FecEncoder`, its worker, `FecDecoder`, the network between them | the open group and the worker's channel, shards under way, the decoder's groups, what becomes of the packets the decoder returns |
| `ControlService` | `db_nets`, the tables, `network_state_provider` and all that changes them | registrations, requests of the administrator, the sweep, `release_network`, each cut at its awaits and at the locks of a state; restarts |
| `Relay` | the way of one frame | the frames under way; sessions on both sides; `handle_data`, `ipv4_outbound`, `send_raw_broadcast`, `forward_with_best_route`, ... |
| `Join` | `coordinated_registration`, `data_handle_loop`, the servers' ends | the steps of registration, a connection per server with one message in each direction, session and lease per server, the sweep and `delete_device` in two steps |
| `Option` | `None` | the constant that `Fec`, `RouteTable` and `Punch` share |
| `Punch` | `punch_task`, `PunchBackoff`, heartbeats of two clients | lives, back-off, messages by the server, packets, routes |
| `TaskGroup` | `TaskGroupInner` as a record | `Spawn`, `Stop`, `RemoveTask` |
| `WebApp` | the client with the web interface | status, the manager's group, starts and their guards, requests to stop |
| `NetworkStateProofs`, `ClientListProofs`, `ControlServiceProofs`, `PeerServerProofs`, `RelayProofs`, `JoinProofs`, `P2pProofs`, `WebAppProofs` | theorems | each extends its module; `NetworkStateProofs` extends `LeaseStore`, and so `NetworkState`; `P2pProofs` extends `Fec`, `RouteTable` and `Punch` |
| `MC...` | instances for TLC | constants, symmetry, view |

How they fit together: `LeaseStore` extends `NetworkState`. `NetworkState`
implements `DeviceList` under the mapping `PublishedList`, that is, what
`changed_client_simple_list` sends of the devices; `ClientList` takes the steps
of its servers from `DeviceList` and from nothing else, so that what it shows of
clients holds for the leases as they are modelled. `WebApp` extends `TaskGroup`.
The others meet in what they leave open: `Relay` lets a lookup find any route
that `RouteTable` and `PeerServer` may hold; `Punch` produces the routes whose
maps `RouteTable` keeps; `Join` lets a server give any address to the client that
`NetworkState` may have free, and stands for the `link` task of `WebApp`;
`ControlService` creates and drops the `NetworkState`s of which `NetworkState`
models one.

Conventions. An action has the name of the function where a function is one
step; where the code lets go of a lock or awaits, the steps are separate
actions, and the comments say which half is which. `None` is `Option::None` or
an absent key. Operators marked "Mutant" are wrong variants of the definition
that follows them; no specification uses them, they show that the properties
notice such a mistake.

What is abstracted:

- `NetworkState`: time is one bit per offline device (its lease has lapsed).
  Sessions are named by their `random_id`; two sessions never draw the same.
  `find_available_ip` is the lowest free address, as the scan finds it.
- `LeaseStore`: a row is the address only. Spawned writes are a set without
  order, every write may fail, a restart may fail to read.
- `ClientList`: one client, connections in order, answers lost when the queue is
  full. The client's own entry and round trip times are left out. A client whose
  address changes on reconnection stops (`data_handle_task_connected`), so
  reconnecting always gives the same address.
- `PeerServer`: one network. A response is handled as one step since its entries
  do not depend on each other. Latencies are added modulo a word.
- `RouteTable`: times are fresh or stale; every key has its own receive task. A
  heartbeat that arrives over a relay has metric 2, a `Pong` always metric 1,
  because it leaves with ttl 1.
- `Fec`: a packet is its group, index and length. Checks of the decoder that no
  encoder's packets can fail are left out; one lifetime of the encoder. Of the
  flags of a reconstructed packet the model says whether they are those it was
  sent with: when an original took part in the decoding they need not be
  (section 6), and which bits are wrong depends on the coefficients of the code, so
  that any subset of the suspected packets may be spoiled. With `Compression` a
  wrong bit may make `decompress` fail, which ends the loop over the packets the
  decoder returned.
- `ControlService`: a `NetworkState` is its subnet, its devices and whether it
  was used lately, and whether a sender was left behind without its device; what a
  registration does to leases is in `NetworkState`.
  Secrets change with the subnet. `Load` needs a state that nobody holds, so the
  number of states (`StateIds`) bounds how many are in use at a time.
- `Relay`: one frame is followed, with all its copies. A lookup of a route gives
  any answer; whom a client thinks online is a copy that may be old.
- `Join`: queue and transport of a connection hold one message per direction.
  Of the other clients' frames one kind is enough, `Data`. The sweep and
  `delete_device` find the client offline (`FoundOffline`) and remove it in a step
  of its own (`Removed`), whatever has become of it in between.
- `Punch`: one message by the server and one packet per direction are under way;
  a broken connection to the server is a lost message; `PunchRes` and `Pong` do
  the same to a route and are one packet, `Answer`. Time passes in units of the
  three seconds of `BASE_MS`. What is heard of a stale route may come too late,
  between the two locks of `route_timeout_task` (`Heard`).
- `WebApp`: the tasks of a group are three, for those that work until they fail,
  those that keep a connection, and the one that waits for the end.

## 4. Runs

| Run | Module | Properties | Outcome |
|---|---|---|---|
| `lease` | `MCNetworkState` | `TypeOK`, `UniqueLease`, `SenderIsLessee`, `ConnectedHasSession`, `LeaseInNet`, `ImplementsDeviceList` | hold |
| `lease_store` | `MCLeaseStore` | `StoreInv`, `OfflineLeaseEnds` | hold |
| `client_list` | `MCClientList` | `ListInv`, `ClientCatchesUp` | hold |
| `peer` | `MCPeerServer` | `PeerInv`, `RoutesFollowSync`, `RemovedIsGone` | hold |
| `routes` | `MCRouteTable` | `TableInv`, `SilentRouteGoes` | hold |
| `fec` | `MCFec` | `GroupInv`, `DeliveredOnce`, `NothingInvented`, `LossIsRepaired` | hold |
| `control` | `MCControlService` | `RegistryInv`, `ConfigurationsAgree`, `ListedIsNotReplaced`, `ServedIsListed` | hold |
| `relay` | `MCRelay` | `TypeOK`, `DeliveredOnce`, `BroadcastIsComplete`, `FrameEnds` | hold |
| `join` | `MCJoin` | `TypeOK`, `ServedAsItself`, `JoinEnds`, `LostLinkIsLeft` | hold |
| `punch` | `MCPunch` | `PunchTypeOK`, `OnlyAskingIsHeldBack`, `PeersAreReached`, `LonelyRouteEnds` | hold |
| `web` | `MCWebApp` | `TypeOK`, `OneNetwork`, `StatusIsHonest`, `StartEnds`, `StoppedIsForgotten` | hold |
| `unique_after_restart` | `MCLeaseStore` | `UniqueLease` | violated |

The names that end in `Inv` are conjunctions of the type invariant and of
invariants of the module that have names and comments of their own.

**lease.** Two devices compete for the two free addresses of a subnet over three
connections; clients may ask for an address in the subnet or for the gateway's.
Three connections are enough for a device to hold an address, have it taken away
by a sweep or a deletion, and meet a third session on it. The run leaves
versions out of the fingerprint (`VIEW`): no guard reads one and every step that
sets one adds one, so states that differ in them only behave alike;
`ImplementsDeviceList` is a property of steps and needs nothing else.

**lease_store.** One device and two connections, so that the write of an ended
session races the one of its successor, with one restart. Fairness: `WF` of the
sweep (an interval task of the server that never ends) and of the clock.

**client_list.** One server, two devices, two addresses, versions up to 3, two
messages under way, one lost answer, one restart: a restarted server is behind,
level with and ahead of the client's version. `current` is a history variable
that says whether the client's map stems from the server's present lifetime
without a gap: after a restart the client and the server may have the same
version by chance, in which case the code does not notice, and the property
says nothing until a complete list arrives. Fairness: both loops run, the client
keeps reconnecting (`data_handle_loop`).

**peer.** One configured address, three tasks, two connections, two overlapping
requests and room for one route per address: an address that is added again while
its removal waits, or by two requests at a time, has a task that is told to stop
and one that goes on. `outlived` is the history of removals that stopped waiting
while a task that was told to stop was still there; `RemovedIsGone` exempts their
addresses, as that task may list its connection once more. All three are
invariants, so that no fairness is assumed.

**routes.** A client over two keys and a second one over the first key, which is
a TCP tunnel; round trips faster and slower than the default. Fairness:
`route_timeout_task` comes back every ten seconds; heartbeats are not assumed.

**fec.** Up to three packets of two lengths in groups of one or two, with one
parity packet each, and two losses or duplicates, at a client with compression: a
group can lose as much as can be repaired and more, packets overtake each other,
and a group is forgotten while packets of it are still under way. The worker's
channel, though modelled, does not fill at these bounds; a group that finds it full
gets no parity and is outside `LossIsRepaired`. The code's groups are of ten
packets with two parity packets; the theorems of section 5 are for any size.
Fairness: the worker's loop runs on, and what is under way and not lost arrives.
Groups of packets of different lengths are exempt from `DoneIsComplete` and
`LossIsRepaired`. `delivered` and `spoiled` are the history of what the decoder
returned: what went on as it was sent, and what came out with wrong flags or was
dropped on account of such a packet. `LossIsRepaired` exempts a spoiled packet, and
`NothingInvented` says when there can be one (section 6).

**control.** One network, configured in the file, with two subnets to choose
from; two clients, one request at a time, two requests, sweeps or restarts in all,
two `NetworkState`s at a time: enough for a registration that copied the
configuration before a request and lists its state after it, for two
registrations that load the same network, for a sweep that removes a device which
has come back while a request counts the devices, and for a restart between the
write of a row and that of the memory. `agreed` takes requests that overlap each
other and loads that fail out of `ConfigurationsAgree`: the code orders neither.
`belated` states are those listed by such a late registration; they keep the old
subnet until everybody has left. `exposed` is the history of who may be left with a
state that is no longer listed: a client that was registering when a request or the
cleanup task found the network unused, one that registered between that and the
removal, and one whose device was removed while it was served. `ServedIsListed`
says that there is nobody else. Without fairness: the properties are about states
and steps.

**relay.** Three clients, one of which uses direct routes only, and two servers;
the ttl of the code; one change of a session while the frame is under way, and
one client that a broadcast may be sent to directly, so that some are left for
the servers. Routes are whatever they like, circles included. Fairness: queues
are read and timeouts fire. `settled` and `lost` are history variables: what
`DeliveredOnce` and `BroadcastIsComplete` say needs that nobody came or went
and, for the second, that nothing was lost. `FrameEnds` needs neither. With two
servers the exception of `DeliveredOnce` (section 6) cannot occur; that it is
needed with three, and that the property holds for any number of them, is what
`RelayProofs` adds.

**join.** Two servers, two addresses, no configured address, any number of losses
and registrations. One of the servers sweeps (`Sweeping`): the lease of a session
may be taken, and given to somebody else, at any point of the registration and
afterwards, while the other server keeps its own. With two servers that sweep the
run has four times the states and the properties hold as well; the theorems are
for any. Deadlock is checked: the system can always go on. Fairness: the program's
tasks run and its timeouts fire (ten seconds for a connection and an answer, the
silence of a connection); nothing is assumed of connections, servers, the sweep, or
anybody who sends. `diverged` and `taken` are the histories of section 6.

**punch.** One life of the client that asks and two of the other, a back-off of
at most two units: the back-off reaches its cap, and a route to a former life
remains when the new one starts. Fairness: the interval task, the clock and the
expiry are weakly fair, sending is strongly fair in what gets through: messages
that are sent again and again arrive some time, as `PeersAreReached` is void on
a network that lets nothing through.

**web.** Two starts or restarts and a request to stop at a time, in slots that
are used again, so that any number of starts follow each other. Fairness: every
step of a start has a timeout or is local, an aborted future is dropped, and a
handler that was called runs. `late` is the history of section 6. Deadlock is
checked.

**unique_after_restart** states what the message says with which `allocate_ip`
refuses a duplicate address, and shows how a restart defeats it; `PROJECT.json`
quotes it.

Where deadlock is not checked, connections, restarts, events and versions are
bounded in the models or nobody needs to go on.

## 5. Proofs

`NetworkStateProofs` proves for any devices, sessions, requests and subnet with
at least one address besides the gateway's (`NetAssumption`), loaded from rows
that do not conflict (`RowsAssumption`), and with `None` different from every
value (`NoneAssumption`):

- `TypeCorrect`: `Spec => []TypeOK`, together with `Bound` (a registered session
  knows its device and address).
- `LeasesAreUnique`, `SendersAreLessees`, `LeasesAreInNet`: from the inductive
  invariant `LeaseInv`. `UniqueLease` is not inductive: `allocate_ip` looks at
  `device_ip_map` only, so the induction needs that the address of every entry
  is indexed under its device (`LeaseIndexed`). The converse is false in the code
  (section 6) and is not needed. `SenderIsLessee` needs that an address nobody
  occupies in the index has no lessee whose sender could be mistaken, and which
  session a sender that is left behind belongs to.
- `ConnectedDevicesAreServed`: on top of it, that the `random_id` of a connected
  device names a session that has not ended, with the same device and address.
- `LeasesImplementDeviceList`: initial states map to initial states and every
  step to a step of `DeviceList` or to a stutter, by cases on the operations.

- `RestartsAreSound`: `StoreInv` of `LeaseStore`, through any number of restarts
  and whatever rows they load. The inductive invariant `StoreIInv` is what one
  lifetime can rely on after any other: the types, `Bound`, that connected devices
  have their session (a restart clears both), and that addresses of leases,
  sessions, rows and unfinished writes are of the subnet (`LeaseInNet`,
  `SessionsInNet`, `RowsInNet`). `UniqueLease` is not among them: a restart breaks
  it. The steps of `NetworkState` keep these without the uniqueness of leases, so
  the lemmas about them serve both proofs.

- `OnlyRowsConflict`: every step of `LeaseStore` keeps `LeaseInv`, from which
  `UniqueLease` follows, unless it is a restart that loads rows in conflict
  (`ConflictsComeFromRows`). The steps that are not restarts are steps of
  `NetworkState` (`StoreStepsAreNetworkSteps`), and a restart that loads orderly
  rows is one of its initial states (`OrderlyRestart`).
- `UniqueUntilRestart`: so `UniqueLease` and `SenderIsLessee` hold until the first
  restart. `unique_after_restart` shows that they need not hold any longer.

`FindAvailableIp` is a lemma about an algorithm: the scan's result is free, in the
subnet and not the gateway; it rests on the well-foundedness of `<` on the
naturals. `RowsAssumption` is what the proofs need and the code does not give
after a restart: `unique_after_restart` is a run in which `Restart` loads
conflicting rows. All but the theorems about `LeaseStore` are about one lifetime
of the process that starts from orderly rows.

`ClientListProofs`, for any devices, addresses, servers and bounds:

- `VersionsMeanKnowledge`: `ListInv`, that a version the client holds stands for
  everything published up to it. The inductive invariant `ListIInv` has to speak
  of the answers under way: each tells all that changed since the version it
  answers, and nothing of what it tells about unchanged devices is out of date
  (`Tells`); they arrive in the order of their versions, none older than the
  client's in the same lifetime of the server (`InOrder`); and a list is as
  `DeviceList` allows it (`Orderly`). Assumptions: the bounds are naturals, `None`
  is no entry.

`ControlServiceProofs`, for any networks, clients, requests and configuration
file (`ConfigAssumption`: the file names known subnets; `NoneAssumption`):

- `RegistryIsSound` (`RegistryInv`) and `NothingIsReplaced`
  (`ListedIsNotReplaced`) from `RegistryIInv`: whoever loads a network holds its
  lock, and nothing is listed for the network as long as the lock is held
  (`LocksOK`), so that the insert after the awaits replaces nothing.
- `ServedAreListed` (`ServedIsListed`) from `ServedIInv` on top of it: a client that
  is not exposed works on a network that nobody is about to take off the list, the
  state it has found or is served by is the listed one, and that state counts its
  device (`Listed`). So whoever begins to take a state off the list has found it
  without devices, serves nobody with it but the exposed, and exposes those who are
  on their way to a lease (`UnlistingBegins`).
- `ConfigurationsStayTogether` (`ConfigurationsAgree`) from `ConfigIInv` on top of
  it: a state that is loaded and not listed yet is nobody else's (`FreshStates`)
  and was built from the present configuration, unless its registration was
  overtaken (`LoadsConfiguration`); while requests do not overlap, there is one at
  most and what it changes is as it was when it was asked (`OneRequest`).

`PeerServerProofs` proves for any servers, tasks, connections, requests, clients
and limit (`LatencyAssumption`: latencies are naturals, the limit and
the word are positive; `NoneAssumption`: `None` is no address, task or request):

- `RoutesFollowTheirServer`, `EndedIsGone`, `FederationIsSound`: `RoutesFollowSync`,
  `EndedLeavesNothing` and `PeerInv` from the inductive invariant
  `FederationInv`. The lists of a loop and the clean-up meet in `ip_to_routes`
  only, and each touches the routes of its own connection, apart from the
  truncation, which takes away and never adds. `ConnectedIsListed` needs the
  stronger `SendersAreListed`, since routes come later than senders; the limit
  needs that sets of routes are finite (`RoutesFit`).
- `RemovedStaysGone` (`RemovedIsGone`) from `GoneInv` on top of it: a task that goes
  on and was not told to stop is the one its address is registered with
  (`NoOrphan`), so that an address without a registered task, without a removal
  under way, and without a task that outlived one has neither a task nor a
  connection in the list (`Accounted`). `add_outbound_peer` keeps this although two
  requests may both register a task: the one whose handle is overwritten is told to
  stop by that.

`RelayProofs`, for any clients, servers, sessions and times to live of at least
two (`RelayAssumption`; the names of clients, servers and special destinations
differ):

- `TypeCorrect`, `DeliveredAtMostOnce`, `BroadcastsAreComplete`: `TypeOK`,
  `DeliveredOnce`, `BroadcastIsComplete` from `RelayIInv`. What has been delivered
  says nothing about what will be; the invariant therefore speaks of the clients
  that a frame under way still stands for (`Reaches`): the one it goes to, or those
  its server will give it to. A broadcast starts as frames that together reach
  everybody its sender knows of, and no client twice outside the exception; a
  server that handles a frame replaces it by one for each client it reached, so
  both stay so (`BroadcastOnce`, `BroadcastReaches`).

`JoinProofs`, for any finite set of servers, any addresses and any configured
address (`JoinAssumption`):

- `TypeCorrect` and `AlwaysServedAsItself` (`ServedAsItself`) from `JoinIInv`,
  which relates, for each server, what the client has concluded from its
  connection to what the server holds (`LinkOK`): an answer stands for a session
  as long as the connection works on which it came; the lease of a session is its
  own until the sweep or a deletion takes it, since none of an earlier connection is
  left that would give the address back (`SessionOK`); and nobody is joined before every confirmation (`PhaseOK`).

`P2pProofs` is about what two clients do without the server. The three modules it
extends share no variable, and each theorem is about one of them. `Fec`, for any
size of a batch and of the channel, any lengths, and any numbers of packets,
groups, losses and duplicates (`FecAssumption`: a batch has a packet at least,
lengths are positive):

- `GroupsAreSound` (`GroupInv`) and `HandedOnOnce` (`DeliveredOnce`) from
  `FecIInv`. The first rests on what a shard under way or in a group says of its
  group (`ShardOK`), and on the count of a group being that of the originals among
  its shards (`GroupOK`): a group whose count is its size has every index
  (`AllOriginals`), also when the last one is an original that comes after the
  parity. The second rests on `Remembered`: what has been handed on is a shard of
  its group, or the group is done, until the group is cleaned up; `done` empties
  the shards, and setting the count as it does is what keeps the group closed.
- `OnlySentIsHandedOn` (`NothingInvented`): a packet the decoder returns was given
  to the encoder, and one that does not go on as it was sent is of a group of
  several packets, at a client with compression. A parity packet counts the packets
  of its group, which is closed by then, and the decoder reconstructs below that
  count only; wrong flags need an original among the shards, which a group of one
  packet that lacks it has not got.

`RouteTable`, for any clients, keys, links and round trip times
(`RouteAssumption`: times are naturals, `None` is no client):

- `TableIsSound` (`TableInv`) from `TableIInv`, which adds that a receive task
  between its two locks remembers for whom it acts (`TasksKnow`). The induction is
  about the operations on a list: where `add_route` puts a route it has not got
  (`InsertedHere`) and moves one it has (`BubbledHere`), and that both leave a list
  without duplicates whose fast routes come first, in order (`PlacedInOrder`,
  `AppendedInOrder`). The order is one of pairs, `FastRoutesFirst`, and not of the
  whole list, which has routes without measurement anywhere behind the fast ones:
  `add_owner_route` appends them without looking. `Retained` says what
  `Vec::retain` keeps; `retain` is a recursive function, and the lemma rests on the
  least position at which it would fail. `RouteIsTimed` needs `expired`, what
  `route_timeout_task` has taken and not removed yet; `OwnerHasRoute` needs that
  whoever takes a route from the list takes the owner under the same lock.

`Punch`, for any number of lives and any cap of the back-off (`PunchAssumption`):

- `PunchTypeCorrect` (`PunchTypeOK`) and `OnlyAskerWaits` (`OnlyAskingIsHeldBack`)
  from `PunchIInv`. That the client with the larger address is never held back
  holds because its count stays zero, and that rests on the messages under way:
  `PunchStart1` only goes to it and `PunchStart2` only to the other one
  (`AskedInOrder`), although each client may be started again at any time.

`WebAppProofs` proves for any number of starts and requests to stop that overlap
(`WebAssumption`: `None` is not an attempt):

- `AppTypeCorrect` and `NetworkIsOne`: `TypeOK` and `OneNetwork` from the
  inductive invariant `NetworkInv`. `OneNetwork` needs that only the group the
  manager holds is up (`ManagerHoldsIt`), and for every group that one which is
  not stopped has no task whose abort is still to take effect (`GroupIsSound`),
  so that what `stop` drains is all there is. The operations of `TaskGroup` have a
  lemma each; the steps are sorted by what they do to groups and manager.

- `RunningIsShown` (`StatusIsHonest`) from `StatusInv`: while no start has run on
  over a newer one, the state of the application belongs to the one start that set
  `Starting`, and is at each of its steps what that start made of it
  (`OwnerHasState`); the waiter is the last thing a start makes (`WaiterIsLast`),
  so that a start that is cleaned up has none.

Every invariant and every action property of the runs is thus proved. Only
model-checked is every liveness property (`OfflineLeaseEnds`, `ClientCatchesUp`,
`SilentRouteGoes`, `LossIsRepaired`, `FrameEnds`, `JoinEnds`, `LostLinkIsLeft`,
`PeersAreReached`, `LonelyRouteEnds`, `StartEnds`, `StoppedIsForgotten`), since the
prover does not handle fairness; and the violation of `unique_after_restart`.

## 6. Where code and comments differ, and what properties exempt

The models take these steps as the code does; the properties are stated so that
they say what remains true.

- `network_state_provider.rs:270`: a pre-registration that ends removes the
  `Sender` of its address after the mutex is released. A session that got the
  address in between is connected without a `Sender`, and frames for it are
  dropped until it reconnects.
- `network_state_provider.rs:653`: a device that is given another address than
  the one it asked for keeps its old address in `device_ip_map`; nobody can have
  that address until the device takes it again.
- `service.rs:430` and `:646`: the sweep and `delete_device` remove a device that
  came online between their two critical sections. Its session stays, and its
  client is served at an address that others may be given (`delete_device` also
  removes its sender, so that frames for it are dropped). `ServedAsItself` exempts
  the lease of such a session (`taken`), `ServedIsListed` the session (`exposed`):
  the state that serves it counts no device, can be given up, and is loaded again
  for the next client.
- `service.rs:582`: a registration that found the state of a network, and has not
  got its lease yet when a request or the cleanup task finds the network unused, is
  served by a state that is no longer listed (`exposed`).
- Rows are written out of order: after a restart two devices may have the same
  address (run `unique_after_restart`).
- `decoder.rs:164`: in a group of packets of different lengths the decoder cannot
  reconstruct what is missing, and the error drops the packet that has just
  arrived.
- `encoder.rs:67` against `decoder.rs:144`: the encoder computes the parity before
  it sets the FEC flag of a packet, the decoder decodes from originals with that
  flag, so that a packet reconstructed with the help of another original may have
  other flags than it was sent with. With compression a wrong flag makes
  `decompress` fail, and the rest of what the decoder returned, the arriving packet
  included, is dropped. `LossIsRepaired` exempts these packets (`spoiled`).
- `peer_server.rs:817`: `remove_outbound_peer` waits five seconds for the task it
  has stopped, and not at all for one that another request has replaced; such a
  task may list its connection after the scan. `RemovedIsGone` exempts the address
  (`outlived`).
- `peer_server.rs:883`: `forward_to_peer` sends a datagram, and no task of a
  server reads datagrams from another server. `Relay` leaves such frames where
  they are, and `FrameEnds` names them.
- `server/outbound.rs:218`: of a broadcast the server with most clients gets a
  share from which nothing is taken, and each of the others a share without the
  clients of that one. The others are not compared among each other: a client that
  two of them serve, and the best does not, gets the frame twice. `DeliveredOnce`
  exempts it (`OnTwoOthers`).
- `inbound.rs:189`: probes through other clients yield no relayed route: the
  `Pong` leaves with ttl 1 and `add_route` takes a relayed route only next to a
  direct one.
- `connection_manager.rs:310`: `coordinated_registration` does not compare the
  addresses that the other servers give with the first one's. `ServedAsItself`
  exempts such a registration (`diverged`).
- `connection_manager.rs:243`: when client and server both write into a full
  connection neither reads, and no timeout covers the write. `LostLinkIsLeft`
  exempts it (`Jammed`).
- `service_http.rs:522` and `:524`: the clean-up of a start that failed does not
  look whose status it changes, and may set a newer network to `Stopped`, which
  then cannot be stopped by the web page. `StatusIsHonest` exempts it (`late`).
- `service.rs:598`: `update_network` stores a gateway of which no subnet can be
  built before it notices; `StoredIsServed` exempts the row (`BadNet`).

## 7. Not modelled

- Encryption, compression and TLS are transformations of single packets around
  libraries; wire formats are abstract except for the ttl and the message types.
- Userspace NAT and port mapping are a task per connection that copies between
  two sockets; QUIC over the tunnel the same on top of a library.
- NAT detection: STUN queries and the classification of their answers; `Punch`
  knows only whether the own addresses are known.
- The requests of `rpc.rs`, the change of a running TUN device
  (`DeviceIOManager::stop_task`), `backfill_missing_secrets_from_config`, the
  table `peer_servers`, login tokens.
- Command line, IPC, views of the web interfaces, configuration and installation
  scripts are input and output with little state of their own.
