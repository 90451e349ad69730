---------------------------- MODULE WebAppProofs ----------------------------
(***************************************************************************)
(* Proofs about WebApp, for any number of starts, restarts and requests to *)
(* stop under way at once: the types, and that one network at most is up.  *)
(*                                                                         *)
(* OneNetwork is not inductive.  Two groups are never up because only the  *)
(* group the manager holds is; a stopped group has no running task because *)
(* a group that is not stopped has none whose abort is still to take       *)
(* effect, so that what is drained from the map is all there is.           *)
(***************************************************************************)
EXTENDS WebApp, TLAPS

\* What each operation on a group preserves.
GroupIsSound(g) ==
    /\ g \in TaskGroups(Tasks)
    /\ g.tasks = Running(g)
    /\ g.stopped => g.tasks = {}
    /\ ~g.stopped => g.aborted = {}

GroupsAreSound == \A a \in Attempts : GroupIsSound(groups[a])

ManagerHoldsIt == \A a \in Attempts : Up(a) => manager = a

\* The inductive invariant.
NetworkInv ==
    /\ TypeOK
    /\ GroupsAreSound
    /\ ManagerHoldsIt

-----------------------------------------------------------------------------
(* The operations of a task group.                                         *)

\* TaskGroupInner::new.
LEMMA NewGroupIsSound == GroupIsSound(NewGroup)
BY DEF GroupIsSound, NewGroup, TaskGroups, Running

\* TaskGroupInner::stop leaves nothing running.
LEMMA StopIsSound ==
    ASSUME NEW g, GroupIsSound(g)
    PROVE  GroupIsSound(Stop(g)) /\ Stop(g).stopped
BY DEF GroupIsSound, Stop, TaskGroups, Running

\* TaskGroupInner::spawn changes no stopped group and stops none.
LEMMA SpawnIsSound ==
    ASSUME NEW g, GroupIsSound(g), NEW t \in Tasks
    PROVE  GroupIsSound(Spawn(g, t)) /\ Spawn(g, t).stopped = g.stopped
<1>1. CASE g.stopped
    BY <1>1 DEF Spawn, Accepts
<1>2. CASE ~g.stopped
    <2> DEFINE h == [g EXCEPT !.tasks = @ \cup {t}, !.live = @ \cup {t}]
    <2>1. Spawn(g, t) = h
        BY <1>2 DEF Spawn, Accepts
    <2>2. h \in TaskGroups(Tasks) /\ h.stopped = g.stopped
        BY DEF GroupIsSound, TaskGroups
    <2>3. /\ h.tasks = g.tasks \cup {t} /\ h.live = g.live \cup {t}
          /\ h.aborted = g.aborted
        BY DEF GroupIsSound, TaskGroups
    <2>4. g.aborted = {} /\ g.tasks = g.live \ g.aborted
        BY <1>2 DEF GroupIsSound, Running
    <2>5. GroupIsSound(h)
        BY <1>2, <2>2, <2>3, <2>4 DEF GroupIsSound, Running
    <2> QED BY <2>1, <2>2, <2>5
<1> QED BY <1>1, <1>2 DEF GroupIsSound, TaskGroups

\* TaskGroupInner::remove_task stops a group but never starts one again.
LEMMA RemoveTaskIsSound ==
    ASSUME NEW g, GroupIsSound(g), NEW t \in Tasks
    PROVE  GroupIsSound(RemoveTask(g, t)) /\ (g.stopped => RemoveTask(g, t).stopped)
<1> DEFINE h == RemoveTask(g, t)
<1>1. h \in TaskGroups(Tasks)
    BY DEF GroupIsSound, RemoveTask, TaskGroups
<1>2. /\ h.tasks = g.tasks \ {t} /\ h.live = g.live \ {t}
      /\ h.aborted = g.aborted \ {t}
      /\ h.stopped = (g.stopped \/ g.tasks \subseteq {t})
    BY DEF GroupIsSound, RemoveTask, TaskGroups
<1>3. GroupIsSound(h) /\ (g.stopped => h.stopped)
    <2> HIDE DEF h
    <2> QED BY <1>1, <1>2 DEF GroupIsSound, Running
<1> QED BY <1>3

-----------------------------------------------------------------------------
(* The steps.                                                              *)

\* TypeOK without the groups, which the lemmas above are about.
RestTyped ==
    /\ status \in {"Stopped", "Starting", "Running"}
    /\ {vnt, manager, owner} \subseteq Attempts \cup {None}
    /\ pc \in [Attempts -> Steps]
    /\ waiter \in [Attempts -> {"none", "waiting", "dropped", "cleaned"}]
    /\ stopping \in [Handlers -> {"idle", "checked"}]
    /\ late \in BOOLEAN

GroupsTyped == groups \in [Attempts -> TaskGroups(Tasks)]

NetInv == GroupsTyped /\ GroupsAreSound /\ ManagerHoldsIt

\* The invariant is its two parts, before a step and after it.
LEMMA InvIsParts == NetworkInv <=> RestTyped /\ NetInv
BY DEF NetworkInv, RestTyped, NetInv, TypeOK, GroupsTyped, GroupsAreSound, GroupIsSound

\* The same of the next state.
LEMMA InvIsPartsNext == NetworkInv' <=> RestTyped' /\ NetInv'
BY DEF NetworkInv, RestTyped, NetInv, TypeOK, GroupsTyped, GroupsAreSound, GroupIsSound

\* A step that changes one group, and starts none, keeps the manager's.
LEMMA UpdateKeeps ==
    ASSUME NetInv, NEW a \in Attempts, NEW g, GroupIsSound(g),
           ~g.stopped => Up(a), Update(a, g), manager' = manager
    PROVE  NetInv'
<1>1. groups' = [groups EXCEPT ![a] = g]
    BY DEF Update
<1>2. GroupsTyped'
    BY <1>1 DEF NetInv, GroupsTyped, GroupIsSound
<1>3. \A b \in Attempts : groups'[b] = IF b = a THEN g ELSE groups[b]
    BY <1>1 DEF NetInv, GroupsTyped
<1>4. GroupsAreSound'
    BY <1>3 DEF NetInv, GroupsAreSound, GroupIsSound, Running
<1>5. ManagerHoldsIt'
    BY <1>3 DEF NetInv, ManagerHoldsIt, Up
<1> QED BY <1>2, <1>4, <1>5 DEF NetInv

\* A step that leaves groups and manager alone.
LEMMA StutterKeeps ==
    ASSUME NetInv, UNCHANGED <<groups, manager>> PROVE NetInv'
BY DEF NetInv, GroupsTyped, GroupsAreSound, GroupIsSound, Running, ManagerHoldsIt, Up

\* TaskGroupGuard::drop: whatever the manager held is down afterwards.
LEMMA DropGuardKeeps ==
    ASSUME NetInv, NEW a \in Attempts, DropGuard(a) PROVE NetInv'
<1>1. \A b \in Attempts : GroupIsSound(groups[b])
    BY DEF NetInv, GroupsAreSound
<1>2. \A b \in Attempts : GroupIsSound(Stop(groups[b])) /\ Stop(groups[b]).stopped
    BY <1>1, StopIsSound
<1>3. groups' = [b \in Attempts |-> IF b \in {a, manager}
                                    THEN Stop(groups[b]) ELSE groups[b]]
      /\ manager' = None
    BY DEF DropGuard
<1>4. \A b \in Attempts : GroupIsSound(groups'[b])
    BY <1>1, <1>2, <1>3
<1>5. GroupsTyped'
    BY <1>3, <1>4 DEF GroupsTyped, GroupIsSound
<1>6. GroupsAreSound'
    BY <1>4 DEF GroupsAreSound, GroupIsSound, Running
<1>7. \A b \in Attempts : groups'[b].stopped
    <2> SUFFICES ASSUME NEW b \in Attempts PROVE groups'[b].stopped
        OBVIOUS
    <2>1. CASE b \in {a, manager}
        BY <2>1, <1>2, <1>3
    <2>2. CASE b \notin {a, manager}
        BY <2>2, <1>3 DEF NetInv, ManagerHoldsIt, Up
    <2> QED BY <2>1, <2>2
<1>8. ManagerHoldsIt'
    BY <1>7 DEF ManagerHoldsIt, Up
<1> QED BY <1>5, <1>6, <1>8 DEF NetInv

\* TaskGroupManager::stop.
LEMMA StopManagerKeeps ==
    ASSUME NetInv, StopManager, manager' = manager PROVE NetInv'
<1>1. \A b \in Attempts : GroupIsSound(groups[b])
    BY DEF NetInv, GroupsAreSound
<1>2. \A b \in Attempts : GroupIsSound(Stop(groups[b])) /\ Stop(groups[b]).stopped
    BY <1>1, StopIsSound
<1>3. groups' = [b \in Attempts |-> IF b = manager THEN Stop(groups[b])
                                                    ELSE groups[b]]
    BY DEF StopManager
<1>4. \A b \in Attempts : GroupIsSound(groups'[b])
    BY <1>1, <1>2, <1>3
<1>5. GroupsTyped'
    BY <1>3, <1>4 DEF GroupsTyped, GroupIsSound
<1>6. GroupsAreSound'
    BY <1>4 DEF GroupsAreSound, GroupIsSound, Running
<1>7. ManagerHoldsIt'
    BY <1>2, <1>3 DEF NetInv, ManagerHoldsIt, Up
<1> QED BY <1>5, <1>6, <1>7 DEF NetInv

-----------------------------------------------------------------------------
(* One lemma per group of actions: the types, and the groups.              *)

\* The steps of a start or a waiter that change neither groups nor manager.
QuietStep(a) ==
    \/ StartRequest(a) \/ RestartRequest(a) \/ Poll(a) \/ Starting(a)
    \/ ReadFails(a) \/ Publish(a) \/ Announce(a) \/ Record(a) \/ Clean(a)
    \/ Unwind(a) \/ Err(a) \/ End(a) \/ WaiterCleans(a) \/ BringUpFails(a)

\* They keep the types, and the rest without more ado.
LEMMA QuietStepKeeps ==
    ASSUME RestTyped, NetInv, NEW a \in Attempts, QuietStep(a)
    PROVE  RestTyped' /\ NetInv'
<1>1. UNCHANGED <<groups, manager>>
    BY DEF QuietStep, StartRequest, RestartRequest, Poll, Starting, ReadFails,
           Publish, Announce, Record, Clean, Unwind, Err, End, WaiterCleans,
           BringUpFails
<1>2. NetInv'
    BY <1>1, StutterKeeps
<1> SUFFICES RestTyped'
    BY <1>2
<1>3. CASE StartRequest(a)
    BY <1>1, <1>3 DEF RestTyped, StartRequest, Goto, Steps, app
<1>4. CASE RestartRequest(a)
    BY <1>1, <1>4 DEF RestTyped, RestartRequest, Goto, Steps, app
<1>5. CASE Poll(a)
    BY <1>1, <1>5 DEF RestTyped, Poll, Goto, Steps, app
<1>6. CASE Starting(a)
    BY <1>1, <1>6 DEF RestTyped, Starting, Goto, Steps, app
<1>7. CASE ReadFails(a)
    BY <1>1, <1>7 DEF RestTyped, ReadFails, Goto, Steps, app
<1>8. CASE Publish(a)
    BY <1>1, <1>8 DEF RestTyped, Publish, Goto, Steps, SetStatus, app
<1>9. CASE Announce(a)
    BY <1>1, <1>9 DEF RestTyped, Announce, Goto, Steps, starting_to_running, SetStatus, app
<1>10. CASE Record(a)
    BY <1>1, <1>10 DEF RestTyped, Record, Goto, Steps, app
<1>11. CASE Clean(a)
    BY <1>1, <1>11 DEF RestTyped, Clean, Goto, Steps, stopped, SetStatus
<1>12. CASE Unwind(a)
    BY <1>1, <1>12 DEF RestTyped, Unwind, Goto, Steps, stopped, SetStatus
<1>13. CASE Err(a)
    BY <1>1, <1>13 DEF RestTyped, Err, Goto, Steps, record_log_and_stopped, SetStatus, app
<1>14. CASE End(a)
    BY <1>1, <1>14 DEF RestTyped, End, Goto, Steps, starting_to_stopped, SetStatus, app
<1>15. CASE WaiterCleans(a)
    BY <1>1, <1>15 DEF RestTyped, WaiterCleans, Goto, Steps, stopped, SetStatus
<1>16. CASE BringUpFails(a)
    BY <1>1, <1>16 DEF RestTyped, BringUpFails, Goto, Steps, app
<1> QED BY <1>3, <1>4, <1>5, <1>6, <1>7, <1>8, <1>9, <1>10, <1>11, <1>12,
        <1>13, <1>14, <1>15, <1>16 DEF QuietStep

\* The steps that change one group by an operation of TaskGroup.
GroupStep(a) ==
    \/ CreateNetwork(a) \/ CreateNetworkFails(a) \/ Register(a) \/ StartTun(a)
    \/ HandOver(a) \/ WorkerEnds(a) \/ LinkGivesUp(a) \/ Reuse(a)
    \/ \E t \in Tasks : TaskDropped(a, t)

\* They keep that the group is sound, and start no group that was stopped.
LEMMA GroupStepKeeps ==
    ASSUME RestTyped, NetInv, NEW a \in Attempts, GroupStep(a)
    PROVE  RestTyped' /\ NetInv'
<1>1. GroupIsSound(groups[a])
    BY DEF NetInv, GroupsAreSound
<1>2. \A t \in Tasks : /\ GroupIsSound(Spawn(groups[a], t))
                       /\ Spawn(groups[a], t).stopped = groups[a].stopped
    BY <1>1, SpawnIsSound
<1>3. \A t \in Tasks : /\ GroupIsSound(RemoveTask(groups[a], t))
                       /\ groups[a].stopped => RemoveTask(groups[a], t).stopped
    BY <1>1, RemoveTaskIsSound
<1>4. GroupIsSound(Stop(groups[a])) /\ Stop(groups[a]).stopped
    BY <1>1, StopIsSound
<1>5. GroupIsSound(Stop(NewGroup)) /\ Stop(NewGroup).stopped
    BY NewGroupIsSound, StopIsSound
<1>6. {"worker", "link", "waiter"} \subseteq Tasks
    BY DEF Tasks
<1>7. RestTyped'
    <2>1. CASE CreateNetwork(a)
        BY <2>1 DEF RestTyped, CreateNetwork, Goto, Steps, app
    <2>2. CASE CreateNetworkFails(a)
        BY <2>2 DEF RestTyped, CreateNetworkFails, Goto, Steps, app
    <2>3. CASE Register(a)
        BY <2>3 DEF RestTyped, Register, Goto, Steps, app
    <2>4. CASE StartTun(a)
        BY <2>4 DEF RestTyped, StartTun, Goto, Steps, app
    <2>5. CASE HandOver(a)
        BY <2>5 DEF RestTyped, HandOver, Goto, Steps, app
    <2>6. CASE WorkerEnds(a)
        BY <2>6 DEF RestTyped, WorkerEnds, Goto, Steps, app
    <2>7. CASE LinkGivesUp(a)
        BY <2>7 DEF RestTyped, LinkGivesUp, Goto, Steps, app
    <2>8. CASE Reuse(a)
        BY <2>8 DEF RestTyped, Reuse, Goto, Steps
    <2>9. CASE \E t \in Tasks : TaskDropped(a, t)
        BY <2>9 DEF RestTyped, TaskDropped, app
    <2> QED BY <2>1, <2>2, <2>3, <2>4, <2>5, <2>6, <2>7, <2>8, <2>9 DEF GroupStep
<1>8. PICK g : /\ Update(a, g) /\ GroupIsSound(g) /\ manager' = manager
               /\ ~g.stopped => ~groups[a].stopped
    <2>1. CASE CreateNetwork(a)
        BY <2>1, <1>2, <1>6 DEF CreateNetwork
    <2>2. CASE CreateNetworkFails(a)
        BY <2>2, <1>1, <1>2, <1>6 DEF CreateNetworkFails
    <2>3. CASE Register(a)
        BY <2>3, <1>2, <1>6 DEF Register
    <2>4. CASE StartTun(a)
        BY <2>4, <1>2, <1>6 DEF StartTun
    <2>5. CASE HandOver(a)
        BY <2>5, <1>2, <1>6 DEF HandOver
    <2>6. CASE WorkerEnds(a)
        <3> DEFINE h == RemoveTask(groups[a], "worker")
        <3>1. Update(a, h) /\ manager' = manager
            BY <2>6 DEF WorkerEnds
        <3>2. GroupIsSound(h) /\ (groups[a].stopped => h.stopped)
            BY <1>3, <1>6
        <3> HIDE DEF h
        <3> QED BY <3>1, <3>2
    <2>7. CASE LinkGivesUp(a)
        BY <2>7, <1>4 DEF LinkGivesUp
    <2>8. CASE Reuse(a)
        BY <2>8, <1>5 DEF Reuse
    <2>9. CASE \E t \in Tasks : TaskDropped(a, t)
        <3>1. PICK t \in Tasks : TaskDropped(a, t)
            BY <2>9
        <3> DEFINE h == RemoveTask(groups[a], t)
        <3>2. Update(a, h) /\ manager' = manager
            BY <3>1 DEF TaskDropped
        <3>3. GroupIsSound(h) /\ (groups[a].stopped => h.stopped)
            BY <1>3
        <3> HIDE DEF h
        <3> QED BY <3>2, <3>3
    <2> QED BY <2>1, <2>2, <2>3, <2>4, <2>5, <2>6, <2>7, <2>8, <2>9 DEF GroupStep
<1>9. NetInv'
    BY <1>8, UpdateKeeps DEF Up
<1> QED BY <1>7, <1>9

\* TaskGroupManager::create_task: a group is only made while none is held.
LEMMA ReadKeeps ==
    ASSUME RestTyped, NetInv, NEW a \in Attempts, Read(a)
    PROVE  RestTyped' /\ NetInv'
<1>1. RestTyped'
    BY DEF RestTyped, Read, Goto, Steps, app
<1>2. CASE manager # None
    <2>1. UNCHANGED <<groups, manager>>
        BY <1>2 DEF Read
    <2> QED BY <1>1, <2>1, StutterKeeps
<1>3. CASE manager = None
    <2>1. groups' = [groups EXCEPT ![a] = NewGroup] /\ manager' = a
        BY <1>3 DEF Read, Update
    <2>2. \A b \in Attempts : groups'[b] = IF b = a THEN NewGroup ELSE groups[b]
        BY <2>1 DEF NetInv, GroupsTyped
    <2>3. \A b \in Attempts : groups[b].stopped
        BY <1>3, WebAssumption DEF NetInv, ManagerHoldsIt, Up
    <2>4. GroupsTyped'
        BY <2>1, NewGroupIsSound DEF NetInv, GroupsTyped, GroupIsSound
    <2>5. GroupsAreSound'
        BY <2>2, NewGroupIsSound DEF NetInv, GroupsAreSound, GroupIsSound, Running
    <2>6. ManagerHoldsIt'
        BY <2>1, <2>2, <2>3 DEF ManagerHoldsIt, Up
    <2> QED BY <1>1, <2>4, <2>5, <2>6 DEF NetInv
<1> QED BY <1>2, <1>3

\* The steps that take down what the manager holds.
LEMMA StopStepKeeps ==
    ASSUME RestTyped, NetInv,
           \/ \E a \in Attempts :
                  Halt(a) \/ Discard(a) \/ Drop(a) \/ WaiterDropsGuard(a)
           \/ \E h \in Handlers : StopRequest(h) \/ StopNetwork(h)
    PROVE  RestTyped' /\ NetInv'
<1>1. ASSUME NEW a \in Attempts, Halt(a) PROVE RestTyped' /\ NetInv'
    <2>1. RestTyped'
        BY <1>1 DEF RestTyped, Halt, Goto, Steps, app
    <2> QED BY <1>1, <2>1, StopManagerKeeps DEF Halt
<1>2. ASSUME NEW a \in Attempts, Discard(a) PROVE RestTyped' /\ NetInv'
    <2>1. RestTyped'
        BY <1>2 DEF RestTyped, Discard, DropGuard, Goto, Steps, app
    <2> QED BY <1>2, <2>1, DropGuardKeeps DEF Discard
<1>3. ASSUME NEW a \in Attempts, Drop(a) PROVE RestTyped' /\ NetInv'
    <2>1. RestTyped'
        BY <1>3 DEF RestTyped, Drop, DropGuard, Goto, Steps, app
    <2> QED BY <1>3, <2>1, DropGuardKeeps DEF Drop
<1>4. ASSUME NEW a \in Attempts, WaiterDropsGuard(a) PROVE RestTyped' /\ NetInv'
    <2>1. RestTyped'
        BY <1>4 DEF RestTyped, WaiterDropsGuard, DropGuard, app
    <2> QED BY <1>4, <2>1, DropGuardKeeps DEF WaiterDropsGuard
<1>5. ASSUME NEW h \in Handlers, StopRequest(h) PROVE RestTyped' /\ NetInv'
    <2>1. RestTyped'
        BY <1>5 DEF RestTyped, StopRequest, app
    <2> QED BY <1>5, <2>1, StutterKeeps DEF StopRequest
<1>6. ASSUME NEW h \in Handlers, StopNetwork(h) PROVE RestTyped' /\ NetInv'
    <2>1. RestTyped'
        BY <1>6 DEF RestTyped, StopNetwork, app
    <2> QED BY <1>6, <2>1, StopManagerKeeps DEF StopNetwork
<1> QED BY <1>1, <1>2, <1>3, <1>4, <1>5, <1>6

-----------------------------------------------------------------------------
\* Before the first start every group is empty and stopped.
LEMMA InitEstablishes == Init => NetworkInv
<1> SUFFICES ASSUME Init PROVE RestTyped /\ NetInv
    BY InvIsParts
<1>1. GroupIsSound(Stop(NewGroup)) /\ Stop(NewGroup).stopped
    BY NewGroupIsSound, StopIsSound
<1>2. RestTyped
    BY DEF Init, RestTyped, Steps
<1>3. GroupsTyped
    BY <1>1 DEF Init, GroupsTyped, GroupIsSound
<1>4. GroupsAreSound
    BY <1>1 DEF Init, GroupsAreSound
<1>5. ManagerHoldsIt
    BY <1>1 DEF Init, ManagerHoldsIt, Up
<1> QED BY <1>2, <1>3, <1>4, <1>5 DEF NetInv

\* Every step is one of those above.
LEMMA StepKeeps == NetworkInv /\ [Next]_vars => NetworkInv'
<1> SUFFICES ASSUME RestTyped, NetInv, [Next]_vars PROVE RestTyped' /\ NetInv'
    BY InvIsParts, InvIsPartsNext
<1>1. CASE UNCHANGED vars
    <2>1. RestTyped'
        BY <1>1 DEF vars, RestTyped
    <2> QED BY <1>1, <2>1, StutterKeeps DEF vars
<1>2. ASSUME NEW a \in Attempts, QuietStep(a) PROVE RestTyped' /\ NetInv'
    BY <1>2, QuietStepKeeps
<1>3. ASSUME NEW a \in Attempts, GroupStep(a) PROVE RestTyped' /\ NetInv'
    BY <1>3, GroupStepKeeps
<1>4. ASSUME NEW a \in Attempts, Read(a) PROVE RestTyped' /\ NetInv'
    BY <1>4, ReadKeeps
<1>5. CASE \/ \E a \in Attempts :
                 Halt(a) \/ Discard(a) \/ Drop(a) \/ WaiterDropsGuard(a)
           \/ \E h \in Handlers : StopRequest(h) \/ StopNetwork(h)
    BY <1>5, StopStepKeeps
<1> QED BY <1>1, <1>2, <1>3, <1>4, <1>5
        DEF Next, StartStep, WaiterStep, QuietStep, GroupStep

-----------------------------------------------------------------------------
\* Every variable of the program keeps its type, and the map of a group holds
\* exactly its tasks that go on.
THEOREM AppTypeCorrect == Spec => []TypeOK
<1>1. Init => NetworkInv
    BY InitEstablishes
<1>2. NetworkInv /\ [Next]_vars => NetworkInv'
    BY StepKeeps
<1>3. NetworkInv => TypeOK
    BY DEF NetworkInv
<1> QED BY <1>1, <1>2, <1>3, PTL DEF Spec

\* What is up is what the manager holds, and what is stopped runs nothing.
LEMMA InvImpliesOneNetwork == NetworkInv => OneNetwork
<1> SUFFICES ASSUME NetworkInv PROVE OneNetwork
    OBVIOUS
<1>1. \A a, b \in Attempts : Up(a) /\ Up(b) => a = b
    BY DEF NetworkInv, ManagerHoldsIt
<1>2. \A a \in Attempts : Running(groups[a]) # {} => Up(a)
    BY DEF NetworkInv, GroupsAreSound, GroupIsSound, Up
<1> QED BY <1>1, <1>2 DEF OneNetwork

\* One network at most is up, and no task goes on in a group that was stopped,
\* however many requests to start, restart and stop overlap
\* (TaskGroupManager::create_task, TaskGroupInner::spawn and stop).
THEOREM NetworkIsOne == Spec => []OneNetwork
<1>1. Init => NetworkInv
    BY InitEstablishes
<1>2. NetworkInv /\ [Next]_vars => NetworkInv'
    BY StepKeeps
<1>3. NetworkInv => OneNetwork
    BY InvImpliesOneNetwork
<1> QED BY <1>1, <1>2, <1>3, PTL DEF Spec

-----------------------------------------------------------------------------
(* The status.  While no start has run on over a newer one, the state of   *)
(* the application belongs to the one start that set Starting, from there  *)
(* until its guard resets it.                                              *)

HasState(a, s, v) == owner = a /\ status = s /\ vnt = v

\* The waiter is the last thing a start makes.
WaiterIsLast ==
    \A a \in Attempts : pc[a] \notin {"recording", "ending", "over"} => waiter[a] = "none"

\* What the state is at the steps of its owner.
OwnerHasState == \A a \in Attempts :
    /\ pc[a] \in {"reading", "creating", "publishing"} => HasState(a, "Starting", None)
    /\ pc[a] \in {"registering", "device", "announcing"} => HasState(a, "Starting", a)
    /\ pc[a] = "handing" => HasState(a, "Running", a)
    /\ waiter[a] = "waiting" => HasState(a, "Running", a)

\* The inductive invariant.
StatusInv == RestTyped /\ WaiterIsLast /\ (~late => OwnerHasState)

\* A step of a start that leaves the state of the application alone.
LEMMA StatusKeptByMove ==
    ASSUME StatusInv, NEW a \in Attempts, NEW q, Goto(a, q), UNCHANGED <<app, waiter>>,
           q \in {"recording", "ending", "over"} \/ pc[a] \notin {"recording", "ending", "over"},
           q \in {"reading", "creating", "publishing"} =>
               pc[a] \in {"reading", "creating", "publishing"},
           q \in {"registering", "device", "announcing"} =>
               pc[a] \in {"registering", "device", "announcing"},
           q # "handing"
    PROVE  WaiterIsLast' /\ (~late' => OwnerHasState')
<1>1. /\ \A b \in Attempts : pc'[b] = IF b = a THEN q ELSE pc[b]
      /\ UNCHANGED <<status, vnt, owner, late, waiter>>
    BY DEF StatusInv, RestTyped, Goto, app
<1>2. WaiterIsLast'
    BY <1>1 DEF StatusInv, WaiterIsLast
<1>3. ~late' => OwnerHasState'
    BY <1>1 DEF StatusInv, OwnerHasState, HasState
<1> QED BY <1>2, <1>3

\* Who has no right to the state of the application and changes it is late.
LEMMA StatusKeptByChange ==
    ASSUME StatusInv, NEW a \in Attempts, NEW q, Goto(a, q),
           NEW s, NEW v, SetStatus(a, s, v) \/ UNCHANGED app, UNCHANGED waiter,
           q \notin {"reading", "creating", "publishing", "handing"},
           waiter[a] # "waiting", pc[a] \notin {"recording", "ending", "over"},
           q \in {"registering", "device", "announcing"} =>
               (~late' /\ ~late => owner = a /\ status' = "Starting" /\ vnt' = a)
    PROVE  WaiterIsLast' /\ (~late' => OwnerHasState')
<1>1. /\ \A b \in Attempts : pc'[b] = IF b = a THEN q ELSE pc[b]
      /\ UNCHANGED <<owner, waiter>>
      /\ (~late' => ~late)
    BY DEF StatusInv, RestTyped, Goto, SetStatus, app
<1>2. WaiterIsLast'
    BY <1>1 DEF StatusInv, WaiterIsLast
<1>3. ASSUME ~late', owner # a PROVE UNCHANGED <<status, vnt>>
    BY <1>3 DEF SetStatus, app
<1>4. ASSUME ~late', NEW b \in Attempts, b # a PROVE OwnerHasState => 
        /\ pc'[b] \in {"reading", "creating", "publishing"} => HasState(b, "Starting", None)'
        /\ pc'[b] \in {"registering", "device", "announcing"} => HasState(b, "Starting", b)'
        /\ pc'[b] = "handing" => HasState(b, "Running", b)'
        /\ waiter'[b] = "waiting" => HasState(b, "Running", b)'
    BY <1>1, <1>3, <1>4 DEF OwnerHasState, HasState
<1> QED BY <1>1, <1>2, <1>4 DEF StatusInv, OwnerHasState, HasState

\* A step that leaves status, starts and waiters alone.
LEMMA StatusKeptByRest ==
    ASSUME StatusInv, UNCHANGED <<app, pc, waiter>>
    PROVE  WaiterIsLast' /\ (~late' => OwnerHasState')
BY DEF StatusInv, WaiterIsLast, OwnerHasState, HasState, app

\* Starting is set when nobody has the state of the application.
LEMMA StatusKeptByStarting ==
    ASSUME StatusInv, NEW a \in Attempts, Starting(a)
    PROVE  WaiterIsLast' /\ (~late' => OwnerHasState')
<1>1. CASE status = "Stopped" /\ vnt = None
    <2>1. /\ \A b \in Attempts : pc'[b] = IF b = a THEN "reading" ELSE pc[b]
          /\ status' = "Starting" /\ owner' = a /\ UNCHANGED <<vnt, late, waiter>>
          /\ pc[a] = "starting"
        BY <1>1 DEF StatusInv, RestTyped, Starting, Goto
    <2>2. WaiterIsLast'
        BY <2>1 DEF StatusInv, WaiterIsLast
    <2>3. waiter[a] = "none"
        BY <2>1 DEF StatusInv, WaiterIsLast
    <2>4. ~late' => OwnerHasState'
        BY <1>1, <2>1, <2>3 DEF StatusInv, OwnerHasState, HasState
    <2> QED BY <2>2, <2>4
<1>2. CASE ~(status = "Stopped" /\ vnt = None)
    BY <1>2, StatusKeptByMove DEF Starting
<1> QED BY <1>1, <1>2

\* A start publishes its network, and announces it when that is its own.
LEMMA StatusKeptByBringUp ==
    ASSUME StatusInv, NEW a \in Attempts, Publish(a) \/ Announce(a) \/ HandOver(a)
    PROVE  WaiterIsLast' /\ (~late' => OwnerHasState')
<1>1. CASE Publish(a) /\ vnt = None
    <2>1. waiter[a] = "none" /\ (~late => owner = a /\ status = "Starting")
        BY <1>1 DEF Publish, StatusInv, WaiterIsLast, OwnerHasState, HasState
    <2>2. Goto(a, "registering") /\ SetStatus(a, status, a) /\ UNCHANGED waiter
        BY <1>1 DEF Publish
    <2>3. ~late' /\ ~late => owner = a /\ status' = "Starting" /\ vnt' = a
        BY <2>1, <2>2 DEF SetStatus
    <2> QED BY <1>1, <2>1, <2>2, <2>3, StatusKeptByChange DEF Publish
<1>2. CASE Publish(a) /\ vnt # None
    BY <1>2, StatusKeptByMove DEF Publish
<1>3. CASE Announce(a)
    <2>1. /\ \A b \in Attempts : pc'[b] = IF b = a THEN "handing" ELSE pc[b]
          /\ pc[a] = "announcing" /\ UNCHANGED <<waiter, owner>> /\ (~late' => ~late)
          /\ status = "Starting" => status' = "Running" /\ vnt' = vnt
          /\ ~late' /\ owner # a => UNCHANGED <<status, vnt>>
        BY <1>3 DEF Announce, StatusInv, RestTyped, Goto, starting_to_running, SetStatus, app
    <2>2. WaiterIsLast' /\ waiter[a] = "none"
        BY <2>1 DEF StatusInv, WaiterIsLast
    <2>3. ~late' => OwnerHasState'
        BY <2>1, <2>2 DEF StatusInv, OwnerHasState, HasState
    <2> QED BY <2>2, <2>3
<1>4. CASE HandOver(a) /\ Accepts(groups[a])
    <2>1. /\ \A b \in Attempts : pc'[b] = IF b = a THEN "recording" ELSE pc[b]
          /\ \A b \in Attempts : waiter'[b] = IF b = a THEN "waiting" ELSE waiter[b]
          /\ pc[a] = "handing" /\ UNCHANGED <<status, vnt, owner, late>>
        BY <1>4 DEF HandOver, StatusInv, RestTyped, Goto, app
    <2>2. WaiterIsLast'
        BY <2>1 DEF StatusInv, WaiterIsLast
    <2>3. ~late' => OwnerHasState'
        BY <2>1 DEF StatusInv, OwnerHasState, HasState
    <2> QED BY <2>2, <2>3
<1>5. CASE HandOver(a) /\ ~Accepts(groups[a])
    BY <1>5, StatusKeptByMove DEF HandOver
<1> QED BY <1>1, <1>2, <1>3, <1>4, <1>5

\* The guards of a start reset the state.  Over a newer one they are late.
LEMMA StatusKeptByGuards ==
    ASSUME StatusInv, NEW a \in Attempts, Clean(a) \/ Unwind(a) \/ Err(a) \/ End(a)
    PROVE  WaiterIsLast' /\ (~late' => OwnerHasState')
<1>1. CASE Clean(a) \/ Unwind(a) \/ Err(a)
    <2>1. waiter[a] = "none"
        BY <1>1 DEF Clean, Unwind, Err, StatusInv, WaiterIsLast
    <2>2. CASE Clean(a)
        BY <2>1, <2>2, StatusKeptByChange DEF Clean, stopped
    <2>3. CASE Unwind(a)
        BY <2>1, <2>3, StatusKeptByChange DEF Unwind, stopped
    <2>4. CASE Err(a)
        BY <2>1, <2>4, StatusKeptByChange DEF Err, record_log_and_stopped
    <2> QED BY <1>1, <2>2, <2>3, <2>4
<1>2. CASE End(a)
    <2>1. /\ \A b \in Attempts : pc'[b] = IF b = a THEN "over" ELSE pc[b]
          /\ pc[a] = "ending" /\ UNCHANGED <<waiter, owner>> /\ (~late' => ~late)
          /\ status # "Starting" => UNCHANGED <<status, vnt>>
          /\ ~late' /\ owner # a => UNCHANGED <<status, vnt>>
        BY <1>2 DEF End, StatusInv, RestTyped, Goto, starting_to_stopped, SetStatus, app
    <2>2. WaiterIsLast'
        BY <2>1 DEF StatusInv, WaiterIsLast
    <2>3. ~late' => OwnerHasState'
        BY <2>1 DEF StatusInv, OwnerHasState, HasState
    <2> QED BY <2>2, <2>3
<1> QED BY <1>1, <1>2

\* A waiter drops what it holds, and then resets the state.
LEMMA StatusKeptByWaiter ==
    ASSUME StatusInv, NEW a \in Attempts, WaiterDropsGuard(a) \/ WaiterCleans(a) \/ Reuse(a)
    PROVE  WaiterIsLast' /\ (~late' => OwnerHasState')
<1>1. CASE WaiterDropsGuard(a)
    <2>1. /\ \A b \in Attempts : waiter'[b] = IF b = a THEN "dropped" ELSE waiter[b]
          /\ waiter[a] = "waiting" /\ UNCHANGED <<pc, status, vnt, owner, late>>
        BY <1>1 DEF WaiterDropsGuard, StatusInv, RestTyped, app
    <2> QED BY <2>1 DEF StatusInv, WaiterIsLast, OwnerHasState, HasState
<1>2. CASE WaiterCleans(a)
    <2>1. /\ \A b \in Attempts : waiter'[b] = IF b = a THEN "cleaned" ELSE waiter[b]
          /\ waiter[a] = "dropped" /\ UNCHANGED <<pc, owner>> /\ (~late' => ~late)
          /\ ~late' /\ owner # a => UNCHANGED <<status, vnt>>
        BY <1>2 DEF WaiterCleans, StatusInv, RestTyped, stopped, SetStatus
    <2>2. WaiterIsLast' /\ pc[a] \in {"recording", "ending", "over"}
        BY <2>1 DEF StatusInv, WaiterIsLast
    <2>3. ~late' => OwnerHasState'
        BY <2>1, <2>2 DEF StatusInv, OwnerHasState, HasState
    <2> QED BY <2>2, <2>3
<1>3. CASE Reuse(a)
    <2>1. /\ \A b \in Attempts : pc'[b] = IF b = a THEN "idle" ELSE pc[b]
          /\ \A b \in Attempts : waiter'[b] = IF b = a THEN "none" ELSE waiter[b]
          /\ UNCHANGED <<status, vnt, late>> /\ (owner # a => owner' = owner)
          /\ pc[a] = "over" /\ waiter[a] # "waiting"
        BY <1>3 DEF Reuse, StatusInv, RestTyped, Goto
    <2>2. WaiterIsLast'
        BY <2>1 DEF StatusInv, WaiterIsLast
    <2>3. ~late' => OwnerHasState'
        BY <2>1 DEF StatusInv, OwnerHasState, HasState
    <2> QED BY <2>2, <2>3
<1> QED BY <1>1, <1>2, <1>3

\* The steps that do not touch the state of the application.
LEMMA StatusKeptByMoves ==
    ASSUME StatusInv, NEW a \in Attempts,
           \/ StartRequest(a) \/ RestartRequest(a) \/ Halt(a) \/ Poll(a)
           \/ Read(a) \/ ReadFails(a) \/ CreateNetwork(a) \/ CreateNetworkFails(a)
           \/ Register(a) \/ StartTun(a) \/ BringUpFails(a) \/ Record(a)
           \/ Discard(a) \/ Drop(a)
    PROVE  WaiterIsLast' /\ (~late' => OwnerHasState')
<1>1. CASE StartRequest(a) \/ RestartRequest(a)
    BY <1>1, StatusKeptByMove DEF StartRequest, RestartRequest
<1>2. CASE Halt(a) \/ Poll(a)
    BY <1>2, StatusKeptByMove DEF Halt, Poll
<1>3. CASE Read(a)
    BY <1>3, StatusKeptByMove DEF Read
<1>4. CASE ReadFails(a)
    BY <1>4, StatusKeptByMove DEF ReadFails
<1>5. CASE CreateNetwork(a) \/ CreateNetworkFails(a)
    BY <1>5, StatusKeptByMove DEF CreateNetwork, CreateNetworkFails
<1>6. CASE Register(a) \/ StartTun(a) \/ BringUpFails(a)
    BY <1>6, StatusKeptByMove DEF Register, StartTun, BringUpFails
<1>7. CASE Record(a) \/ Discard(a) \/ Drop(a)
    BY <1>7, StatusKeptByMove DEF Record, Discard, Drop
<1> QED BY <1>1, <1>2, <1>3, <1>4, <1>5, <1>6, <1>7

\* Every step keeps whose the state is.
LEMMA StatusStep ==
    ASSUME StatusInv, [Next]_vars PROVE WaiterIsLast' /\ (~late' => OwnerHasState')
<1>1. CASE UNCHANGED vars
    BY <1>1, StatusKeptByRest DEF vars, app
<1>2. ASSUME NEW a \in Attempts,
             \/ \E t \in Tasks : TaskDropped(a, t)
             \/ WorkerEnds(a) \/ LinkGivesUp(a)
      PROVE  WaiterIsLast' /\ (~late' => OwnerHasState')
    BY <1>2, StatusKeptByRest DEF TaskDropped, WorkerEnds, LinkGivesUp
<1>3. ASSUME NEW h \in Handlers, StopRequest(h) \/ StopNetwork(h)
      PROVE  WaiterIsLast' /\ (~late' => OwnerHasState')
    BY <1>3, StatusKeptByRest DEF StopRequest, StopNetwork
<1> QED BY <1>1, <1>2, <1>3, StatusKeptByMoves, StatusKeptByStarting, StatusKeptByBringUp,
           StatusKeptByGuards, StatusKeptByWaiter DEF Next, StartStep, WaiterStep

\* A network that was handed over to its waiter is Running and the one the
\* application has, while no start ran on over a newer one (AppState and the
\* guards of service_http.rs).
THEOREM RunningIsShown == Spec => []StatusIsHonest
<1>1. Init => NetworkInv /\ StatusInv
    <2>1. Init => WaiterIsLast /\ OwnerHasState
        BY DEF Init, WaiterIsLast, OwnerHasState
    <2> QED BY <2>1, InitEstablishes, InvIsParts DEF StatusInv
<1>2. NetworkInv /\ StatusInv /\ [Next]_vars => NetworkInv' /\ StatusInv'
    BY StepKeeps, StatusStep, InvIsPartsNext DEF StatusInv
<1>3. StatusInv => StatusIsHonest
    BY DEF StatusInv, OwnerHasState, HasState, StatusIsHonest
<1> QED BY <1>1, <1>2, <1>3, PTL DEF Spec
=============================================================================
