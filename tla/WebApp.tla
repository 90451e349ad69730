------------------------------- MODULE WebApp -------------------------------
(***************************************************************************)
(* The client program with the web interface (vnt-web): requests to start, *)
(* restart and stop the network arrive at any time, each is a task of its  *)
(* own, and so is every start.  They meet in three places, each with a     *)
(* lock of its own: the state of the application, the manager that holds   *)
(* the one task group, and that group.                                     *)
(*                                                                         *)
(* A start (an "attempt") is followed from the request until its last      *)
(* guard has run.  Attempts are slots that are used again, so the number   *)
(* of starts of a behaviour is not bounded, only how many are under way.   *)
(* A group has three tasks: "worker" stands for those create_network and   *)
(* start_tun spawn, "link" for the connections to the servers, "waiter"    *)
(* for the task the finished start leaves behind.                          *)
(***************************************************************************)
EXTENDS TaskGroup

CONSTANTS
    Attempts,
    Handlers,   \* requests to stop that may be under way at once
    None

ASSUME WebAssumption == None \notin Attempts

VARIABLES
    status,     \* HttpAppStateInner.status
    vnt,        \* HttpAppStateInner.vnt: the attempt it belongs to
    manager,    \* TaskGroupManager.task_group: the attempt it belongs to
    groups,     \* attempt -> its task group
    pc,         \* attempt -> the step its start is at
    waiter,     \* attempt -> what its waiter has dropped
    stopping,   \* handler -> the request to stop it serves
    owner,      \* history: the attempt that last set Starting
    late        \* history: an attempt changed the state of a later one

vars == <<status, vnt, manager, groups, pc, waiter, stopping, owner, late>>
app == <<status, vnt, owner, late>>

Tasks == {"worker", "link", "waiter"}

Steps ==
    {"idle", "halting", "polling", "starting", "reading", "creating",
     "publishing", "registering", "device", "announcing", "handing",
     "discarding", "cleaning", "recording", "unwinding", "dropping",
     "erring", "ending", "over"}

TypeOK ==
    /\ status \in {"Stopped", "Starting", "Running"}
    /\ {vnt, manager, owner} \subseteq Attempts \cup {None}
    /\ groups \in [Attempts -> TaskGroups(Tasks)]
    /\ \A a \in Attempts : groups[a].tasks = Running(groups[a])
    /\ pc \in [Attempts -> Steps]
    /\ waiter \in [Attempts -> {"none", "waiting", "dropped", "cleaned"}]
    /\ stopping \in [Handlers -> {"idle", "checked"}]
    /\ late \in BOOLEAN

Init ==
    /\ status = "Stopped"
    /\ vnt = None
    /\ manager = None
    /\ groups = [a \in Attempts |-> Stop(NewGroup)]
    /\ pc = [a \in Attempts |-> "idle"]
    /\ waiter = [a \in Attempts |-> "none"]
    /\ stopping = [h \in Handlers |-> "idle"]
    /\ owner = None
    /\ late = FALSE

Goto(a, step) == pc' = [pc EXCEPT ![a] = step]
Update(a, g) == groups' = [groups EXCEPT ![a] = g]

-----------------------------------------------------------------------------
(* What a caller does to the state of the application.  Nothing in it says *)
(* whose Starting is ended.                                                *)

SetStatus(a, s, v) ==
    /\ status' = s
    /\ vnt' = v
    /\ late' = (late \/ (owner # a /\ <<status, vnt>> # <<s, v>>))
    /\ UNCHANGED owner

stopped(a) == SetStatus(a, "Stopped", None)

\* Mutant: whatever the status is.
any_to_stopped(a) == SetStatus(a, "Stopped", None)

starting_to_stopped(a) ==
    IF status = "Starting" THEN SetStatus(a, "Stopped", None)
                           ELSE UNCHANGED app

starting_to_running(a) ==
    IF status = "Starting" THEN SetStatus(a, "Running", vnt)
                           ELSE UNCHANGED app

\* Unlike the others it leaves vnt.
record_log_and_stopped(a) ==
    IF status = "Starting" THEN SetStatus(a, "Stopped", vnt)
                           ELSE UNCHANGED app

\* TaskGroupManager.stop
StopManager ==
    groups' = [a \in Attempts |-> IF a = manager THEN Stop(groups[a])
                                                 ELSE groups[a]]

\* The drop of NetworkManager stops its group, the drop of TaskGroupGuard
\* takes what the manager holds, whatever it is, and stops it.
DropGuard(a) ==
    /\ groups' = [b \in Attempts |-> IF b \in {a, manager}
                                     THEN Stop(groups[b]) ELSE groups[b]]
    /\ manager' = None

-----------------------------------------------------------------------------
(* A start.                                                                *)

\* POST /api/start, and the start of the program with a recorded config.
StartRequest(a) ==
    /\ pc[a] = "idle"
    /\ Goto(a, "starting")
    /\ UNCHANGED <<app, manager, groups, waiter, stopping>>

\* POST /api/restart
RestartRequest(a) ==
    /\ pc[a] = "idle"
    /\ Goto(a, IF status = "Stopped" THEN "starting" ELSE "halting")
    /\ UNCHANGED <<app, manager, groups, waiter, stopping>>

Halt(a) ==
    /\ pc[a] = "halting"
    /\ StopManager
    /\ Goto(a, "polling")
    /\ UNCHANGED <<app, manager, waiter, stopping>>

\* 50 looks at the status, 100 ms apart.  When it is not Stopped then, starting
\* refuses.
Poll(a) ==
    /\ pc[a] = "polling"
    /\ Goto(a, "starting")
    /\ UNCHANGED <<app, manager, groups, waiter, stopping>>

Starting(a) ==
    /\ pc[a] = "starting"
    /\ IF status = "Stopped" /\ vnt = None
       THEN /\ status' = "Starting"
            /\ owner' = a
            /\ Goto(a, "reading")
            /\ UNCHANGED <<vnt, late>>
       ELSE Goto(a, "over") /\ UNCHANGED app
    /\ UNCHANGED <<manager, groups, waiter, stopping>>

\* The config is read and parsed, then create_task refuses while the manager
\* holds a group.
Read(a) ==
    /\ pc[a] = "reading"
    /\ IF manager = None
       THEN /\ manager' = a
            /\ Update(a, NewGroup)
            /\ Goto(a, "creating")
       ELSE Goto(a, "ending") /\ UNCHANGED <<manager, groups>>
    /\ UNCHANGED <<app, waiter, stopping>>

\* Mutant: the guard is made once the config is read.
ReadFailsUnguarded(a) ==
    /\ pc[a] = "reading"
    /\ Goto(a, "over")
    /\ UNCHANGED <<app, manager, groups, waiter, stopping>>

\* No such file, no valid config, or the request was cancelled.
ReadFails(a) ==
    /\ pc[a] = "reading"
    /\ Goto(a, "ending")
    /\ UNCHANGED <<app, manager, groups, waiter, stopping>>

CreateNetwork(a) ==
    /\ pc[a] = "creating"
    /\ Update(a, Spawn(groups[a], "worker"))
    /\ Goto(a, "publishing")
    /\ UNCHANGED <<app, manager, waiter, stopping>>

\* Tasks may have been spawned before the error.
CreateNetworkFails(a) ==
    /\ pc[a] = "creating"
    /\ \E g \in {groups[a], Spawn(groups[a], "worker")} : Update(a, g)
    /\ Goto(a, "dropping")
    /\ UNCHANGED <<app, manager, waiter, stopping>>

Publish(a) ==
    /\ pc[a] = "publishing"
    /\ IF vnt = None
       THEN /\ SetStatus(a, status, a)
            /\ Goto(a, "registering")
       ELSE Goto(a, "dropping") /\ UNCHANGED app
    /\ UNCHANGED <<manager, groups, waiter, stopping>>

\* register is not a task of the group: it goes on when the group was stopped,
\* and the connection it made is dropped with the task it could not spawn.
Register(a) ==
    /\ pc[a] = "registering"
    /\ Update(a, Spawn(groups[a], "link"))
    /\ Goto(a, "device")
    /\ UNCHANGED <<app, manager, waiter, stopping>>

StartTun(a) ==
    /\ pc[a] = "device"
    /\ Update(a, Spawn(groups[a], "worker"))
    /\ Goto(a, "announcing")
    /\ UNCHANGED <<app, manager, waiter, stopping>>

\* register, start_tun or set_network_ip returned an error.
BringUpFails(a) ==
    /\ pc[a] \in {"registering", "device"}
    /\ Goto(a, "unwinding")
    /\ UNCHANGED <<app, manager, groups, waiter, stopping>>

Announce(a) ==
    /\ pc[a] = "announcing"
    /\ starting_to_running(a)
    /\ Goto(a, "handing")
    /\ UNCHANGED <<manager, groups, waiter, stopping>>

\* Mutant: a waiter that the group refused keeps the guards.
HandOverUnseen(a) ==
    /\ pc[a] = "handing"
    /\ Update(a, Spawn(groups[a], "waiter"))
    /\ waiter' = [waiter EXCEPT ![a] = "waiting"]
    /\ Goto(a, "recording")
    /\ UNCHANGED <<app, manager, stopping>>

\* The waiter owns the guards.  Refused by a stopped group, it is dropped here.
HandOver(a) ==
    /\ pc[a] = "handing"
    /\ Update(a, Spawn(groups[a], "waiter"))
    /\ IF Accepts(groups[a])
       THEN /\ waiter' = [waiter EXCEPT ![a] = "waiting"]
            /\ Goto(a, "recording")
       ELSE Goto(a, "discarding") /\ UNCHANGED waiter
    /\ UNCHANGED <<app, manager, stopping>>

\* vnt_current_config.txt is written.
Record(a) ==
    /\ pc[a] = "recording"
    /\ Goto(a, "ending")
    /\ UNCHANGED <<app, manager, groups, waiter, stopping>>

-----------------------------------------------------------------------------
(* The guards of a start.  On an error the one that resets the state is    *)
(* dropped before the one of the group, else after it.                     *)

Discard(a) ==
    /\ pc[a] = "discarding"
    /\ DropGuard(a)
    /\ Goto(a, "cleaning")
    /\ UNCHANGED <<app, waiter, stopping>>

Clean(a) ==
    /\ pc[a] = "cleaning"
    /\ stopped(a)
    /\ Goto(a, "recording")
    /\ UNCHANGED <<manager, groups, waiter, stopping>>

Unwind(a) ==
    /\ pc[a] = "unwinding"
    /\ stopped(a)
    /\ Goto(a, "dropping")
    /\ UNCHANGED <<manager, groups, waiter, stopping>>

Drop(a) ==
    /\ pc[a] = "dropping"
    /\ DropGuard(a)
    /\ Goto(a, "erring")
    /\ UNCHANGED <<app, waiter, stopping>>

Err(a) ==
    /\ pc[a] = "erring"
    /\ record_log_and_stopped(a)
    /\ Goto(a, "ending")
    /\ UNCHANGED <<manager, groups, waiter, stopping>>

\* on_error_guard is dropped however the start ended.
End(a) ==
    /\ pc[a] = "ending"
    /\ starting_to_stopped(a)
    /\ Goto(a, "over")
    /\ UNCHANGED <<manager, groups, waiter, stopping>>

-----------------------------------------------------------------------------
(* The tasks of a group, and the requests to stop.                         *)

\* The future of the waiter is dropped, or it saw the group stopped.
WaiterDropsGuard(a) ==
    /\ waiter[a] = "waiting"
    /\ "waiter" \in groups[a].aborted
    /\ DropGuard(a)
    /\ waiter' = [waiter EXCEPT ![a] = "dropped"]
    /\ UNCHANGED <<app, pc, stopping>>

WaiterCleans(a) ==
    /\ waiter[a] = "dropped"
    /\ stopped(a)
    /\ waiter' = [waiter EXCEPT ![a] = "cleaned"]
    /\ UNCHANGED <<manager, groups, pc, stopping>>

TaskDropped(a, t) ==
    /\ t \in groups[a].aborted
    /\ t = "waiter" => waiter[a] = "cleaned"
    /\ Update(a, RemoveTask(groups[a], t))
    /\ UNCHANGED <<app, manager, pc, waiter, stopping>>

\* A listener or a device failed.
WorkerEnds(a) ==
    /\ "worker" \in Running(groups[a])
    /\ Update(a, RemoveTask(groups[a], "worker"))
    /\ UNCHANGED <<app, manager, pc, waiter, stopping>>

\* A server refused the client, or gave it another address: the task stops its
\* group, itself included.
LinkGivesUp(a) ==
    /\ "link" \in Running(groups[a])
    /\ Update(a, Stop(groups[a]))
    /\ UNCHANGED <<app, manager, pc, waiter, stopping>>

\* POST /api/stop
StopRequest(h) ==
    /\ stopping[h] = "idle"
    /\ status # "Stopped"
    /\ stopping' = [stopping EXCEPT ![h] = "checked"]
    /\ UNCHANGED <<app, manager, groups, pc, waiter>>

StopNetwork(h) ==
    /\ stopping[h] = "checked"
    /\ StopManager
    /\ stopping' = [stopping EXCEPT ![h] = "idle"]
    /\ UNCHANGED <<app, manager, pc, waiter>>

\* The slot of an attempt that left nothing behind is used again.
Reuse(a) ==
    /\ pc[a] = "over"
    /\ waiter[a] \in {"none", "cleaned"}
    /\ groups[a].live = {}
    /\ Goto(a, "idle")
    /\ waiter' = [waiter EXCEPT ![a] = "none"]
    /\ Update(a, Stop(NewGroup))
    /\ owner' = IF owner = a THEN None ELSE owner
    /\ UNCHANGED <<status, vnt, late, manager, stopping>>

-----------------------------------------------------------------------------
StartStep(a) ==
    \/ Halt(a) \/ Poll(a) \/ Starting(a) \/ Read(a) \/ ReadFails(a)
    \/ CreateNetwork(a) \/ CreateNetworkFails(a) \/ Publish(a)
    \/ Register(a) \/ StartTun(a) \/ BringUpFails(a) \/ Announce(a)
    \/ HandOver(a) \/ Record(a)
    \/ Discard(a) \/ Clean(a) \/ Unwind(a) \/ Drop(a) \/ Err(a) \/ End(a)

WaiterStep(a) == WaiterDropsGuard(a) \/ WaiterCleans(a)

Next ==
    \/ \E a \in Attempts :
          \/ StartRequest(a) \/ RestartRequest(a) \/ StartStep(a)
          \/ WaiterStep(a) \/ (\E t \in Tasks : TaskDropped(a, t))
          \/ WorkerEnds(a) \/ LinkGivesUp(a) \/ Reuse(a)
    \/ \E h \in Handlers : StopRequest(h) \/ StopNetwork(h)

\* What a start waits for has a timeout (10 s for a connection and for its
\* answer) or is the local disk; the runtime drops every aborted future and
\* runs every handler that was called.
Fairness ==
    /\ \A a \in Attempts :
          /\ WF_vars(StartStep(a))
          /\ WF_vars(WaiterStep(a))
          /\ \A t \in Tasks : WF_vars(TaskDropped(a, t))
    /\ \A h \in Handlers : WF_vars(StopNetwork(h))

Spec == Init /\ [][Next]_vars /\ Fairness

-----------------------------------------------------------------------------
(* Properties.                                                             *)

Up(a) == ~groups[a].stopped
GuardAlive(a) ==
    \/ pc[a] \in {"creating", "publishing", "registering", "device",
                  "announcing", "handing", "discarding", "unwinding",
                  "dropping"}
    \/ waiter[a] = "waiting"

\* However requests to start, restart and stop overlap, one network at most is
\* up (create_task refuses while the manager holds a group, and a group is out
\* of the manager only once it is stopped), and no task goes on in a group
\* that was stopped: none was added after the map was drained.
OneNetwork ==
    /\ \A a, b \in Attempts : Up(a) /\ Up(b) => a = b
    /\ \A a \in Attempts : Running(groups[a]) # {} => Up(a)

\* What the web page shows is what the program does: a network that was handed
\* over to its waiter and not stopped is Running and can be stopped.  Except
\* when a start that had failed or ended (record_log_and_stopped and
\* on_error_guard, service_http.rs:522 and :524) ran on over a newer one: then
\* the newer network is up for good under the status Stopped.
StatusIsHonest ==
    late \/ \A a \in Attempts :
                waiter[a] = "waiting" /\ Up(a) => status = "Running" /\ vnt = a

\* A start ends, in a network that is up or in the status Stopped: the status
\* is never Starting for good, which would refuse every later start.
StartEnds == (status = "Starting") ~> (status # "Starting")

\* A group that was stopped, at whatever step of its start and by whomever,
\* is out of the manager and of the state, and its last task is dropped: the
\* next start finds nothing of it.
StoppedIsForgotten ==
    \A a \in Attempts :
       (pc[a] # "idle" /\ ~Up(a) /\ GuardAlive(a))
          ~> (groups[a].live = {} /\ manager # a /\ vnt # a)
=============================================================================
