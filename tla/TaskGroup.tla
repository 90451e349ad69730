----------------------------- MODULE TaskGroup -----------------------------
(***************************************************************************)
(* A group of tasks (utils/task_control.rs) as a record:                   *)
(*   stopped, tasks   TaskGroupState, what the lock of the group protects; *)
(*   live             the tasks whose future has not been dropped yet, so  *)
(*                    whose TaskGuard is still to run;                     *)
(*   aborted          those of them that run no further step of their own. *)
(* Every operation holds the lock throughout, so each is one step.  abort  *)
(* only marks the task: the runtime drops its future later.                *)
(***************************************************************************)
TaskGroups(Tasks) ==
    [stopped : BOOLEAN, tasks : SUBSET Tasks, live : SUBSET Tasks,
     aborted : SUBSET Tasks]

NewGroup == [stopped |-> FALSE, tasks |-> {}, live |-> {}, aborted |-> {}]

\* Mutant: spawn does not look whether the group stopped.
AcceptsAlways(g) == TRUE

\* A group that stopped takes no task: the caller gets an empty SubTask and is
\* not told.
Accepts(g) == ~g.stopped

Spawn(g, t) ==
    IF Accepts(g)
    THEN [g EXCEPT !.tasks = @ \cup {t}, !.live = @ \cup {t}]
    ELSE g

\* Mutant: the map is gone through, not drained.
StopKeepsMap(g) ==
    [g EXCEPT !.stopped = TRUE, !.aborted = @ \cup g.tasks]

\* The map is drained: the group counts as ended while its tasks are dropped.
Stop(g) ==
    [g EXCEPT !.stopped = TRUE, !.tasks = {}, !.aborted = @ \cup g.tasks]

\* TaskGuard of a task that ended or whose future was dropped.  The group ends
\* with the last task of the map, also when more were still to be spawned.
RemoveTask(g, t) ==
    [g EXCEPT !.tasks = @ \ {t}, !.live = @ \ {t}, !.aborted = @ \ {t},
              !.stopped = @ \/ g.tasks \subseteq {t}]

Running(g) == g.live \ g.aborted
=============================================================================
