-------------------------- MODULE OrchestrationBoard --------------------------
(***************************************************************************)
(* The refinement mapping from the orchestration subsystem to the task     *)
(* board.  A task's stage is its status, its worker the assignee of its    *)
(* active dispatch, its failures the largest count a dispatch of it has.   *)
(***************************************************************************)
EXTENDS Orchestration

StageName == [none |-> "none", pending |-> "waiting", ready |-> "open",
              dispatched |-> "taken", completed |-> "done", failed |-> "dropped",
              blocked |-> "blocked"]

HoldersOf(t) == {db.disp[d].handle : d \in DispatchesOf(db, t) \cap ActiveDispatches(db)}

\* A failure reported after the breaker has tripped is still written, and no
\* longer counts.
FailuresOf(t) ==
    LET counts == {0} \cup {db.disp[d].failures : d \in DispatchesOf(db, t)}
        most   == CHOOSE n \in counts : \A k \in counts : k <= n
    IN  IF most > 3 THEN 3 ELSE most

\* The board's tables.
StageOfTasks    == [t \in TaskIds |-> StageName[db.task[t].status]]
DepsOfTasks     == [t \in TaskIds |-> db.task[t].deps]
HoldersOfTasks  == [t \in TaskIds |-> HoldersOf(t)]
FailuresOfTasks == [t \in TaskIds |-> FailuresOf(t)]

Board == INSTANCE TaskBoard WITH
             Tasks <- TaskIds, Workers <- Handles, Strikes <- 3,
             stage <- StageOfTasks, deps <- DepsOfTasks,
             by <- HoldersOfTasks, failures <- FailuresOfTasks

\* The database, the loop, the agents' mail and their exits together do to the
\* tasks nothing but what the board allows: a task is taken once its dependencies
\* are done, by one idle worker at a time; every failure counts, survives the
\* retry (createDispatchContext carries it over) and the third drops the task;
\* done and dropped are for good.  This is for callers that leave gates, status
\* overrides, resets and dispatch calls alone.
ImplementsBoard == Board!Spec
=============================================================================
