-------------------------- MODULE OrchestrationDb --------------------------
(***************************************************************************)
(* The orchestration database of the Orca runtime                          *)
(* (src/src/main/runtime/orchestration/db.ts) and the reconciliation of    *)
(* lifecycle messages (lifecycle-reconciliation.ts).                       *)
(*                                                                         *)
(* The SQLite tables are the fields of one record, db.  Every method of    *)
(* the class OrchestrationDb that writes is an operator that takes the     *)
(* database and returns the new one, so that a handler which calls several *)
(* methods is their composition.  "The row with the largest rowid" is      *)
(* written as a predicate on ids rather than with CHOOSE.                  *)
(*                                                                         *)
(* A row id is a number that is never handed out again (the code draws     *)
(* random ids); the n* fields count the ids handed out so far.  Ids grow   *)
(* with rowid, so ORDER BY rowid is the order of the ids.                  *)
(***************************************************************************)
EXTENDS Integers, FiniteSets

CONSTANTS
    MaxTasks,       \* bounds on the rows ever inserted into each table
    MaxDispatches,
    MaxMessages,
    MaxGates,
    MaxRuns,
    Handles,        \* terminal handles
    Panes,          \* pane keys
    NoPane,         \* a NULL pane key
    LeafOf,         \* the leaf id a pane key parses to, or NoLeaf
    NoLeaf          \* a legacy pane key that does not parse

ASSUME BoundsAssumption ==
    /\ MaxTasks \in Nat /\ MaxDispatches \in Nat /\ MaxMessages \in Nat
    /\ MaxGates \in Nat /\ MaxRuns \in Nat

ASSUME PaneAssumption == NoPane \notin Panes

TaskIds == 1..MaxTasks
DispatchIds == 1..MaxDispatches
MessageIds == 1..MaxMessages
GateIds == 1..MaxGates
RunIds == 1..MaxRuns

\* The status "none" marks an id whose row does not exist (yet, or any more).
TaskStatuses == {"pending", "ready", "dispatched", "completed", "failed", "blocked"}
ActiveStatuses == {"pending", "dispatched"}
DispatchStatuses == ActiveStatuses \cup {"completed", "failed", "circuit_broken"}
GateStatuses == {"pending", "resolved", "timeout"}
RunStatuses == {"running", "completed", "failed"}
MessageTypes == {"worker_done", "heartbeat", "escalation", "decision_gate", "status"}

(***************************************************************************)
(* Rows.  A task's result is the message whose handling wrote the result   *)
(* column (0: none).  A dispatch's beat is the heartbeat message that last *)
(* refreshed last_heartbeat_at.  A message's task and disp are the ids in  *)
(* its payload (0: absent), rejected the persisted rejection marker; the   *)
(* content of a deleted message stays, with stored FALSE, for the          *)
(* properties to refer to.  All messages are addressed to the coordinator. *)
(***************************************************************************)
TaskRow == [status : TaskStatuses \cup {"none"}, deps : SUBSET TaskIds,
            result : {0} \cup MessageIds]
DispatchRow == [status : DispatchStatuses \cup {"none"}, task : {0} \cup TaskIds,
                handle : Handles, pane : Panes \cup {NoPane}, failures : Nat,
                beat : {0} \cup MessageIds]
GateRow == [status : GateStatuses \cup {"none"}, task : {0} \cup TaskIds]
MessageRow == [stored : BOOLEAN, from : Handles, pane : Panes \cup {NoPane},
               type : MessageTypes, task : {0} \cup TaskIds,
               disp : {0} \cup DispatchIds, read : BOOLEAN, rejected : BOOLEAN]

Database == [task : [TaskIds -> TaskRow], disp : [DispatchIds -> DispatchRow],
             gate : [GateIds -> GateRow], msg : [MessageIds -> MessageRow],
             run : [RunIds -> RunStatuses \cup {"none"}],
             nTask : 0..MaxTasks, nDisp : 0..MaxDispatches, nGate : 0..MaxGates,
             nMsg : 0..MaxMessages, nRun : 0..MaxRuns]

AnyHandle == CHOOSE h \in Handles : TRUE

EmptyDb ==
    [task |-> [t \in TaskIds |-> [status |-> "none", deps |-> {}, result |-> 0]],
     disp |-> [d \in DispatchIds |->
                 [status |-> "none", task |-> 0, handle |-> AnyHandle, pane |-> NoPane,
                  failures |-> 0, beat |-> 0]],
     gate |-> [g \in GateIds |-> [status |-> "none", task |-> 0]],
     msg |-> [m \in MessageIds |->
                 [stored |-> FALSE, from |-> AnyHandle, pane |-> NoPane, type |-> "status",
                  task |-> 0, disp |-> 0, read |-> FALSE, rejected |-> FALSE]],
     run |-> [r \in RunIds |-> "none"],
     nTask |-> 0, nDisp |-> 0, nGate |-> 0, nMsg |-> 0, nRun |-> 0]

-----------------------------------------------------------------------------
(* Queries.                                                                *)

TaskExists(db, t) == t \in TaskIds /\ db.task[t].status # "none"

DispatchesOf(db, t) == {d \in DispatchIds : db.disp[d].status # "none" /\ db.disp[d].task = t}

ActiveDispatches(db) == {d \in DispatchIds : db.disp[d].status \in ActiveStatuses}

\* getDispatchContext: the newest dispatch of a task, whatever its status.
IsLatestDispatch(db, t, d) ==
    d \in DispatchesOf(db, t) /\ \A e \in DispatchesOf(db, t) : e <= d

\* The newest active dispatch of a task.
IsLatestActiveDispatch(db, t, d) ==
    LET active == DispatchesOf(db, t) \cap ActiveDispatches(db)
    IN  d \in active /\ \A e \in active : e <= d

\* The leaf id survives a pane's move to another tab; a key that does not
\* parse is only equivalent to itself.
isEquivalentPaneKey(a, b) == a = b \/ (LeafOf[a] # NoLeaf /\ LeafOf[a] = LeafOf[b])

\* Mutant: the lock looks at the handle only.
LocksAssignee_HandleOnly(db, d, handle, pane) ==
    d \in ActiveDispatches(db) /\ db.disp[d].handle = handle

\* A dispatch that locks the assignee: by handle, else by pane.
LocksAssignee(db, d, handle, pane) ==
    /\ d \in ActiveDispatches(db)
    /\ \/ db.disp[d].handle = handle
       \/ /\ pane # NoPane
          /\ db.disp[d].pane # NoPane
          /\ isEquivalentPaneKey(db.disp[d].pane, pane)

TasksIn(db, status) == {t \in TaskIds : db.task[t].status = status}

UnreadMessages(db) == {m \in MessageIds : db.msg[m].stored /\ ~db.msg[m].read}

HasActiveRun(db) == \E r \in RunIds : db.run[r] = "running"

\* Mutant: a task that does not exist counts as unfinished.
AllTasksDone_CountsMissing(db) ==
    \A t \in TaskIds : db.task[t].status \in {"completed", "failed"}

\* counts.total = counts.completed + counts.failed
AllTasksDone(db) ==
    \A t \in TaskIds : db.task[t].status \in {"none", "completed", "failed"}

-----------------------------------------------------------------------------
(* Messages.                                                               *)

insertMessage(db, row) ==
    [db EXCEPT !.msg[db.nMsg + 1] = row, !.nMsg = @ + 1]

markAsRead(db, ids) ==
    [db EXCEPT !.msg = [m \in MessageIds |->
        IF m \in ids /\ db.msg[m].stored THEN [db.msg[m] EXCEPT !.read = TRUE] ELSE db.msg[m]]]

convertLifecycleMessageToRejection(db, m) == [db EXCEPT !.msg[m].rejected = TRUE]

-----------------------------------------------------------------------------
(* Tasks.                                                                  *)

\* A task with dependencies starts out pending even if they are completed.
createTask(db, deps) ==
    [db EXCEPT !.task[db.nTask + 1] =
                  [status |-> IF deps = {} THEN "ready" ELSE "pending",
                   deps |-> deps, result |-> 0],
               !.nTask = @ + 1]

\* Mutant: one completed dependency is enough.
promoteReadyTasks_AnyDep(db, completed) ==
    [db EXCEPT !.task = [t \in TaskIds |->
        IF db.task[t].status = "pending" /\ completed \in db.task[t].deps
        THEN [db.task[t] EXCEPT !.status = "ready"]
        ELSE db.task[t]]]

promoteReadyTasks(db, completed) ==
    [db EXCEPT !.task = [t \in TaskIds |->
        IF /\ db.task[t].status = "pending"
           /\ completed \in db.task[t].deps
           /\ \A d \in db.task[t].deps : db.task[d].status = "completed"
        THEN [db.task[t] EXCEPT !.status = "ready"]
        ELSE db.task[t]]]

completeActiveDispatchForTask(db, t) ==
    [db EXCEPT !.disp = [d \in DispatchIds |->
        IF IsLatestActiveDispatch(db, t, d)
        THEN [db.disp[d] EXCEPT !.status = "completed"]
        ELSE db.disp[d]]]

\* result = 0: no result given, the column keeps its value (COALESCE).
updateTaskStatus(db, t, status, result) ==
    LET updated == [db EXCEPT !.task[t].status = status,
                              !.task[t].result = IF result = 0 THEN @ ELSE result]
    IN  IF status = "completed"
        THEN completeActiveDispatchForTask(promoteReadyTasks(updated, t), t)
        ELSE updated

-----------------------------------------------------------------------------
(* Dispatch contexts.                                                      *)

\* The conditions under which createDispatchContext does not throw.
CanDispatch(db, t, handle, pane) ==
    /\ TaskExists(db, t)
    /\ db.task[t].status = "ready"
    /\ ~\E d \in DispatchIds : LocksAssignee(db, d, handle, pane)

\* Mutant: a retry starts from zero.
IsPriorFailures_Fresh(db, t, n) == n = 0

\* SELECT MAX(failure_count): the count a retry of the task starts from.
IsPriorFailures(db, t, n) ==
    /\ n = 0 \/ \E d \in DispatchesOf(db, t) : db.disp[d].failures = n
    /\ \A d \in DispatchesOf(db, t) : db.disp[d].failures <= n

FailureCounts(db) == {0} \cup {db.disp[d].failures : d \in DispatchIds}

createDispatchContext(db, t, handle, pane, prior) ==
    [db EXCEPT !.disp[db.nDisp + 1] =
                  [status |-> "dispatched", task |-> t, handle |-> handle, pane |-> pane,
                   failures |-> prior, beat |-> 0],
               !.nDisp = @ + 1,
               !.task[t].status = "dispatched"]

\* Mutant: the dispatch row keeps its status.
failDispatch_RowStaysActive(db, d) ==
    [db EXCEPT !.disp[d].failures = @ + 1, !.task[db.disp[d].task].status = "ready"]

\* Mutant: the task is not given back.
failDispatch_TaskStays(db, d) ==
    [db EXCEPT !.disp[d].failures = @ + 1, !.disp[d].status = "failed"]

\* Mutant: the breaker trips but the task is offered again.
failDispatch_AlwaysRetries(db, d) ==
    [db EXCEPT !.disp[d].status = IF @ = "none" THEN @
                                  ELSE IF db.disp[d].failures >= 2 THEN "circuit_broken"
                                  ELSE "failed",
               !.disp[d].failures = @ + 1,
               !.task[db.disp[d].task].status = "ready"]

\* Dispatch d is failed whatever its status is by now.
failDispatch(db, d) ==
    LET row   == db.disp[d]
        trips == row.failures + 1 >= 3
    IN  IF row.status = "none" THEN db
        ELSE [db EXCEPT !.disp[d] = [row EXCEPT
                            !.status = IF trips THEN "circuit_broken" ELSE "failed",
                            !.failures = @ + 1],
                        !.task[row.task].status =
                            IF @ = "none" THEN @ ELSE IF trips THEN "failed" ELSE "ready"]

recordHeartbeat(db, d, m) ==
    IF db.disp[d].status = "dispatched" THEN [db EXCEPT !.disp[d].beat = m] ELSE db

-----------------------------------------------------------------------------
(* Decision gates.                                                         *)

SetTaskStatus(db, t, status) ==
    IF TaskExists(db, t) THEN [db EXCEPT !.task[t].status = status] ELSE db

createGate(db, t) ==
    SetTaskStatus(
        completeActiveDispatchForTask(
            [db EXCEPT !.gate[db.nGate + 1] = [status |-> "pending", task |-> t],
                       !.nGate = @ + 1], t),
        t, "blocked")

\* Neither the gate's nor the task's status is looked at.
resolveGate(db, g) ==
    SetTaskStatus([db EXCEPT !.gate[g].status = "resolved"], db.gate[g].task, "ready")

HasPendingGate(db, t) == \E g \in GateIds : db.gate[g].status = "pending" /\ db.gate[g].task = t

\* Mutant: gated tasks are not put back to blocked.
restorePendingGateTaskStatuses_Skipped(db) == db

restorePendingGateTaskStatuses(db) ==
    [db EXCEPT !.task = [t \in TaskIds |->
        IF TaskExists(db, t) /\ HasPendingGate(db, t)
        THEN [db.task[t] EXCEPT !.status = "blocked"]
        ELSE db.task[t]]]

-----------------------------------------------------------------------------
(* Coordinator runs and resets.                                            *)

createCoordinatorRun(db) == [db EXCEPT !.run[db.nRun + 1] = "running", !.nRun = @ + 1]

\* Mutant: an early end is stored under a status the schema does not have.
updateCoordinatorRun_Stopped(db, r, status) ==
    [db EXCEPT !.run[r] = IF status = "failed" THEN "stopped" ELSE status]

updateCoordinatorRun(db, r, status) ==
    [db EXCEPT !.run[r] = IF @ = "none" THEN @ ELSE status]

resetTasks(db) ==
    [db EXCEPT !.run = EmptyDb.run, !.gate = EmptyDb.gate,
               !.disp = EmptyDb.disp, !.task = EmptyDb.task]

resetMessages(db) ==
    [db EXCEPT !.msg = [m \in MessageIds |-> [db.msg[m] EXCEPT !.stored = FALSE]]]

resetAll(db) == resetMessages(resetTasks(db))

-----------------------------------------------------------------------------
(* Lifecycle reconciliation.                                               *)

hasLifecycleAuthority(row, msg) ==
    IF row.pane # NoPane
    THEN msg.pane # NoPane /\ isEquivalentPaneKey(row.pane, msg.pane)
    ELSE row.handle = msg.from

\* Mutant: completion leaves the heartbeats unread.
suppressEarlierHeartbeats_Skipped(db, m) == db

\* Earlier unread heartbeats of a dispatch that a worker_done completed.
suppressEarlierHeartbeats(db, m) ==
    markAsRead(db, {k \in UnreadMessages(db) :
                      /\ k < m
                      /\ db.msg[k].type = "heartbeat"
                      /\ db.msg[k].disp = db.msg[m].disp})

DispatchExists(db, d) == d \in DispatchIds /\ db.disp[d].status # "none"

reconcileHeartbeatMessage(db, m) ==
    LET msg == db.msg[m]
    IN  IF msg.rejected \/ msg.disp = 0 THEN db
        ELSE IF db.disp[msg.disp].status # "dispatched" THEN markAsRead(db, {m})
        ELSE IF hasLifecycleAuthority(db.disp[msg.disp], msg)
             THEN recordHeartbeat(db, msg.disp, m)
             ELSE convertLifecycleMessageToRejection(db, m)

\* The message names an existing task and one of its dispatches.
NamesDispatchOfTask(db, msg) ==
    /\ TaskExists(db, msg.task)
    /\ DispatchExists(db, msg.disp)
    /\ db.disp[msg.disp].task = msg.task

\* The dispatch is the task's newest, and both are still running.
IsCurrentDispatch(db, t, d) ==
    /\ db.disp[d].status = "dispatched"
    /\ IsLatestDispatch(db, t, d)
    /\ db.task[t].status = "dispatched"

\* Mutant: knowing the ids is authority enough.
reconcileWorkerDoneMessage_AnySender(db, m) ==
    LET msg == db.msg[m]
    IN  IF NamesDispatchOfTask(db, msg) /\ IsCurrentDispatch(db, msg.task, msg.disp)
        THEN updateTaskStatus(db, msg.task, "completed", m)
        ELSE db

reconcileWorkerDoneMessage(db, m) ==
    LET msg == db.msg[m]
    IN  IF msg.rejected \/ ~NamesDispatchOfTask(db, msg) THEN db
        ELSE IF ~hasLifecycleAuthority(db.disp[msg.disp], msg)
             THEN convertLifecycleMessageToRejection(db, m)
             ELSE IF IsCurrentDispatch(db, msg.task, msg.disp)
                  THEN suppressEarlierHeartbeats(
                          updateTaskStatus(db, msg.task, "completed", m), m)
                  ELSE db

reconcileLifecycleMessage(db, m) ==
    CASE db.msg[m].type = "worker_done" -> reconcileWorkerDoneMessage(db, m)
      [] db.msg[m].type = "heartbeat"   -> reconcileHeartbeatMessage(db, m)
      [] OTHER                          -> db
=============================================================================
