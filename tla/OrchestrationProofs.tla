------------------------ MODULE OrchestrationProofs ------------------------
(***************************************************************************)
(* Proofs about Orchestration, for every value of its constants: the type  *)
(* invariant, the dispatch lock, and that a dispatched task has a running  *)
(* newest dispatch.  The first part shows, operator by operator, what a    *)
(* write to the database preserves; the second lifts that to the actions;  *)
(* the third does both for the assignment of tasks.                        *)
(***************************************************************************)
EXTENDS Orchestration, TLAPS, FiniteSetTheorems

(***************************************************************************)
(* Every write but createDispatchContext only releases terminals: a        *)
(* dispatch that is active afterwards was active before, with the same     *)
(* assignee.                                                               *)
(***************************************************************************)
Releases(D, E) ==
    \A d \in DispatchIds : E.disp[d].status \in ActiveStatuses =>
        /\ D.disp[d].status \in ActiveStatuses
        /\ E.disp[d].handle = D.disp[d].handle
        /\ E.disp[d].pane = D.disp[d].pane

\* What a step of the system may do to the database.
Writes(D, E) == E \in Database /\ Releases(D, E)

\* Writes compose.
LEMMA WritesTransitive ==
    ASSUME NEW D, NEW E, NEW F, Writes(D, E), Writes(E, F)
    PROVE  Writes(D, F)
BY DEF Writes, Releases

\* A database that is not touched.
LEMMA WritesNothing ==
    ASSUME NEW D \in Database
    PROVE  Writes(D, D)
BY DEF Writes, Releases

-----------------------------------------------------------------------------
(* Writing one table.                                                      *)

LEMMA SetTasks ==
    ASSUME NEW D \in Database, NEW f \in [TaskIds -> TaskRow]
    PROVE  Writes(D, [D EXCEPT !.task = f])
<1>1. [D EXCEPT !.task = f] \in Database
    BY DEF Database
<1>2. [D EXCEPT !.task = f].disp = D.disp
    BY DEF Database
<1> QED BY <1>1, <1>2 DEF Writes, Releases

LEMMA SetDispatches ==
    ASSUME NEW D \in Database, NEW f \in [DispatchIds -> DispatchRow],
           \A d \in DispatchIds : f[d].status \in ActiveStatuses =>
              /\ D.disp[d].status \in ActiveStatuses
              /\ f[d].handle = D.disp[d].handle
              /\ f[d].pane = D.disp[d].pane
    PROVE  Writes(D, [D EXCEPT !.disp = f])
<1>1. [D EXCEPT !.disp = f] \in Database
    BY DEF Database
<1>2. [D EXCEPT !.disp = f].disp = f
    BY DEF Database
<1> QED BY <1>1, <1>2 DEF Writes, Releases

LEMMA SetGates ==
    ASSUME NEW D \in Database, NEW f \in [GateIds -> GateRow]
    PROVE  Writes(D, [D EXCEPT !.gate = f])
<1>1. [D EXCEPT !.gate = f] \in Database
    BY DEF Database
<1>2. [D EXCEPT !.gate = f].disp = D.disp
    BY DEF Database
<1> QED BY <1>1, <1>2 DEF Writes, Releases

LEMMA SetMessages ==
    ASSUME NEW D \in Database, NEW f \in [MessageIds -> MessageRow]
    PROVE  Writes(D, [D EXCEPT !.msg = f])
<1>1. [D EXCEPT !.msg = f] \in Database
    BY DEF Database
<1>2. [D EXCEPT !.msg = f].disp = D.disp
    BY DEF Database
<1> QED BY <1>1, <1>2 DEF Writes, Releases

LEMMA SetRuns ==
    ASSUME NEW D \in Database, NEW f \in [RunIds -> RunStatuses \cup {"none"}]
    PROVE  Writes(D, [D EXCEPT !.run = f])
<1>1. [D EXCEPT !.run = f] \in Database
    BY DEF Database
<1>2. [D EXCEPT !.run = f].disp = D.disp
    BY DEF Database
<1> QED BY <1>1, <1>2 DEF Writes, Releases

-----------------------------------------------------------------------------
(* Messages.                                                               *)

LEMMA MarkAsReadWrites ==
    ASSUME NEW D \in Database, NEW ids
    PROVE  Writes(D, markAsRead(D, ids))
<1> DEFINE f == [m \in MessageIds |->
        IF m \in ids /\ D.msg[m].stored THEN [D.msg[m] EXCEPT !.read = TRUE] ELSE D.msg[m]]
<1>1. D.msg \in [MessageIds -> MessageRow]
    BY DEF Database
<1>2. \A m \in MessageIds : [D.msg[m] EXCEPT !.read = TRUE] \in MessageRow
    BY <1>1 DEF MessageRow
<1>3. f \in [MessageIds -> MessageRow]
    BY <1>1, <1>2
<1> QED BY <1>3, SetMessages DEF markAsRead

LEMMA InsertMessageWrites ==
    ASSUME NEW D \in Database, D.nMsg < MaxMessages, NEW row \in MessageRow
    PROVE  Writes(D, insertMessage(D, row))
<1> DEFINE n == D.nMsg + 1
           E == [D EXCEPT !.msg = [D.msg EXCEPT ![n] = row]]
<1>1. n \in MessageIds /\ n \in 0..MaxMessages
    BY BoundsAssumption DEF Database, MessageIds
<1>2. [D.msg EXCEPT ![n] = row] \in [MessageIds -> MessageRow]
    BY <1>1 DEF Database
<1>3. Writes(D, E)
    BY <1>2, SetMessages
<1>4. insertMessage(D, row) = [E EXCEPT !.nMsg = n]
    BY DEF insertMessage, Database
<1>5. [E EXCEPT !.nMsg = n] \in Database /\ [E EXCEPT !.nMsg = n].disp = E.disp
    BY <1>1, <1>3 DEF Database, Writes
<1> QED BY <1>3, <1>4, <1>5 DEF Writes, Releases

LEMMA RejectionWrites ==
    ASSUME NEW D \in Database, NEW m \in MessageIds
    PROVE  Writes(D, convertLifecycleMessageToRejection(D, m))
<1> DEFINE f == [D.msg EXCEPT ![m] = [D.msg[m] EXCEPT !.rejected = TRUE]]
<1>1. D.msg \in [MessageIds -> MessageRow]
    BY DEF Database
<1>2. [D.msg[m] EXCEPT !.rejected = TRUE] \in MessageRow
    BY <1>1 DEF MessageRow
<1>3. f \in [MessageIds -> MessageRow]
    BY <1>1, <1>2
<1>4. convertLifecycleMessageToRejection(D, m) = [D EXCEPT !.msg = f]
    BY DEF convertLifecycleMessageToRejection
<1> QED BY <1>3, <1>4, SetMessages

-----------------------------------------------------------------------------
(* Tasks.                                                                  *)

LEMMA TaskRowUpdate ==
    ASSUME NEW row \in TaskRow, NEW s \in TaskStatuses, NEW m \in {0} \cup MessageIds
    PROVE  /\ [row EXCEPT !.status = s] \in TaskRow
           /\ [row EXCEPT !.status = s, !.result = m] \in TaskRow
BY DEF TaskRow

LEMMA CreateTaskWrites ==
    ASSUME NEW D \in Database, D.nTask < MaxTasks, NEW deps \in SUBSET TaskIds
    PROVE  Writes(D, createTask(D, deps))
<1> DEFINE n == D.nTask + 1
           row == [status |-> IF deps = {} THEN "ready" ELSE "pending",
                   deps |-> deps, result |-> 0]
           E == [D EXCEPT !.task = [D.task EXCEPT ![n] = row]]
<1>1. n \in TaskIds /\ n \in 0..MaxTasks
    BY BoundsAssumption DEF Database, TaskIds
<1>2. row \in TaskRow
    BY DEF TaskRow, TaskStatuses
<1>3. [D.task EXCEPT ![n] = row] \in [TaskIds -> TaskRow]
    BY <1>1, <1>2 DEF Database
<1>4. Writes(D, E)
    BY <1>3, SetTasks
<1>5. createTask(D, deps) = [E EXCEPT !.nTask = n]
    BY DEF createTask, Database
<1>6. [E EXCEPT !.nTask = n] \in Database /\ [E EXCEPT !.nTask = n].disp = E.disp
    BY <1>1, <1>4 DEF Database, Writes
<1> QED BY <1>4, <1>5, <1>6 DEF Writes, Releases

LEMMA PromoteWrites ==
    ASSUME NEW D \in Database, NEW t
    PROVE  Writes(D, promoteReadyTasks(D, t))
<1> DEFINE f == [u \in TaskIds |->
        IF /\ D.task[u].status = "pending"
           /\ t \in D.task[u].deps
           /\ \A d \in D.task[u].deps : D.task[d].status = "completed"
        THEN [D.task[u] EXCEPT !.status = "ready"]
        ELSE D.task[u]]
<1>1. D.task \in [TaskIds -> TaskRow]
    BY DEF Database
<1>2. \A u \in TaskIds : [D.task[u] EXCEPT !.status = "ready"] \in TaskRow
    BY <1>1, TaskRowUpdate DEF TaskStatuses
<1>3. f \in [TaskIds -> TaskRow]
    BY <1>1, <1>2
<1> QED BY <1>3, SetTasks DEF promoteReadyTasks

LEMMA CompleteActiveWrites ==
    ASSUME NEW D \in Database, NEW t
    PROVE  Writes(D, completeActiveDispatchForTask(D, t))
<1> DEFINE f == [d \in DispatchIds |->
        IF IsLatestActiveDispatch(D, t, d)
        THEN [D.disp[d] EXCEPT !.status = "completed"]
        ELSE D.disp[d]]
<1>1. D.disp \in [DispatchIds -> DispatchRow]
    BY DEF Database
<1>2. \A d \in DispatchIds : /\ [D.disp[d] EXCEPT !.status = "completed"] \in DispatchRow
                             /\ [D.disp[d] EXCEPT !.status = "completed"].status = "completed"
    BY <1>1 DEF DispatchRow, DispatchStatuses
<1>3. f \in [DispatchIds -> DispatchRow]
    BY <1>1, <1>2
<1>4. \A d \in DispatchIds : f[d].status \in ActiveStatuses => f[d] = D.disp[d]
    BY <1>2 DEF ActiveStatuses
<1>5. Writes(D, [D EXCEPT !.disp = f])
    BY <1>3, <1>4, SetDispatches
<1> QED BY <1>5 DEF completeActiveDispatchForTask

LEMMA UpdateTaskStatusWrites ==
    ASSUME NEW D \in Database, NEW t \in TaskIds, NEW s \in TaskStatuses,
           NEW m \in {0} \cup MessageIds
    PROVE  Writes(D, updateTaskStatus(D, t, s, m))
<1> DEFINE r == IF m = 0 THEN D.task[t].result ELSE m
           E == [D EXCEPT !.task = [D.task EXCEPT ![t] =
                    [D.task[t] EXCEPT !.status = s, !.result = r]]]
           U == [D EXCEPT !.task[t].status = s,
                          !.task[t].result = IF m = 0 THEN @ ELSE m]
<1>1. D.task \in [TaskIds -> TaskRow]
    BY DEF Database
<1>2. r \in {0} \cup MessageIds
    BY <1>1 DEF TaskRow
<1>3. [D.task[t] EXCEPT !.status = s, !.result = r] \in TaskRow
    BY <1>1, <1>2, TaskRowUpdate
<1>4. Writes(D, E)
    BY <1>1, <1>3, SetTasks
<1>5. U = E
    BY <1>1 DEF Database, TaskRow
<1>6. Writes(D, U)
    BY <1>4, <1>5
<1>7. Writes(U, completeActiveDispatchForTask(promoteReadyTasks(U, t), t))
  <2> HIDE DEF U
  <2>1. Writes(U, promoteReadyTasks(U, t))
      BY <1>6, PromoteWrites DEF Writes
  <2>2. Writes(promoteReadyTasks(U, t), completeActiveDispatchForTask(promoteReadyTasks(U, t), t))
      BY <2>1, CompleteActiveWrites DEF Writes
  <2> QED BY <2>1, <2>2, WritesTransitive
<1>8. Writes(D, completeActiveDispatchForTask(promoteReadyTasks(U, t), t))
    BY <1>6, <1>7, WritesTransitive
<1> QED BY <1>6, <1>8 DEF updateTaskStatus

\* The plain UPDATE of a task's status, whether or not the row exists.
LEMMA SetOneTaskWrites ==
    ASSUME NEW D \in Database, NEW t, NEW s \in TaskStatuses \cup {"none"}
    PROVE  Writes(D, [D EXCEPT !.task[t].status = s])
<1>1. D.task \in [TaskIds -> TaskRow]
    BY DEF Database
<1>2. CASE t \in TaskIds
  <2>1. [D.task[t] EXCEPT !.status = s] \in TaskRow
      BY <1>1, <1>2 DEF TaskRow
  <2>2. [D.task EXCEPT ![t] = [D.task[t] EXCEPT !.status = s]] \in [TaskIds -> TaskRow]
      BY <1>1, <2>1
  <2> QED BY <2>2, SetTasks
<1>3. CASE t \notin TaskIds
  <2>1. [D.task EXCEPT ![t] = [D.task[t] EXCEPT !.status = s]] \in [TaskIds -> TaskRow]
      BY <1>1, <1>3
  <2> QED BY <2>1, SetTasks
<1> QED BY <1>2, <1>3

-----------------------------------------------------------------------------
(* Dispatch contexts.                                                      *)

LEMMA FailDispatchWrites ==
    ASSUME NEW D \in Database, NEW d
    PROVE  Writes(D, failDispatch(D, d))
<1> DEFINE row == D.disp[d]
           trips == row.failures + 1 >= 3
           s == IF trips THEN "circuit_broken" ELSE "failed"
           u == IF D.task[row.task].status = "none" THEN "none"
                ELSE IF trips THEN "failed" ELSE "ready"
           newRow == [row EXCEPT !.status = s, !.failures = row.failures + 1]
           f == [D.disp EXCEPT ![d] = newRow]
           E == [D EXCEPT !.disp = f]
<1>1. D.disp \in [DispatchIds -> DispatchRow]
    BY DEF Database
<1>2. ASSUME d \in DispatchIds
      PROVE  newRow \in DispatchRow /\ newRow.status = s
  <2>1. row \in DispatchRow
      BY <1>1, <1>2
  <2>2. s \in DispatchStatuses
      BY DEF DispatchStatuses
  <2>3. row.failures + 1 \in Nat
      BY <2>1 DEF DispatchRow
  <2> HIDE DEF s, row
  <2> QED BY <2>1, <2>2, <2>3 DEF DispatchRow
<1>3. f \in [DispatchIds -> DispatchRow]
    BY <1>1, <1>2
<1>4. \A e \in DispatchIds : f[e].status \in ActiveStatuses => f[e] = D.disp[e]
    BY <1>1, <1>2 DEF ActiveStatuses
<1>5. Writes(D, E)
  <2> HIDE DEF f
  <2> QED BY <1>3, <1>4, SetDispatches
<1>6. Writes(E, [E EXCEPT !.task[row.task].status = u])
  <2>1. u \in TaskStatuses \cup {"none"}
      BY DEF TaskStatuses
  <2>2. E \in Database
      BY <1>5 DEF Writes
  <2> HIDE DEF E, u
  <2> QED BY <2>1, <2>2, SetOneTaskWrites
<1>7. Writes(D, [E EXCEPT !.task[row.task].status = u])
    BY <1>5, <1>6, WritesTransitive
<1>8. CASE row.status = "none"
    BY <1>8, WritesNothing DEF failDispatch
<1>9. CASE row.status # "none"
  <2>1. failDispatch(D, d) = [E EXCEPT !.task[row.task].status = u]
      BY <1>9 DEF failDispatch, Database
  <2> QED BY <1>7, <2>1
<1> QED BY <1>8, <1>9

LEMMA RecordHeartbeatWrites ==
    ASSUME NEW D \in Database, NEW d \in DispatchIds, NEW m \in MessageIds
    PROVE  Writes(D, recordHeartbeat(D, d, m))
<1> DEFINE f == [D.disp EXCEPT ![d] = [D.disp[d] EXCEPT !.beat = m]]
<1>1. D.disp \in [DispatchIds -> DispatchRow]
    BY DEF Database
<1>2. /\ [D.disp[d] EXCEPT !.beat = m] \in DispatchRow
      /\ [D.disp[d] EXCEPT !.beat = m].status = D.disp[d].status
      /\ [D.disp[d] EXCEPT !.beat = m].handle = D.disp[d].handle
      /\ [D.disp[d] EXCEPT !.beat = m].pane = D.disp[d].pane
    BY <1>1 DEF DispatchRow
<1>3. f \in [DispatchIds -> DispatchRow]
    BY <1>1, <1>2
<1>4. \A e \in DispatchIds : /\ f[e].status = D.disp[e].status
                             /\ f[e].handle = D.disp[e].handle
                             /\ f[e].pane = D.disp[e].pane
    BY <1>1, <1>2
<1>5. Writes(D, [D EXCEPT !.disp = f])
  <2> HIDE DEF f
  <2> QED BY <1>3, <1>4, SetDispatches
<1> QED BY <1>5, WritesNothing DEF recordHeartbeat

-----------------------------------------------------------------------------
(* Gates, runs and resets.                                                 *)

LEMMA SetTaskStatusWrites ==
    ASSUME NEW D \in Database, NEW t, NEW s \in TaskStatuses
    PROVE  Writes(D, SetTaskStatus(D, t, s))
BY SetOneTaskWrites, WritesNothing DEF SetTaskStatus

LEMMA CreateGateWrites ==
    ASSUME NEW D \in Database, D.nGate < MaxGates, NEW t \in TaskIds
    PROVE  Writes(D, createGate(D, t))
<1> DEFINE n == D.nGate + 1
           row == [status |-> "pending", task |-> t]
           E == [D EXCEPT !.gate = [D.gate EXCEPT ![n] = row]]
           F == [D EXCEPT !.gate[n] = row, !.nGate = @ + 1]
<1>1. n \in GateIds /\ n \in 0..MaxGates
    BY BoundsAssumption DEF Database, GateIds
<1>2. row \in GateRow
    BY DEF GateRow, GateStatuses
<1>3. [D.gate EXCEPT ![n] = row] \in [GateIds -> GateRow]
    BY <1>1, <1>2 DEF Database
<1>4. Writes(D, E)
    BY <1>3, SetGates
<1>5. F = [E EXCEPT !.nGate = n]
    BY DEF Database
<1>6. [E EXCEPT !.nGate = n] \in Database /\ [E EXCEPT !.nGate = n].disp = E.disp
    BY <1>1, <1>4 DEF Database, Writes
<1>7. Writes(D, F)
    BY <1>4, <1>5, <1>6 DEF Writes, Releases
<1> HIDE DEF F
<1>8. Writes(F, completeActiveDispatchForTask(F, t))
    BY <1>7, CompleteActiveWrites DEF Writes
<1>9. Writes(completeActiveDispatchForTask(F, t),
             SetTaskStatus(completeActiveDispatchForTask(F, t), t, "blocked"))
    BY <1>8, SetTaskStatusWrites DEF Writes, TaskStatuses
<1>10. createGate(D, t) = SetTaskStatus(completeActiveDispatchForTask(F, t), t, "blocked")
    BY DEF createGate, F
<1> QED BY <1>7, <1>8, <1>9, <1>10, WritesTransitive

LEMMA ResolveGateWrites ==
    ASSUME NEW D \in Database, NEW g \in GateIds
    PROVE  Writes(D, resolveGate(D, g))
<1> DEFINE f == [D.gate EXCEPT ![g] = [D.gate[g] EXCEPT !.status = "resolved"]]
           E == [D EXCEPT !.gate = f]
<1>1. D.gate \in [GateIds -> GateRow]
    BY DEF Database
<1>2. [D.gate[g] EXCEPT !.status = "resolved"] \in GateRow
    BY <1>1 DEF GateRow, GateStatuses
<1>3. f \in [GateIds -> GateRow]
    BY <1>1, <1>2
<1>4. Writes(D, E)
    BY <1>3, SetGates
<1>5. resolveGate(D, g) = SetTaskStatus(E, D.gate[g].task, "ready")
    BY DEF resolveGate
<1> HIDE DEF E
<1>6. Writes(E, SetTaskStatus(E, D.gate[g].task, "ready"))
    BY <1>4, SetTaskStatusWrites DEF Writes, TaskStatuses
<1> QED BY <1>4, <1>5, <1>6, WritesTransitive

LEMMA RestoreWrites ==
    ASSUME NEW D \in Database
    PROVE  Writes(D, restorePendingGateTaskStatuses(D))
<1> DEFINE f == [t \in TaskIds |-> IF TaskExists(D, t) /\ HasPendingGate(D, t)
                                   THEN [D.task[t] EXCEPT !.status = "blocked"]
                                   ELSE D.task[t]]
<1>1. D.task \in [TaskIds -> TaskRow]
    BY DEF Database
<1>2. \A t \in TaskIds : [D.task[t] EXCEPT !.status = "blocked"] \in TaskRow
    BY <1>1, TaskRowUpdate DEF TaskStatuses
<1>3. f \in [TaskIds -> TaskRow]
    BY <1>1, <1>2
<1> QED BY <1>3, SetTasks DEF restorePendingGateTaskStatuses

LEMMA CreateRunWrites ==
    ASSUME NEW D \in Database, D.nRun + 1 \in RunIds
    PROVE  Writes(D, createCoordinatorRun(D))
<1> DEFINE n == D.nRun + 1
           E == [D EXCEPT !.run = [D.run EXCEPT ![n] = "running"]]
<1>1. n \in 0..MaxRuns
    BY BoundsAssumption DEF RunIds
<1>2. [D.run EXCEPT ![n] = "running"] \in [RunIds -> RunStatuses \cup {"none"}]
    BY DEF Database, RunStatuses
<1>3. Writes(D, E)
    BY <1>2, SetRuns
<1>4. createCoordinatorRun(D) = [E EXCEPT !.nRun = n]
    BY DEF createCoordinatorRun, Database
<1>5. [E EXCEPT !.nRun = n] \in Database /\ [E EXCEPT !.nRun = n].disp = E.disp
    BY <1>1, <1>3 DEF Database, Writes
<1> QED BY <1>3, <1>4, <1>5 DEF Writes, Releases

LEMMA UpdateRunWrites ==
    ASSUME NEW D \in Database, NEW r \in RunIds, NEW s \in RunStatuses
    PROVE  Writes(D, updateCoordinatorRun(D, r, s))
<1> DEFINE f == [D.run EXCEPT ![r] = IF D.run[r] = "none" THEN D.run[r] ELSE s]
<1>1. f \in [RunIds -> RunStatuses \cup {"none"}]
    BY DEF Database
<1>2. updateCoordinatorRun(D, r, s) = [D EXCEPT !.run = f]
    BY DEF updateCoordinatorRun
<1> HIDE DEF f
<1> QED BY <1>1, <1>2, SetRuns

\* The tables of a fresh database.
LEMMA EmptyTables ==
    /\ EmptyDb.task \in [TaskIds -> TaskRow]
    /\ EmptyDb.disp \in [DispatchIds -> DispatchRow]
    /\ \A d \in DispatchIds : EmptyDb.disp[d].status = "none"
    /\ EmptyDb.gate \in [GateIds -> GateRow]
    /\ EmptyDb.msg \in [MessageIds -> MessageRow]
    /\ EmptyDb.run \in [RunIds -> RunStatuses \cup {"none"}]
<1>1. AnyHandle \in Handles
    BY EnvironmentAssumption DEF AnyHandle
<1>2. EmptyDb.task \in [TaskIds -> TaskRow]
    BY DEF EmptyDb, TaskRow
<1>3. EmptyDb.disp = [d \in DispatchIds |->
                 [status |-> "none", task |-> 0, handle |-> AnyHandle, pane |-> NoPane,
                  failures |-> 0, beat |-> 0]]
    BY DEF EmptyDb
<1>4. EmptyDb.disp \in [DispatchIds -> DispatchRow]
    BY <1>1, <1>3 DEF DispatchRow
<1>5. \A d \in DispatchIds : EmptyDb.disp[d].status = "none"
    BY <1>3
<1>6. EmptyDb.gate \in [GateIds -> GateRow]
    BY DEF EmptyDb, GateRow
<1>7. EmptyDb.msg = [m \in MessageIds |->
                 [stored |-> FALSE, from |-> AnyHandle, pane |-> NoPane, type |-> "status",
                  task |-> 0, disp |-> 0, read |-> FALSE, rejected |-> FALSE]]
    BY DEF EmptyDb
<1>8. EmptyDb.msg \in [MessageIds -> MessageRow]
    BY <1>1, <1>7 DEF MessageRow, MessageTypes
<1>9. EmptyDb.run \in [RunIds -> RunStatuses \cup {"none"}]
    BY DEF EmptyDb
<1> QED BY <1>2, <1>4, <1>5, <1>6, <1>8, <1>9

LEMMA EmptyDbType == EmptyDb \in Database
<1>2. EmptyDb = [task |-> EmptyDb.task, disp |-> EmptyDb.disp, gate |-> EmptyDb.gate,
                 msg |-> EmptyDb.msg, run |-> EmptyDb.run, nTask |-> 0, nDisp |-> 0,
                 nGate |-> 0, nMsg |-> 0, nRun |-> 0]
    BY DEF EmptyDb
<1>3. 0 \in 0..MaxTasks /\ 0 \in 0..MaxDispatches /\ 0 \in 0..MaxGates
      /\ 0 \in 0..MaxMessages /\ 0 \in 0..MaxRuns
    BY BoundsAssumption
<1>4. ASSUME NEW a \in [TaskIds -> TaskRow], NEW b \in [DispatchIds -> DispatchRow],
             NEW g \in [GateIds -> GateRow], NEW m \in [MessageIds -> MessageRow],
             NEW r \in [RunIds -> RunStatuses \cup {"none"}]
      PROVE  [task |-> a, disp |-> b, gate |-> g, msg |-> m, run |-> r, nTask |-> 0,
              nDisp |-> 0, nGate |-> 0, nMsg |-> 0, nRun |-> 0] \in Database
    BY <1>3 DEF Database
<1> QED BY <1>2, <1>4, EmptyTables

LEMMA ResetTasksWrites ==
    ASSUME NEW D \in Database
    PROVE  Writes(D, resetTasks(D))
<1> DEFINE E1 == [D EXCEPT !.run = EmptyDb.run]
           E2 == [E1 EXCEPT !.gate = EmptyDb.gate]
           E3 == [E2 EXCEPT !.disp = EmptyDb.disp]
           E4 == [E3 EXCEPT !.task = EmptyDb.task]
<1>1. Writes(D, E1)
    BY EmptyTables, SetRuns
<1>2. Writes(E1, E2)
    BY <1>1, EmptyTables, SetGates DEF Writes
<1>3. Writes(E2, E3)
  <2>1. E2 \in Database
      BY <1>2 DEF Writes
  <2>2. \A d \in DispatchIds : EmptyDb.disp[d].status \notin ActiveStatuses
      BY EmptyTables DEF ActiveStatuses
  <2> HIDE DEF E2
  <2> QED BY <2>1, <2>2, EmptyTables, SetDispatches
<1>4. Writes(E3, E4)
    BY <1>3, EmptyTables, SetTasks DEF Writes
<1>5. resetTasks(D) = E4
    BY DEF resetTasks
<1> HIDE DEF E1, E2, E3, E4
<1> QED BY <1>1, <1>2, <1>3, <1>4, <1>5, WritesTransitive

LEMMA ResetMessagesWrites ==
    ASSUME NEW D \in Database
    PROVE  Writes(D, resetMessages(D))
<1> DEFINE f == [m \in MessageIds |-> [D.msg[m] EXCEPT !.stored = FALSE]]
<1>1. D.msg \in [MessageIds -> MessageRow]
    BY DEF Database
<1>2. f \in [MessageIds -> MessageRow]
    BY <1>1 DEF MessageRow
<1> QED BY <1>2, SetMessages DEF resetMessages

LEMMA ResetAllWrites ==
    ASSUME NEW D \in Database
    PROVE  Writes(D, resetAll(D))
<1>1. Writes(D, resetTasks(D))
    BY ResetTasksWrites
<1>2. Writes(resetTasks(D), resetMessages(resetTasks(D)))
    BY <1>1, ResetMessagesWrites DEF Writes
<1> QED BY <1>1, <1>2, WritesTransitive DEF resetAll

-----------------------------------------------------------------------------
(* Lifecycle reconciliation.                                               *)

LEMMA ReconcileHeartbeatWrites ==
    ASSUME NEW D \in Database, NEW m \in MessageIds
    PROVE  Writes(D, reconcileHeartbeatMessage(D, m))
<1>1. D.msg[m].disp \in {0} \cup DispatchIds
    BY DEF Database, MessageRow
<1>2. ASSUME D.msg[m].disp # 0
      PROVE  Writes(D, recordHeartbeat(D, D.msg[m].disp, m))
    BY <1>1, <1>2, RecordHeartbeatWrites
<1> QED BY <1>2, WritesNothing, MarkAsReadWrites, RejectionWrites
        DEF reconcileHeartbeatMessage

LEMMA ReconcileWorkerDoneWrites ==
    ASSUME NEW D \in Database, NEW m \in MessageIds
    PROVE  Writes(D, reconcileWorkerDoneMessage(D, m))
<1> DEFINE E == updateTaskStatus(D, D.msg[m].task, "completed", m)
<1>1. ASSUME NamesDispatchOfTask(D, D.msg[m])
      PROVE  Writes(D, suppressEarlierHeartbeats(E, m))
  <2>1. D.msg[m].task \in TaskIds
      BY <1>1 DEF NamesDispatchOfTask, TaskExists
  <2>2. Writes(D, E)
      BY <2>1, UpdateTaskStatusWrites DEF TaskStatuses
  <2> HIDE DEF E
  <2>3. Writes(E, suppressEarlierHeartbeats(E, m))
      BY <2>2, MarkAsReadWrites DEF Writes, suppressEarlierHeartbeats
  <2> QED BY <2>2, <2>3, WritesTransitive
<1> QED BY <1>1, WritesNothing, RejectionWrites DEF reconcileWorkerDoneMessage

LEMMA ReconcileWrites ==
    ASSUME NEW D \in Database, NEW m \in MessageIds
    PROVE  Writes(D, reconcileLifecycleMessage(D, m))
BY WritesNothing, ReconcileHeartbeatWrites, ReconcileWorkerDoneWrites
   DEF reconcileLifecycleMessage

-----------------------------------------------------------------------------
(* The dispatch lock.                                                      *)

\* DispatchLock, for any database.
Lock(D) ==
    \A d, e \in DispatchIds :
        /\ D.disp[d].status \in ActiveStatuses
        /\ D.disp[e].status \in ActiveStatuses
        /\ d # e
        => /\ D.disp[d].handle # D.disp[e].handle
           /\ D.disp[d].pane # NoPane /\ D.disp[e].pane # NoPane
                 => ~isEquivalentPaneKey(D.disp[d].pane, D.disp[e].pane)

LEMMA LockIsDispatchLock == DispatchLock <=> Lock(db)
BY DEF DispatchLock, Lock, ActiveDispatches

LEMMA WritesKeepLock ==
    ASSUME NEW D, NEW E, Writes(D, E), Lock(D)
    PROVE  Lock(E)
BY DEF Writes, Releases, Lock

\* Pane equivalence does not depend on which key is asked first.
LEMMA PaneSymmetric ==
    ASSUME NEW a, NEW b, isEquivalentPaneKey(a, b)
    PROVE  isEquivalentPaneKey(b, a)
BY DEF isEquivalentPaneKey

\* A new dispatch keeps the tables' types and the lock.
LEMMA CreateDispatchKeeps ==
    ASSUME NEW D \in Database, NEW t \in TaskIds, NEW h \in Handles,
           NEW p \in Panes \cup {NoPane}, NEW n \in Nat,
           D.nDisp + 1 \in DispatchIds
    PROVE  /\ createDispatchContext(D, t, h, p, n) \in Database
           /\ CanDispatch(D, t, h, p) /\ Lock(D) => Lock(createDispatchContext(D, t, h, p, n))
<1> DEFINE k == D.nDisp + 1
           row == [status |-> "dispatched", task |-> t, handle |-> h, pane |-> p,
                   failures |-> n, beat |-> 0]
           f == [D.disp EXCEPT ![k] = row]
           g == [D.task EXCEPT ![t] = [D.task[t] EXCEPT !.status = "dispatched"]]
           E == [D EXCEPT !.disp = f, !.nDisp = k, !.task = g]
<1>1. row \in DispatchRow
    BY DEF DispatchRow, DispatchStatuses, ActiveStatuses
<1>2. f \in [DispatchIds -> DispatchRow]
    BY <1>1 DEF Database
<1>3. D.task[t] \in TaskRow
    BY DEF Database
<1>4. [D.task[t] EXCEPT !.status = "dispatched"] \in TaskRow
    BY <1>3, TaskRowUpdate DEF TaskStatuses
<1>5. g \in [TaskIds -> TaskRow]
    BY <1>4 DEF Database
<1>6. k \in 0..MaxDispatches
    BY BoundsAssumption DEF DispatchIds
<1>7. E \in Database /\ E.disp = f
  <2> HIDE DEF f, g, k
  <2> QED BY <1>2, <1>5, <1>6 DEF Database
<1>8. createDispatchContext(D, t, h, p, n) = E
    BY DEF createDispatchContext, Database
<1>9. ASSUME CanDispatch(D, t, h, p), Lock(D)
      PROVE  Lock(E)
  <2>1. /\ f[k] = row
        /\ \A e \in DispatchIds : e # k => f[e] = D.disp[e]
      BY DEF Database
  <2>2. \A e \in DispatchIds : D.disp[e].status \in ActiveStatuses =>
           /\ D.disp[e].handle # h
           /\ p # NoPane /\ D.disp[e].pane # NoPane => ~isEquivalentPaneKey(D.disp[e].pane, p)
      BY <1>9 DEF CanDispatch, LocksAssignee, ActiveDispatches
  <2>3. row.handle = h /\ row.pane = p
      OBVIOUS
  <2> SUFFICES ASSUME NEW d \in DispatchIds, NEW e \in DispatchIds, d # e,
                      f[d].status \in ActiveStatuses, f[e].status \in ActiveStatuses
               PROVE  /\ f[d].handle # f[e].handle
                      /\ f[d].pane # NoPane /\ f[e].pane # NoPane
                            => ~isEquivalentPaneKey(f[d].pane, f[e].pane)
      BY <1>7 DEF Lock
  <2> HIDE DEF f, row, k
  <2>4. CASE d # k /\ e # k
      BY <2>1, <2>4, <1>9 DEF Lock
  <2>5. CASE d = k
      BY <2>1, <2>2, <2>3, <2>5, PaneSymmetric
  <2>6. CASE e = k
      BY <2>1, <2>2, <2>3, <2>6
  <2> QED BY <2>4, <2>5, <2>6
<1> QED BY <1>7, <1>8, <1>9

-----------------------------------------------------------------------------
(* The actions.                                                            *)

\* What every step does to the database.
DbStep == db' \in Database /\ (Lock(db) => Lock(db'))

LEMMA WritesStep ==
    ASSUME Writes(db, db')
    PROVE  DbStep
BY WritesKeepLock DEF DbStep, Writes

LEMMA UnchangedStep ==
    ASSUME TypeOK, db' = db
    PROVE  DbStep
BY WritesNothing, WritesStep DEF TypeOK

LEMMA DispatchesStep ==
    ASSUME TypeOK, NEW t, NEW h \in Handles, NEW d, Dispatches(t, h, d)
    PROVE  DbStep /\ d \in DispatchIds
<1>1. t \in TaskIds /\ CanDispatch(db, t, h, PaneOf[h])
    BY DEF Dispatches, CanDispatch, TaskExists
<1>2. PaneOf[h] \in Panes \cup {NoPane}
    BY EnvironmentAssumption
<1>3. db \in Database
    BY DEF TypeOK
<1>4. db.nDisp + 1 \in DispatchIds /\ d \in DispatchIds
    BY DEF Dispatches
<1>5. PICK n \in FailureCounts(db) : db' = createDispatchContext(db, t, h, PaneOf[h], n)
    BY DEF Dispatches
<1>6. n \in Nat
    BY <1>3, <1>5 DEF FailureCounts, Database, DispatchRow
<1> QED BY <1>1, <1>2, <1>3, <1>4, <1>5, <1>6, CreateDispatchKeeps DEF DbStep

LEMMA NewMessageType ==
    ASSUME NEW h \in Handles, NEW type \in MessageTypes, NEW t \in {0} \cup TaskIds,
           NEW d \in {0} \cup DispatchIds
    PROVE  NewMessage(h, type, t, d) \in MessageRow
<1>1. PaneOf[h] \in Panes \cup {NoPane}
    BY EnvironmentAssumption
<1> QED BY <1>1 DEF NewMessage, MessageRow

LEMMA CoordinatorTypes ==
    /\ NewCoordinator \in Coordinator
    /\ \A c \in Coordinator : Leave(c) \in Coordinator /\ Return(c) \in Coordinator
    /\ FreeTurn \in Turn
    /\ IdleCall \in DispatchCallState
<1>1. Coord \in Handles
    BY EnvironmentAssumption
<1>2. NewCoordinator \in Coordinator
    BY <1>1 DEF NewCoordinator, Coordinator, CoordinatorPcs
<1>3. ASSUME NEW c \in Coordinator PROVE Leave(c) \in Coordinator
  <2>1. c.stopped \in BOOLEAN /\ c.failedTasks \in SUBSET TaskIds
      BY DEF Coordinator
  <2> QED BY <1>2, <2>1 DEF Leave, Coordinator, CoordinatorPcs
<1>4. ASSUME NEW c \in Coordinator PROVE Return(c) \in Coordinator
    BY <1>1 DEF Return, Coordinator, CoordinatorPcs
<1>5. FreeTurn \in Turn
    BY DEF FreeTurn, Turn
<1>6. IdleCall \in DispatchCallState
    BY <1>1 DEF IdleCall, DispatchCallState
<1> QED BY <1>2, <1>3, <1>4, <1>5, <1>6

\* The variables that a synchronous handler leaves alone.
Others == <<turn, coord, active, rpc, term, told, exits, crashes>>

LEMMA HandlerStep ==
    ASSUME TypeOK, Writes(db, db'), UNCHANGED Others
    PROVE  TypeOK' /\ DbStep
<1>1. db' \in Database
    BY DEF Writes
<1> QED BY <1>1, WritesStep DEF TypeOK, Others

LEMMA SendStep ==
    ASSUME TypeOK, NEW from \in Handles, NEW type \in MessageTypes,
           NEW t \in {0} \cup TaskIds, NEW d \in {0} \cup DispatchIds, Send(from, type, t, d)
    PROVE  TypeOK' /\ DbStep
<1> DEFINE n == db.nMsg + 1
           D == insertMessage(db, NewMessage(from, type, t, d))
<1>1. db \in Database /\ db.nMsg < MaxMessages
    BY DEF TypeOK, Send
<1>2. n \in MessageIds
    BY <1>1, BoundsAssumption DEF Database, MessageIds
<1>3. Writes(db, D)
    BY <1>1, NewMessageType, InsertMessageWrites
<1> HIDE DEF D, n
<1>4. Writes(D, reconcileLifecycleMessage(D, n))
    BY <1>2, <1>3, ReconcileWrites DEF Writes
<1>5. Writes(db, reconcileLifecycleMessage(D, n))
    BY <1>3, <1>4, WritesTransitive
<1>6. db' = reconcileLifecycleMessage(D, n) /\ UNCHANGED Others
    BY DEF Send, D, n, Others
<1> QED BY <1>5, <1>6, HandlerStep

LEMMA HandlersStep ==
    ASSUME TypeOK,
           \/ \E deps \in DepChoices : TaskCreate(deps)
           \/ \E t \in TaskIds, s \in ManualStatuses : TaskUpdate(t, s)
           \/ \E t \in TaskIds : GateCreate(t)
           \/ \E g \in GateIds : GateResolve(g)
           \/ \E scope \in ResetScopes : Reset(scope)
           \/ AgentSend
    PROVE  TypeOK' /\ DbStep
<1>0. db \in Database
    BY DEF TypeOK
<1>1. ASSUME NEW deps \in DepChoices, TaskCreate(deps)
      PROVE  TypeOK' /\ DbStep
  <2>1. deps \in SUBSET TaskIds
      BY EnvironmentAssumption
  <2>2. Writes(db, db') /\ UNCHANGED Others
      BY <1>0, <1>1, <2>1, CreateTaskWrites DEF TaskCreate, Others
  <2> QED BY <2>2, HandlerStep
<1>2. ASSUME NEW t \in TaskIds, NEW s \in ManualStatuses, TaskUpdate(t, s)
      PROVE  TypeOK' /\ DbStep
  <2>1. s \in TaskStatuses
      BY EnvironmentAssumption
  <2>2. Writes(db, db') /\ UNCHANGED Others
      BY <1>0, <1>2, <2>1, UpdateTaskStatusWrites DEF TaskUpdate, Others
  <2> QED BY <2>2, HandlerStep
<1>3. ASSUME NEW t \in TaskIds, GateCreate(t)
      PROVE  TypeOK' /\ DbStep
  <2>1. Writes(db, db') /\ UNCHANGED Others
      BY <1>0, <1>3, CreateGateWrites DEF GateCreate, Others
  <2> QED BY <2>1, HandlerStep
<1>4. ASSUME NEW g \in GateIds, GateResolve(g)
      PROVE  TypeOK' /\ DbStep
  <2>1. Writes(db, db') /\ UNCHANGED Others
      BY <1>0, <1>4, ResolveGateWrites DEF GateResolve, Others
  <2> QED BY <2>1, HandlerStep
<1>5. ASSUME NEW scope \in ResetScopes, Reset(scope)
      PROVE  TypeOK' /\ DbStep
  <2>1. scope \in {"tasks", "messages", "all"}
      BY EnvironmentAssumption
  <2>2. Writes(db, db') /\ UNCHANGED Others
      BY <1>0, <1>5, <2>1, ResetTasksWrites, ResetMessagesWrites, ResetAllWrites
         DEF Reset, Others
  <2> QED BY <2>2, HandlerStep
<1>6. ASSUME AgentSend
      PROVE  TypeOK' /\ DbStep
  <2>1. PICK from \in Senders, type \in SentTypes :
           SendLifecycle(from, type) \/ SendAboutTask(from, type)
      BY <1>6 DEF AgentSend
  <2>2. from \in Handles /\ type \in MessageTypes
      BY EnvironmentAssumption
  <2>3. 1..db.nTask \subseteq TaskIds /\ 0..db.nTask \subseteq {0} \cup TaskIds
      BY <1>0, BoundsAssumption DEF Database, TaskIds
  <2>4. told \subseteq DispatchIds
      BY DEF TypeOK
  <2>5. \E t \in {0} \cup TaskIds, d \in {0} \cup DispatchIds : Send(from, type, t, d)
      BY <2>1, <2>3, <2>4 DEF SendLifecycle, SendAboutTask
  <2> QED BY <2>2, <2>5, SendStep
<1> QED BY <1>1, <1>2, <1>3, <1>4, <1>5, <1>6

\* The readers of the coordinator's mailbox, and the start and stop of a run.
LEMMA CheckBeginStep ==
    ASSUME TypeOK, NEW types \in CheckFilters, CheckBegin(types)
    PROVE  TypeOK' /\ DbStep
<1>1. turn' \in Turn
    BY DEF CheckBegin, Turn, UnreadMessages
<1>2. db' = db
    BY DEF CheckBegin
<1> QED BY <1>1, <1>2, UnchangedStep DEF CheckBegin, TypeOK

LEMMA CheckEndStep ==
    ASSUME TypeOK, CheckEnd
    PROVE  TypeOK' /\ DbStep
<1>1. Writes(db, db')
    BY MarkAsReadWrites DEF CheckEnd, TypeOK
<1> QED BY <1>1, CoordinatorTypes, WritesStep DEF CheckEnd, TypeOK, Writes

LEMMA RunStep ==
    ASSUME TypeOK, Run
    PROVE  TypeOK' /\ DbStep
<1> DEFINE r == db.nRun + 1
           pc == IF \E t \in TaskIds : TaskExists(db, t) THEN "tick" ELSE "failing"
<1>1. r \in RunIds /\ active' = r
    BY DEF Run
<1>2. Writes(db, db')
    BY <1>1, CreateRunWrites DEF Run, TypeOK
<1>3. coord' = [coord EXCEPT ![r].pc = pc]
    BY DEF Run
<1>4. pc \in CoordinatorPcs
    BY DEF CoordinatorPcs
<1>5. coord' \in [RunIds -> Coordinator]
  <2> HIDE DEF r, pc
  <2> QED BY <1>1, <1>3, <1>4 DEF TypeOK, Coordinator
<1> QED BY <1>1, <1>2, <1>5, WritesStep DEF Run, TypeOK, Writes

LEMMA RunStopStep ==
    ASSUME TypeOK, RunStop
    PROVE  TypeOK' /\ DbStep
<1>1. active \in RunIds /\ db' = db
    BY DEF RunStop, TypeOK
<1>2. coord' \in [RunIds -> Coordinator]
  <2> DEFINE z == coord[active]
             x == [z EXCEPT !.stopped = TRUE]
  <2>1. coord' = [coord EXCEPT ![active] = x]
      BY DEF RunStop
  <2>2. z \in Coordinator
      BY <1>1 DEF TypeOK
  <2> HIDE DEF z
  <2>3. x \in Coordinator
      BY <2>2 DEF Coordinator
  <2> HIDE DEF x
  <2> QED BY <1>1, <2>1, <2>3 DEF TypeOK
<1> QED BY <1>1, <1>2, UnchangedStep DEF RunStop, TypeOK

\* One message, by either reader.
LEMMA HandleMessageStep ==
    ASSUME TypeOK, NEW m \in MessageIds, HandleMessage(m)
    PROVE  TypeOK' /\ DbStep
<1>1. db \in Database
    BY DEF TypeOK
<1>2. db.msg[m].task \in {0} \cup TaskIds
    BY <1>1 DEF Database, MessageRow
<1>3. Writes(db, db') /\ coord' \in [RunIds -> Coordinator]
  <2>1. CASE HandleLifecycle(m)
      BY <1>1, <2>1, ReconcileWrites DEF HandleLifecycle, TypeOK
  <2>2. CASE HandleEscalation(m)
    <3> DEFINE t == db.msg[m].task
    <3>1. CASE UNCHANGED <<db, coord>>
        BY <1>1, <3>1, WritesNothing DEF TypeOK
    <3>2. ASSUME NEW d \in DispatchIds, EscalationFails(t, d), db' = failDispatch(db, d),
                 UNCHANGED coord
          PROVE  Writes(db, db') /\ coord' \in [RunIds -> Coordinator]
        BY <1>1, <3>2, FailDispatchWrites DEF TypeOK
    <3>3. ASSUME NEW d \in DispatchIds, EscalationFails(t, d),
                 db' = updateTaskStatus(failDispatch(db, d), t, "failed", m),
                 coord' = [coord EXCEPT ![turn.run].failedTasks = @ \cup {t}]
          PROVE  Writes(db, db') /\ coord' \in [RunIds -> Coordinator]
      <4>1. t \in TaskIds
          BY <3>3 DEF EscalationFails, TaskExists
      <4>2. Writes(db, failDispatch(db, d))
          BY <1>1, FailDispatchWrites
      <4>3. Writes(failDispatch(db, d), updateTaskStatus(failDispatch(db, d), t, "failed", m))
          BY <4>1, <4>2, UpdateTaskStatusWrites DEF Writes, TaskStatuses
      <4>4. Writes(db, db')
          BY <3>3, <4>2, <4>3, WritesTransitive
      <4>5. ASSUME NEW c \in Coordinator
            PROVE  [c EXCEPT !.failedTasks = @ \cup {t}] \in Coordinator
        <5> HIDE DEF t
        <5> QED BY <4>1 DEF Coordinator
      <4>6. coord' \in [RunIds -> Coordinator]
          BY <3>3, <4>5 DEF TypeOK
      <4> QED BY <4>4, <4>6
    <3> QED BY <2>2, <3>1, <3>2, <3>3 DEF HandleEscalation
  <2>3. CASE HandleDecisionGate(m)
      BY <1>1, <1>2, <2>3, CreateGateWrites, WritesNothing DEF HandleDecisionGate, TypeOK
  <2>4. CASE HandleOther(m)
      BY <1>1, <2>4, WritesNothing DEF HandleOther, TypeOK
  <2> QED BY <2>1, <2>2, <2>3, <2>4 DEF HandleMessage
<1>4. turn' \in Turn
    BY DEF HandleMessage, TypeOK, Turn
<1> QED BY <1>3, <1>4, WritesStep DEF HandleMessage, TypeOK, Writes

-----------------------------------------------------------------------------
(* The coordinator's loop.                                                 *)

\* Steps of the loop that neither read nor write the database.
LEMMA LoopControlStep ==
    ASSUME TypeOK, NEW r \in RunIds,
           \/ LoopTest(r) \/ ListTerminals(r) \/ CreateTerminal(r) \/ AssignNext(r)
           \/ CheckConvergence(r) \/ Wake(r)
    PROVE  TypeOK' /\ DbStep
<1>0. coord[r] \in Coordinator /\ coord \in [RunIds -> Coordinator]
    BY DEF TypeOK
<1>1. db' = db
    BY DEF LoopTest, ListTerminals, CreateTerminal, AssignNext, CheckConvergence, Wake
<1>2. DbStep
    BY <1>1, UnchangedStep
<1>3. CASE LoopTest(r)
  <2>1. coord' \in [RunIds -> Coordinator]
    <3> DEFINE z == coord[r]
               x == [z EXCEPT !.pc = "finishing"]
    <3>1. coord' = coord \/ coord' = [coord EXCEPT ![r] = x]
        BY <1>3 DEF LoopTest
    <3>2. z \in Coordinator
        BY <1>0
    <3> HIDE DEF z
    <3>3. x \in Coordinator
        BY <3>2 DEF Coordinator, CoordinatorPcs
    <3> HIDE DEF x
    <3> QED BY <1>0, <3>1, <3>3
  <2>2. turn' \in Turn
      BY <1>3 DEF LoopTest, Turn, UnreadMessages, TypeOK
  <2> QED BY <1>2, <1>3, <2>1, <2>2 DEF LoopTest, TypeOK
<1>4. CASE ListTerminals(r)
  <2>1. PICK terminals \in SUBSET Handles :
           coord' = [coord EXCEPT ![r].terminals = terminals,
                        ![r].pc = IF terminals = {} THEN "creating" ELSE "assigning"]
      BY <1>4 DEF ListTerminals
  <2>2. coord' \in [RunIds -> Coordinator]
      BY <1>0, <2>1 DEF Coordinator, CoordinatorPcs
  <2> QED BY <1>2, <1>4, <2>2 DEF ListTerminals, TypeOK
<1>5. CASE CreateTerminal(r)
  <2>1. coord' \in [RunIds -> Coordinator]
    <3>1. ASSUME NEW h \in Handles,
                 coord' = [coord EXCEPT ![r].terminals = {h}, ![r].pc = "assigning"]
          PROVE  coord' \in [RunIds -> Coordinator]
        BY <1>0, <3>1 DEF Coordinator, CoordinatorPcs
    <3>2. ASSUME coord' = [coord EXCEPT ![r] = Leave(@)]
          PROVE  coord' \in [RunIds -> Coordinator]
        BY <1>0, <3>2, CoordinatorTypes
    <3> QED BY <1>5, <3>1, <3>2 DEF CreateTerminal
  <2>2. term' \in [Handles -> {"none", "live", "dead"}]
      BY <1>5 DEF CreateTerminal, TypeOK
  <2> QED BY <1>2, <1>5, <2>1, <2>2 DEF CreateTerminal, TypeOK
<1>6. CASE AssignNext(r)
  <2>1. coord' \in [RunIds -> Coordinator]
    <3>1. ASSUME NEW t \in coord[r].ready, NEW h \in coord[r].terminals,
                 coord' = [coord EXCEPT ![r] =
                              [coord[r] EXCEPT !.ready = @ \ {t}, !.slots = @ - 1,
                                               !.terminals = @ \ {h},
                                               !.task = t, !.handle = h, !.pc = "probing"]]
          PROVE  coord' \in [RunIds -> Coordinator]
      <4>1. t \in TaskIds /\ h \in Handles
          BY <1>0, <3>1 DEF Coordinator
      <4>2. [coord[r] EXCEPT !.ready = @ \ {t}, !.slots = @ - 1, !.terminals = @ \ {h},
                             !.task = t, !.handle = h, !.pc = "probing"] \in Coordinator
        <5>1. /\ coord[r].ready \ {t} \in SUBSET TaskIds
              /\ coord[r].terminals \ {h} \in SUBSET Handles
              /\ coord[r].slots - 1 \in Int
            BY <1>0 DEF Coordinator
        <5>2. "probing" \in CoordinatorPcs
            BY DEF CoordinatorPcs
        <5>3. ASSUME NEW a \in SUBSET TaskIds, NEW s \in Int, NEW b \in SUBSET Handles
              PROVE  [coord[r] EXCEPT !.ready = a, !.slots = s, !.terminals = b,
                                      !.task = t, !.handle = h, !.pc = "probing"] \in Coordinator
            BY <1>0, <4>1, <5>2 DEF Coordinator
        <5> QED BY <5>1, <5>3
      <4> QED BY <1>0, <3>1, <4>2
    <3>2. ASSUME coord' = [coord EXCEPT ![r] = Leave(coord[r])]
          PROVE  coord' \in [RunIds -> Coordinator]
        BY <1>0, <3>2, CoordinatorTypes
    <3> QED BY <1>6, <3>1, <3>2 DEF AssignNext
  <2> QED BY <1>2, <1>6, <2>1 DEF AssignNext, TypeOK
<1>7. CASE CheckConvergence(r)
  <2>1. coord' \in [RunIds -> Coordinator]
      BY <1>0, <1>7 DEF CheckConvergence, Coordinator, CoordinatorPcs
  <2> QED BY <1>2, <1>7, <2>1 DEF CheckConvergence, TypeOK
<1>8. CASE Wake(r)
  <2>1. coord' \in [RunIds -> Coordinator]
      BY <1>0, <1>8 DEF Wake, Coordinator, CoordinatorPcs
  <2> QED BY <1>2, <1>8, <2>1 DEF Wake, TypeOK
<1> QED BY <1>3, <1>4, <1>5, <1>6, <1>7, <1>8

LEMMA TickEndStep ==
    ASSUME TypeOK, NEW r \in RunIds, TickEnd(r)
    PROVE  TypeOK' /\ DbStep
<1> DEFINE E == markAsRead(db, turn.batch)
           settled == restorePendingGateTaskStatuses(E)
           ready == TasksIn(settled, "ready")
           slots == slotsAvailable(settled)
<1>1. Writes(db, E)
    BY MarkAsReadWrites DEF TypeOK
<1>2. Writes(E, settled)
  <2> HIDE DEF E
  <2> QED BY <1>1, RestoreWrites DEF Writes
<1>3. Writes(db, db')
  <2>1. db' = settled
      BY DEF TickEnd
  <2> QED BY <1>1, <1>2, <2>1, WritesTransitive
<1> HIDE DEF settled
<1>4. ready \in SUBSET TaskIds
    BY DEF TasksIn
<1>5. slots \in Int
  <2>1. IsFiniteSet(TaskIds)
      BY FS_Interval, BoundsAssumption DEF TaskIds
  <2>2. IsFiniteSet(TasksIn(settled, "dispatched"))
      BY <2>1, FS_Subset DEF TasksIn
  <2>3. Cardinality(TasksIn(settled, "dispatched")) \in Nat
      BY <2>2, FS_CardinalityType
  <2> QED BY <2>3, EnvironmentAssumption DEF slotsAvailable
<1>6. coord[r] \in Coordinator
    BY DEF TypeOK
<1>7. [coord[r] EXCEPT !.pc = "listing", !.ready = ready, !.slots = slots] \in Coordinator
  <2> HIDE DEF ready, slots
  <2> QED BY <1>4, <1>5, <1>6 DEF Coordinator, CoordinatorPcs
<1>8. coord' = [coord EXCEPT ![r] =
                   IF ready = {} \/ slots <= 0 THEN Leave(coord[r])
                   ELSE [coord[r] EXCEPT !.pc = "listing", !.ready = ready, !.slots = slots]]
    BY DEF TickEnd, settled
<1>9. coord' \in [RunIds -> Coordinator]
  <2> HIDE DEF ready, slots
  <2> QED BY <1>6, <1>7, <1>8, CoordinatorTypes DEF TypeOK
<1>10. turn' \in Turn
    BY CoordinatorTypes DEF TickEnd
<1> QED BY <1>3, <1>9, <1>10, WritesStep DEF TickEnd, TypeOK, Writes

LEMMA DispatchTaskStep ==
    ASSUME TypeOK, NEW r \in RunIds, DispatchTask(r)
    PROVE  TypeOK' /\ DbStep
<1> DEFINE d == db.nDisp + 1
<1>1. coord[r] \in Coordinator /\ coord[r].handle \in Handles
    BY DEF TypeOK, Coordinator
<1>2. CASE coord' = [coord EXCEPT ![r] = Return(@)] /\ UNCHANGED db
  <2>1. coord' \in [RunIds -> Coordinator]
      BY <1>1, <1>2, CoordinatorTypes DEF TypeOK
  <2> QED BY <1>2, <2>1, UnchangedStep DEF DispatchTask, TypeOK
<1>3. CASE /\ Dispatches(coord[r].task, coord[r].handle, d)
           /\ coord' = [coord EXCEPT ![r].disp = d, ![r].pc = "prompting"]
  <2>1. DbStep /\ d \in DispatchIds
      BY <1>1, <1>3, DispatchesStep
  <2> HIDE DEF d
  <2>2. coord' \in [RunIds -> Coordinator]
      BY <1>1, <1>3, <2>1 DEF TypeOK, Coordinator, CoordinatorPcs
  <2> QED BY <2>1, <2>2 DEF DispatchTask, TypeOK, DbStep
<1> QED BY <1>2, <1>3 DEF DispatchTask

(***************************************************************************)
(* TypeOK is not inductive by itself: a prompt that ends writes the ids of *)
(* the call it belongs to, so a call that has reached its prompt must hold *)
(* a task and a dispatch that exist.                                       *)
(***************************************************************************)
CallsInProgress ==
    /\ \A r \in RunIds : coord[r].pc \in {"probing", "prompting"} => coord[r].task \in TaskIds
    /\ \A r \in RunIds : coord[r].pc = "prompting" => coord[r].disp \in DispatchIds
    /\ \A c \in Clients : rpc[c].pc = "prompting" => rpc[c].disp \in DispatchIds

LEMMA PromptedStep ==
    ASSUME TypeOK, CallsInProgress, NEW r \in RunIds, Prompted(r)
    PROVE  TypeOK' /\ DbStep
<1> DEFINE c == coord[r]
           back == Return(c)
           broken == [back EXCEPT !.failedTasks = @ \cup {c.task}]
<1>1. c \in Coordinator /\ c.disp \in DispatchIds /\ c.task \in TaskIds
    BY DEF TypeOK, CallsInProgress, Prompted
<1>2. back \in Coordinator
    BY <1>1, CoordinatorTypes
<1>3. broken \in Coordinator
  <2> HIDE DEF back
  <2> QED BY <1>1, <1>2 DEF Coordinator
<1>4. coord' \in [RunIds -> Coordinator]
  <2>1. \E x \in {back, broken} : coord' = [coord EXCEPT ![r] = x]
      BY DEF Prompted
  <2> HIDE DEF back, broken
  <2> QED BY <1>2, <1>3, <2>1 DEF TypeOK
<1>5. CASE told' = told \cup {c.disp} /\ UNCHANGED db
  <2>1. told' \in SUBSET DispatchIds
      BY <1>1, <1>5 DEF TypeOK
  <2> QED BY <1>4, <1>5, <2>1, UnchangedStep DEF Prompted, TypeOK
<1>6. CASE db' = failDispatch(db, c.disp) /\ UNCHANGED told
  <2>1. Writes(db, db')
      BY <1>6, FailDispatchWrites DEF TypeOK
  <2> QED BY <1>4, <1>6, <2>1, WritesStep DEF Prompted, TypeOK, Writes
<1> QED BY <1>5, <1>6 DEF Prompted

LEMMA FinishStep ==
    ASSUME TypeOK, NEW r \in RunIds, Finish(r)
    PROVE  TypeOK' /\ DbStep
<1>1. \E s \in RunStatuses : db' = updateCoordinatorRun(db, r, s)
    BY DEF Finish, RunStatuses
<1>2. Writes(db, db')
    BY <1>1, UpdateRunWrites DEF TypeOK
<1>3. coord' \in [RunIds -> Coordinator]
    BY DEF Finish, TypeOK, Coordinator, CoordinatorPcs
<1>4. active' \in {0} \cup RunIds
    BY DEF Finish, TypeOK
<1> QED BY <1>2, <1>3, <1>4, WritesStep DEF Finish, TypeOK, Writes

-----------------------------------------------------------------------------
(* orchestration.dispatch and the runtime.                                 *)

LEMMA DispatchCallStep ==
    ASSUME TypeOK, CallsInProgress, NEW c \in Clients, DispatchCall(c)
    PROVE  TypeOK' /\ DbStep
<1>0. rpc[c] \in DispatchCallState /\ rpc[c].handle \in Handles
    BY DEF TypeOK, DispatchCallState
<1>1. ASSUME NEW t \in TaskIds, NEW h \in Handles, DispatchRequest(c, t, h)
      PROVE  TypeOK' /\ DbStep
  <2>1. rpc' \in [Clients -> DispatchCallState]
      BY <1>1 DEF DispatchRequest, TypeOK, DispatchCallState
  <2> QED BY <1>1, <2>1, UnchangedStep DEF DispatchRequest, TypeOK
<1>2. ASSUME NEW t \in TaskIds, NEW h \in Handles, DispatchUninjected(c, t, h)
      PROVE  TypeOK' /\ DbStep
  <2>1. DbStep /\ db.nDisp + 1 \in DispatchIds
      BY <1>2, DispatchesStep DEF DispatchUninjected
  <2>2. told' \in SUBSET DispatchIds
      BY <1>2, <2>1 DEF DispatchUninjected, TypeOK
  <2> QED BY <1>2, <2>1, <2>2 DEF DispatchUninjected, TypeOK, DbStep
<1>3. ASSUME DispatchChecked(c)
      PROVE  TypeOK' /\ DbStep
  <2>1. CASE rpc' = [rpc EXCEPT ![c] = IdleCall] /\ UNCHANGED db
    <3>1. rpc' \in [Clients -> DispatchCallState]
        BY <2>1, CoordinatorTypes DEF TypeOK
    <3> QED BY <1>3, <2>1, <3>1, UnchangedStep DEF DispatchChecked, TypeOK
  <2>2. CASE /\ Dispatches(rpc[c].task, rpc[c].handle, db.nDisp + 1)
             /\ rpc' = [rpc EXCEPT ![c].disp = db.nDisp + 1, ![c].pc = "prompting"]
    <3>1. DbStep /\ db.nDisp + 1 \in DispatchIds
        BY <1>0, <2>2, DispatchesStep
    <3>2. rpc' \in [Clients -> DispatchCallState]
        BY <1>0, <2>2, <3>1 DEF TypeOK, DispatchCallState
    <3> QED BY <1>3, <3>1, <3>2 DEF DispatchChecked, TypeOK, DbStep
  <2> QED BY <1>3, <2>1, <2>2 DEF DispatchChecked
<1>4. ASSUME DispatchPrompted(c)
      PROVE  TypeOK' /\ DbStep
  <2>1. rpc' \in [Clients -> DispatchCallState]
      BY <1>4, CoordinatorTypes DEF DispatchPrompted, TypeOK
  <2>2. rpc[c].disp \in DispatchIds
      BY <1>4 DEF DispatchPrompted, CallsInProgress
  <2>3. CASE told' = told \cup {rpc[c].disp} /\ UNCHANGED db
    <3>1. told' \in SUBSET DispatchIds
        BY <2>2, <2>3 DEF TypeOK
    <3> QED BY <1>4, <2>1, <2>3, <3>1, UnchangedStep DEF DispatchPrompted, TypeOK
  <2>4. CASE db' = failDispatch(db, rpc[c].disp) /\ UNCHANGED told
    <3>1. Writes(db, db')
        BY <2>4, FailDispatchWrites DEF TypeOK
    <3> QED BY <1>4, <2>1, <2>4, <3>1, WritesStep DEF DispatchPrompted, TypeOK, Writes
  <2> QED BY <1>4, <2>3, <2>4 DEF DispatchPrompted
<1> QED BY <1>1, <1>2, <1>3, <1>4 DEF DispatchCall

LEMMA TerminalExitStep ==
    ASSUME TypeOK, NEW h \in Handles, TerminalExit(h)
    PROVE  TypeOK' /\ DbStep
<1>1. db \in Database
    BY DEF TypeOK
<1>2. ASSUME NEW d \in DispatchIds, db.nMsg < MaxMessages,
             db' = insertMessage(failDispatch(db, d),
                      [NewMessage(h, "escalation", db.disp[d].task, 0) EXCEPT !.pane = NoPane])
      PROVE  Writes(db, db')
  <2> DEFINE row == [NewMessage(h, "escalation", db.disp[d].task, 0) EXCEPT !.pane = NoPane]
             E == failDispatch(db, d)
  <2>1. db.disp[d].task \in {0} \cup TaskIds
      BY <1>1 DEF Database, DispatchRow
  <2>2. NewMessage(h, "escalation", db.disp[d].task, 0) \in MessageRow
      BY <2>1, NewMessageType DEF MessageTypes
  <2>3. row \in MessageRow
      BY <2>2 DEF MessageRow
  <2>4. Writes(db, E)
      BY <1>1, FailDispatchWrites
  <2>5. E.nMsg = db.nMsg
      BY <1>1 DEF failDispatch, Database
  <2> HIDE DEF E, row
  <2>6. Writes(E, insertMessage(E, row))
      BY <1>2, <2>3, <2>4, <2>5, InsertMessageWrites DEF Writes
  <2> QED BY <1>2, <2>4, <2>6, WritesTransitive DEF E, row
<1>3. ASSUME NEW d \in DispatchIds, db' = failDispatch(db, d)
      PROVE  Writes(db, db')
    BY <1>1, <1>3, FailDispatchWrites
<1>4. Writes(db, db')
    BY <1>1, <1>2, <1>3, WritesNothing DEF TerminalExit
<1>5. term' \in [Handles -> {"none", "live", "dead"}] /\ exits' \in 0..MaxExits
    BY EnvironmentAssumption DEF TerminalExit, TypeOK
<1> QED BY <1>4, <1>5, WritesStep DEF TerminalExit, TypeOK, Writes

LEMMA CrashStep ==
    ASSUME TypeOK, Crash
    PROVE  TypeOK' /\ DbStep
<1>1. [NewCoordinator EXCEPT !.pc = "done"] \in Coordinator
    BY CoordinatorTypes DEF Coordinator, CoordinatorPcs
<1>2. coord' \in [RunIds -> Coordinator]
    BY <1>1 DEF Crash, TypeOK
<1>3. /\ turn' \in Turn /\ rpc' \in [Clients -> DispatchCallState]
      /\ active' \in {0} \cup RunIds
    BY CoordinatorTypes DEF Crash
<1>4. crashes' \in 0..MaxCrashes
    BY EnvironmentAssumption DEF Crash, TypeOK
<1> QED BY <1>2, <1>3, <1>4, UnchangedStep DEF Crash, TypeOK

-----------------------------------------------------------------------------
(* Calls in progress.                                                      *)

\* A step that gives coordinator r a program counter outside the calls.
LEMMA CoordLeavesCalls ==
    ASSUME TypeOK, CallsInProgress, NEW r \in RunIds, NEW c,
           coord' = [coord EXCEPT ![r] = c], UNCHANGED rpc,
           c.pc \notin {"probing", "prompting"}
    PROVE  CallsInProgress'
BY DEF TypeOK, CallsInProgress

LEMMA CoordinatorCalls ==
    ASSUME TypeOK, CallsInProgress, NEW r \in RunIds, CoordinatorStep(r)
    PROVE  CallsInProgress'
<1>0. coord[r] \in Coordinator /\ coord \in [RunIds -> Coordinator] /\ UNCHANGED rpc
    BY DEF TypeOK, CoordinatorStep, LoopTest, TickEnd, ListTerminals, CreateTerminal, AssignNext,
           DispatchTask, Prompted, CheckConvergence, Wake, Finish
<1>1. /\ \A c \in Coordinator : Leave(c).pc = "converging" /\ Return(c).pc = "assigning"
      /\ \A s : \A c \in Coordinator : [c EXCEPT !.failedTasks = s].pc = c.pc
    BY DEF Leave, Return, NewCoordinator, Coordinator
<1>2. CASE LoopTest(r)
    BY <1>0, <1>2 DEF LoopTest, CallsInProgress, Coordinator
<1>3. CASE TickEnd(r)
  <2>1. PICK a, b : \/ coord' = [coord EXCEPT ![r] = Leave(coord[r])]
                    \/ coord' = [coord EXCEPT ![r] =
                          [coord[r] EXCEPT !.pc = "listing", !.ready = a, !.slots = b]]
      BY <1>3 DEF TickEnd
  <2>2. [coord[r] EXCEPT !.pc = "listing", !.ready = a, !.slots = b].pc = "listing"
      BY <1>0 DEF Coordinator
  <2> QED BY <1>0, <1>1, <2>1, <2>2, CoordLeavesCalls
<1>4. CASE ListTerminals(r)
    BY <1>0, <1>4 DEF ListTerminals, CallsInProgress, Coordinator
<1>5. CASE CreateTerminal(r)
  <2>1. CASE coord' = [coord EXCEPT ![r] = Leave(@)]
      BY <1>0, <1>1, <2>1, CoordLeavesCalls
  <2>2. ASSUME NEW h, coord' = [coord EXCEPT ![r].terminals = {h}, ![r].pc = "assigning"]
        PROVE  CallsInProgress'
      BY <1>0, <2>2 DEF CallsInProgress, Coordinator
  <2> QED BY <1>5, <2>1, <2>2 DEF CreateTerminal
<1>6. CASE AssignNext(r)
  <2>1. CASE coord' = [coord EXCEPT ![r] = Leave(coord[r])]
      BY <1>0, <1>1, <2>1, CoordLeavesCalls
  <2>2. ASSUME NEW t \in coord[r].ready, NEW h \in coord[r].terminals,
               coord' = [coord EXCEPT ![r] =
                            [coord[r] EXCEPT !.ready = @ \ {t}, !.slots = @ - 1,
                                             !.terminals = @ \ {h},
                                             !.task = t, !.handle = h, !.pc = "probing"]]
        PROVE  CallsInProgress'
    <3>1. t \in TaskIds
        BY <1>0 DEF Coordinator
    <3>2. coord'[r].pc = "probing" /\ coord'[r].task = t
        BY <1>0, <2>2 DEF Coordinator
    <3>3. \A q \in RunIds : q # r => coord'[q] = coord[q]
        BY <1>0, <2>2
    <3> QED BY <1>0, <3>1, <3>2, <3>3 DEF CallsInProgress
  <2> QED BY <1>6, <2>1, <2>2 DEF AssignNext
<1>7. CASE DispatchTask(r)
  <2>1. CASE coord' = [coord EXCEPT ![r] = Return(@)]
      BY <1>0, <1>1, <2>1, CoordLeavesCalls
  <2>2. CASE /\ db.nDisp + 1 \in DispatchIds
             /\ coord' = [coord EXCEPT ![r].disp = db.nDisp + 1, ![r].pc = "prompting"]
    <3>1. coord[r].task \in TaskIds
        BY <1>7 DEF DispatchTask, CallsInProgress
    <3>2. coord'[r].disp \in DispatchIds /\ coord'[r].task = coord[r].task
        BY <1>0, <2>2 DEF Coordinator
    <3>3. \A q \in RunIds : q # r => coord'[q] = coord[q]
        BY <1>0, <2>2
    <3> QED BY <1>0, <3>1, <3>2, <3>3 DEF CallsInProgress
  <2> QED BY <1>7, <2>1, <2>2 DEF DispatchTask, Dispatches
<1>8. CASE Prompted(r)
  <2>1. Return(coord[r]) \in Coordinator
      BY <1>0, CoordinatorTypes
  <2>2. \E x : coord' = [coord EXCEPT ![r] = x] /\ x.pc = "assigning"
    <3> DEFINE b == Return(coord[r])
    <3>1. b.pc = "assigning" /\ [b EXCEPT !.failedTasks = @ \cup {coord[r].task}].pc = "assigning"
        BY <1>0, <1>1, <2>1
    <3> QED BY <1>8, <3>1 DEF Prompted
  <2> QED BY <1>0, <2>2, CoordLeavesCalls
<1>9. CASE CheckConvergence(r) \/ Wake(r) \/ Finish(r)
    BY <1>0, <1>9 DEF CheckConvergence, Wake, Finish, CallsInProgress, Coordinator
<1> QED BY <1>2, <1>3, <1>4, <1>5, <1>6, <1>7, <1>8, <1>9 DEF CoordinatorStep

LEMMA DispatchCallCalls ==
    ASSUME TypeOK, CallsInProgress, NEW c \in Clients, DispatchCall(c)
    PROVE  CallsInProgress'
<1>0. rpc[c] \in DispatchCallState /\ rpc \in [Clients -> DispatchCallState]
    BY DEF TypeOK
<1>1. UNCHANGED coord
    BY DEF DispatchCall, DispatchRequest, DispatchUninjected, DispatchChecked, DispatchPrompted
<1>2. rpc'[c].pc = "prompting" => rpc'[c].disp \in DispatchIds
  <2>1. ASSUME NEW t, NEW h, DispatchRequest(c, t, h) \/ DispatchUninjected(c, t, h)
        PROVE  rpc'[c].pc = "prompting" => rpc'[c].disp \in DispatchIds
      BY <1>0, <2>1 DEF DispatchRequest, DispatchUninjected, CallsInProgress
  <2>2. CASE DispatchChecked(c)
      BY <1>0, <2>2 DEF DispatchChecked, Dispatches, IdleCall, DispatchCallState
  <2>3. CASE DispatchPrompted(c)
      BY <1>0, <2>3 DEF DispatchPrompted, IdleCall
  <2> QED BY <2>1, <2>2, <2>3 DEF DispatchCall
<1>3. \A q \in Clients : q # c => rpc'[q] = rpc[q]
    BY <1>0 DEF DispatchCall, DispatchRequest, DispatchUninjected, DispatchChecked, DispatchPrompted
<1> QED BY <1>1, <1>2, <1>3 DEF CallsInProgress

LEMMA OtherCalls ==
    ASSUME TypeOK, CallsInProgress,
           \/ Run \/ RunStop \/ Crash
           \/ \E m \in MessageIds : HandleMessage(m)
    PROVE  CallsInProgress'
<1>0. coord \in [RunIds -> Coordinator]
    BY DEF TypeOK
<1>1. CASE Run
    BY <1>0, <1>1 DEF Run, CallsInProgress, Coordinator
<1>2. CASE RunStop
    BY <1>0, <1>2 DEF RunStop, CallsInProgress, Coordinator
<1>3. CASE Crash
    BY <1>3 DEF Crash, CallsInProgress, NewCoordinator, IdleCall
<1>4. ASSUME NEW m \in MessageIds, HandleMessage(m) PROVE CallsInProgress'
  <2>1. UNCHANGED rpc
      BY <1>4 DEF HandleMessage
  <2>2. UNCHANGED coord
        \/ \E t : coord' = [coord EXCEPT ![turn.run].failedTasks = @ \cup {t}]
      BY <1>4 DEF HandleMessage, HandleLifecycle, HandleEscalation, HandleDecisionGate, HandleOther
  <2>3. \A q \in RunIds : /\ coord'[q].pc = coord[q].pc
                           /\ coord'[q].task = coord[q].task
                           /\ coord'[q].disp = coord[q].disp
    <3>1. ASSUME NEW t, coord' = [coord EXCEPT ![turn.run].failedTasks = @ \cup {t}],
                 NEW q \in RunIds
          PROVE  /\ coord'[q].pc = coord[q].pc
                 /\ coord'[q].task = coord[q].task
                 /\ coord'[q].disp = coord[q].disp
      <4>1. coord[q] \in Coordinator
          BY <1>0
      <4>2. \/ coord'[q] = coord[q]
            \/ coord'[q] = [coord[q] EXCEPT !.failedTasks = @ \cup {t}]
          BY <1>0, <3>1
      <4> QED BY <4>1, <4>2 DEF Coordinator
    <3> QED BY <2>2, <3>1
  <2> QED BY <2>1, <2>3 DEF CallsInProgress
<1> QED BY <1>1, <1>2, <1>3, <1>4

-----------------------------------------------------------------------------
(* The theorems.                                                           *)

\* The inductive invariant of the type theorem.
LEMMA NextKeepsTypes ==
    ASSUME TypeOK, CallsInProgress, Next
    PROVE  TypeOK' /\ CallsInProgress' /\ DbStep
<1>1. CASE \/ \E deps \in DepChoices : TaskCreate(deps)
           \/ \E t \in TaskIds, s \in ManualStatuses : TaskUpdate(t, s)
           \/ \E t \in TaskIds : GateCreate(t)
           \/ \E g \in GateIds : GateResolve(g)
           \/ \E scope \in ResetScopes : Reset(scope)
           \/ AgentSend
  <2>1. UNCHANGED <<coord, rpc>>
      BY <1>1 DEF TaskCreate, TaskUpdate, GateCreate, GateResolve, Reset, AgentSend,
                  SendLifecycle, SendAboutTask, Send
  <2>2. CallsInProgress'
      BY <2>1 DEF CallsInProgress
  <2> QED BY <1>1, <2>2, HandlersStep
<1>2. CASE CheckEnd \/ \E types \in CheckFilters : CheckBegin(types)
  <2>1. CallsInProgress'
      BY <1>2 DEF CheckBegin, CheckEnd, CallsInProgress
  <2> QED BY <1>2, <2>1, CheckBeginStep, CheckEndStep
<1>3. CASE Run
    BY <1>3, RunStep, OtherCalls
<1>4. CASE RunStop
    BY <1>4, RunStopStep, OtherCalls
<1>5. ASSUME NEW m \in MessageIds, HandleMessage(m)
      PROVE  TypeOK' /\ CallsInProgress' /\ DbStep
    BY <1>5, HandleMessageStep, OtherCalls
<1>6. ASSUME NEW r \in RunIds, CoordinatorStep(r)
      PROVE  TypeOK' /\ CallsInProgress' /\ DbStep
  <2>1. TypeOK' /\ DbStep
      BY <1>6, LoopControlStep, TickEndStep, DispatchTaskStep, PromptedStep, FinishStep
         DEF CoordinatorStep
  <2> QED BY <1>6, <2>1, CoordinatorCalls
<1>7. ASSUME NEW c \in Clients, DispatchCall(c)
      PROVE  TypeOK' /\ CallsInProgress' /\ DbStep
    BY <1>7, DispatchCallStep, DispatchCallCalls
<1>8. ASSUME NEW h \in Handles, TerminalExit(h)
      PROVE  TypeOK' /\ CallsInProgress' /\ DbStep
  <2>1. CallsInProgress'
      BY <1>8 DEF TerminalExit, CallsInProgress
  <2> QED BY <1>8, <2>1, TerminalExitStep
<1>9. CASE Crash
    BY <1>9, CrashStep, OtherCalls
<1> QED BY <1>1, <1>2, <1>3, <1>4, <1>5, <1>6, <1>7, <1>8, <1>9 DEF Next

LEMMA InitTypes == Init => TypeOK /\ CallsInProgress /\ Lock(db)
<1> SUFFICES ASSUME Init PROVE TypeOK /\ CallsInProgress /\ Lock(db)
    OBVIOUS
<1>1. TypeOK
    BY EmptyDbType, CoordinatorTypes, EnvironmentAssumption DEF Init, TypeOK
<1>2. CallsInProgress
    BY DEF Init, CallsInProgress, NewCoordinator, IdleCall
<1>3. Lock(db)
    BY EmptyTables DEF Init, Lock, ActiveStatuses
<1> QED BY <1>1, <1>2, <1>3

LEMMA StutterKeeps ==
    ASSUME TypeOK, CallsInProgress, UNCHANGED vars
    PROVE  TypeOK' /\ CallsInProgress' /\ DbStep
<1>1. TypeOK' /\ CallsInProgress'
    BY DEF vars, TypeOK, CallsInProgress
<1> QED BY <1>1, UnchangedStep DEF vars

\* Type correctness of the orchestration system: whatever handlers, loops,
\* agents, exits and crashes do, the tables, the Coordinator objects and the
\* pending dispatch calls keep their shapes.
THEOREM TypeCorrect == Spec => []TypeOK
<1>1. TypeOK /\ CallsInProgress /\ [Next]_vars => (TypeOK /\ CallsInProgress)'
    BY NextKeepsTypes, StutterKeeps
<1> QED BY <1>1, InitTypes, PTL DEF Spec

\* The dispatch lock of createDispatchContext holds for every number of tasks,
\* terminals, panes, coordinators and callers: no terminal, under no handle and
\* behind no moved or re-issued pane key, has two active dispatches.
THEOREM DispatchLockHolds == Spec => []DispatchLock
<1> DEFINE I == TypeOK /\ CallsInProgress /\ Lock(db)
<1>1. Init => I
    BY InitTypes
<1>2. I /\ [Next]_vars => I'
    BY NextKeepsTypes, StutterKeeps DEF DbStep
<1>3. I => DispatchLock
    BY LockIsDispatchLock
<1> QED BY <1>1, <1>2, <1>3, PTL DEF Spec

-----------------------------------------------------------------------------
(* A task that is shown as dispatched has a running newest dispatch, as    *)
(* long as nobody sets a task to dispatched by hand.                       *)

\* DispatchedIsAssigned, for any database.
Assigned(D) ==
    \A t \in TaskIds : D.task[t].status = "dispatched" =>
        \E d \in DispatchIds : IsLatestDispatch(D, t, d) /\ D.disp[d].status = "dispatched"

\* No dispatch exists whose id has not been handed out.
Allocated(D) == \A d \in DispatchIds : d > D.nDisp => D.disp[d].status = "none"

(***************************************************************************)
(* What every write but a dispatch and a reset does: dispatches neither    *)
(* appear, vanish nor change task, and a task that is dispatched           *)
(* afterwards was so before and has had none of its dispatches changed.    *)
(***************************************************************************)
Keeps(D, E) ==
    /\ E.nDisp = D.nDisp
    /\ \A d \in DispatchIds : /\ E.disp[d].task = D.disp[d].task
                              /\ E.disp[d].status = "none" <=> D.disp[d].status = "none"
    /\ \A t \in TaskIds : E.task[t].status = "dispatched" =>
          /\ D.task[t].status = "dispatched"
          /\ \A d \in DispatchIds : D.disp[d].task = t => E.disp[d].status = D.disp[d].status

LEMMA KeepsTransitive ==
    ASSUME NEW D, NEW E, NEW F, Keeps(D, E), Keeps(E, F)
    PROVE  Keeps(D, F)
BY DEF Keeps

LEMMA KeepsAssigned ==
    ASSUME NEW D, NEW E, Keeps(D, E), Assigned(D), Allocated(D)
    PROVE  Assigned(E) /\ Allocated(E)
<1>1. Allocated(E)
    BY DEF Keeps, Allocated
<1>2. ASSUME NEW t \in TaskIds, E.task[t].status = "dispatched"
      PROVE  \E d \in DispatchIds : IsLatestDispatch(E, t, d) /\ E.disp[d].status = "dispatched"
  <2>1. DispatchesOf(E, t) = DispatchesOf(D, t)
      BY DEF DispatchesOf, Keeps
  <2>2. D.task[t].status = "dispatched"
      BY <1>2 DEF Keeps
  <2>3. PICK d \in DispatchIds : IsLatestDispatch(D, t, d) /\ D.disp[d].status = "dispatched"
      BY <2>2 DEF Assigned
  <2>4. D.disp[d].task = t
      BY <2>3 DEF IsLatestDispatch, DispatchesOf
  <2>5. E.disp[d].status = "dispatched"
      BY <1>2, <2>3, <2>4 DEF Keeps
  <2>6. IsLatestDispatch(E, t, d)
      BY <2>1, <2>3 DEF IsLatestDispatch
  <2> QED BY <2>5, <2>6
<1> QED BY <1>1, <1>2 DEF Assigned

\* A write to the other tables.
LEMMA SameKeeps ==
    ASSUME NEW D, NEW E, E.task = D.task, E.disp = D.disp, E.nDisp = D.nDisp
    PROVE  Keeps(D, E)
BY DEF Keeps

\* A write to one task's status.
LEMMA SetOneTaskKeeps ==
    ASSUME NEW D \in Database, NEW t, NEW s, s # "dispatched"
    PROVE  Keeps(D, [D EXCEPT !.task[t].status = s])
<1> DEFINE E == [D EXCEPT !.task[t].status = s]
<1>1. D.task \in [TaskIds -> TaskRow]
    BY DEF Database
<1>2. E.disp = D.disp /\ E.nDisp = D.nDisp
    BY DEF Database
<1>3. E.task = [D.task EXCEPT ![t] = [D.task[t] EXCEPT !.status = s]]
    BY DEF Database
<1>4. ASSUME NEW u \in TaskIds
      PROVE  E.task[u].status = D.task[u].status \/ E.task[u].status = s
  <2>1. CASE u = t
    <3>1. D.task[u] \in TaskRow
        BY <1>1
    <3>2. [D.task[u] EXCEPT !.status = s].status = s
        BY <3>1 DEF TaskRow
    <3> QED BY <1>1, <1>3, <2>1, <3>2
  <2>2. CASE u # t
      BY <1>1, <1>3, <2>2
  <2> QED BY <2>1, <2>2
<1> HIDE DEF E
<1>5. Keeps(D, E)
    BY <1>2, <1>4 DEF Keeps
<1> QED BY <1>5 DEF E

LEMMA SetTaskStatusKeeps ==
    ASSUME NEW D \in Database, NEW t, NEW s, s # "dispatched"
    PROVE  Keeps(D, SetTaskStatus(D, t, s))
BY SetOneTaskKeeps, SameKeeps DEF SetTaskStatus

LEMMA MessagesKeep ==
    ASSUME NEW D \in Database
    PROVE  /\ \A ids : Keeps(D, markAsRead(D, ids))
           /\ \A row : Keeps(D, insertMessage(D, row))
           /\ \A m : Keeps(D, convertLifecycleMessageToRejection(D, m))
           /\ Keeps(D, resetMessages(D))
<1>1. \A ids : Keeps(D, markAsRead(D, ids))
  <2> TAKE ids
  <2>1. /\ markAsRead(D, ids).task = D.task /\ markAsRead(D, ids).disp = D.disp
        /\ markAsRead(D, ids).nDisp = D.nDisp
      BY DEF markAsRead, Database
  <2> QED BY <2>1, SameKeeps
<1>2. \A row : Keeps(D, insertMessage(D, row))
  <2> TAKE row
  <2>1. /\ insertMessage(D, row).task = D.task /\ insertMessage(D, row).disp = D.disp
        /\ insertMessage(D, row).nDisp = D.nDisp
      BY DEF insertMessage, Database
  <2> QED BY <2>1, SameKeeps
<1>3. \A m : Keeps(D, convertLifecycleMessageToRejection(D, m))
  <2> TAKE m
  <2>1. /\ convertLifecycleMessageToRejection(D, m).task = D.task
        /\ convertLifecycleMessageToRejection(D, m).disp = D.disp
        /\ convertLifecycleMessageToRejection(D, m).nDisp = D.nDisp
      BY DEF convertLifecycleMessageToRejection, Database
  <2> QED BY <2>1, SameKeeps
<1>4. Keeps(D, resetMessages(D))
  <2>1. /\ resetMessages(D).task = D.task /\ resetMessages(D).disp = D.disp
        /\ resetMessages(D).nDisp = D.nDisp
      BY DEF resetMessages, Database
  <2> QED BY <2>1, SameKeeps
<1> QED BY <1>1, <1>2, <1>3, <1>4

LEMMA RunsKeep ==
    ASSUME NEW D \in Database
    PROVE  /\ Keeps(D, createCoordinatorRun(D))
           /\ \A r, s : Keeps(D, updateCoordinatorRun(D, r, s))
<1>1. Keeps(D, createCoordinatorRun(D))
  <2>1. /\ createCoordinatorRun(D).task = D.task /\ createCoordinatorRun(D).disp = D.disp
        /\ createCoordinatorRun(D).nDisp = D.nDisp
      BY DEF createCoordinatorRun, Database
  <2> QED BY <2>1, SameKeeps
<1>2. \A r, s : Keeps(D, updateCoordinatorRun(D, r, s))
  <2> TAKE r, s
  <2>1. /\ updateCoordinatorRun(D, r, s).task = D.task
        /\ updateCoordinatorRun(D, r, s).disp = D.disp
        /\ updateCoordinatorRun(D, r, s).nDisp = D.nDisp
      BY DEF updateCoordinatorRun, Database
  <2> QED BY <2>1, SameKeeps
<1> QED BY <1>1, <1>2

-----------------------------------------------------------------------------
(* Tasks and dispatches.                                                   *)

\* A write that replaces the task table by f and leaves the dispatches alone.
LEMMA SetTasksKeeps ==
    ASSUME NEW D \in Database, NEW f,
           \A t \in TaskIds : f[t].status = "dispatched" => D.task[t].status = "dispatched"
    PROVE  Keeps(D, [D EXCEPT !.task = f])
<1> DEFINE E == [D EXCEPT !.task = f]
<1>1. E.disp = D.disp /\ E.nDisp = D.nDisp /\ E.task = f
    BY DEF Database
<1> HIDE DEF E
<1>2. Keeps(D, E)
    BY <1>1 DEF Keeps
<1> QED BY <1>2 DEF E

LEMMA CreateTaskKeeps ==
    ASSUME NEW D \in Database, NEW deps
    PROVE  Keeps(D, createTask(D, deps))
<1> DEFINE E == createTask(D, deps)
           n == D.nTask + 1
           row == [status |-> IF deps = {} THEN "ready" ELSE "pending",
                   deps |-> deps, result |-> 0]
<1>1. E.disp = D.disp /\ E.nDisp = D.nDisp /\ E.task = [D.task EXCEPT ![n] = row]
    BY DEF createTask, Database
<1>2. row.status # "dispatched"
    OBVIOUS
<1>3. \A t \in TaskIds : E.task[t].status = "dispatched" => D.task[t].status = "dispatched"
  <2>1. D.task \in [TaskIds -> TaskRow]
      BY DEF Database
  <2> HIDE DEF E, row, n
  <2> QED BY <1>1, <1>2, <2>1
<1> HIDE DEF E
<1>4. Keeps(D, E)
    BY <1>1, <1>3 DEF Keeps
<1> QED BY <1>4 DEF E

LEMMA PromoteKeeps ==
    ASSUME NEW D \in Database, NEW t
    PROVE  Keeps(D, promoteReadyTasks(D, t))
<1> DEFINE f == [u \in TaskIds |->
        IF /\ D.task[u].status = "pending"
           /\ t \in D.task[u].deps
           /\ \A d \in D.task[u].deps : D.task[d].status = "completed"
        THEN [D.task[u] EXCEPT !.status = "ready"]
        ELSE D.task[u]]
<1>1. \A u \in TaskIds : [D.task[u] EXCEPT !.status = "ready"].status = "ready"
    BY DEF Database, TaskRow
<1>2. \A u \in TaskIds : f[u].status = "dispatched" => D.task[u].status = "dispatched"
    BY <1>1
<1>3. Keeps(D, [D EXCEPT !.task = f])
  <2> HIDE DEF f
  <2> QED BY <1>2, SetTasksKeeps
<1> QED BY <1>3 DEF promoteReadyTasks

LEMMA RestoreKeeps ==
    ASSUME NEW D \in Database
    PROVE  Keeps(D, restorePendingGateTaskStatuses(D))
<1> DEFINE f == [t \in TaskIds |-> IF TaskExists(D, t) /\ HasPendingGate(D, t)
                                   THEN [D.task[t] EXCEPT !.status = "blocked"]
                                   ELSE D.task[t]]
<1>1. \A u \in TaskIds : [D.task[u] EXCEPT !.status = "blocked"].status = "blocked"
    BY DEF Database, TaskRow
<1>2. \A u \in TaskIds : f[u].status = "dispatched" => D.task[u].status = "dispatched"
    BY <1>1
<1>3. Keeps(D, [D EXCEPT !.task = f])
  <2> HIDE DEF f
  <2> QED BY <1>2, SetTasksKeeps
<1> QED BY <1>3 DEF restorePendingGateTaskStatuses

\* What completing the newest active dispatch of t leaves alone.
LEMMA CompleteActiveFacts ==
    ASSUME NEW D \in Database, NEW t
    PROVE  LET E == completeActiveDispatchForTask(D, t)
           IN  /\ E.task = D.task /\ E.nDisp = D.nDisp
               /\ \A d \in DispatchIds :
                     /\ E.disp[d].task = D.disp[d].task
                     /\ E.disp[d].status = "none" <=> D.disp[d].status = "none"
                     /\ D.disp[d].task # t => E.disp[d].status = D.disp[d].status
<1> DEFINE E == completeActiveDispatchForTask(D, t)
           f == [d \in DispatchIds |->
                    IF IsLatestActiveDispatch(D, t, d)
                    THEN [D.disp[d] EXCEPT !.status = "completed"]
                    ELSE D.disp[d]]
<1>1. E.task = D.task /\ E.nDisp = D.nDisp /\ E.disp = f
    BY DEF completeActiveDispatchForTask, Database
<1>2. \A d \in DispatchIds : /\ [D.disp[d] EXCEPT !.status = "completed"].task = D.disp[d].task
                             /\ [D.disp[d] EXCEPT !.status = "completed"].status = "completed"
    BY DEF Database, DispatchRow
<1>3. \A d \in DispatchIds : IsLatestActiveDispatch(D, t, d) =>
                                D.disp[d].task = t /\ D.disp[d].status # "none"
    BY DEF IsLatestActiveDispatch, DispatchesOf
<1>4. \A d \in DispatchIds : /\ f[d].task = D.disp[d].task
                             /\ f[d].status = "none" <=> D.disp[d].status = "none"
                             /\ D.disp[d].task # t => f[d].status = D.disp[d].status
    BY <1>2, <1>3
<1> HIDE DEF f, E
<1> QED BY <1>1, <1>4 DEF E

LEMMA CompleteActiveKeeps ==
    ASSUME NEW D \in Database, NEW t \in TaskIds, D.task[t].status # "dispatched"
    PROVE  Keeps(D, completeActiveDispatchForTask(D, t))
BY CompleteActiveFacts DEF Keeps

LEMMA UpdateTaskStatusKeeps ==
    ASSUME NEW D \in Database, NEW t \in TaskIds, NEW s \in TaskStatuses,
           NEW m \in {0} \cup MessageIds, s # "dispatched"
    PROVE  Keeps(D, updateTaskStatus(D, t, s, m))
<1> DEFINE U == [D EXCEPT !.task[t].status = s,
                          !.task[t].result = IF m = 0 THEN @ ELSE m]
           P == promoteReadyTasks(U, t)
<1>1. D.task \in [TaskIds -> TaskRow]
    BY DEF Database
<1>2. U.disp = D.disp /\ U.nDisp = D.nDisp
    BY DEF Database
<1>3. /\ U.task[t].status = s
      /\ \A u \in TaskIds : u # t => U.task[u] = D.task[u]
    BY <1>1 DEF Database, TaskRow
<1>4. U \in Database
  <2>1. CASE s # "completed"
      BY <2>1, UpdateTaskStatusWrites DEF updateTaskStatus, Writes
  <2>2. CASE s = "completed"
    <3>1. "failed" \in TaskStatuses
        BY DEF TaskStatuses
    <3> DEFINE r == IF m = 0 THEN D.task[t].result ELSE m
    <3>2. r \in {0} \cup MessageIds
        BY <1>1 DEF TaskRow
    <3>3. [D.task[t] EXCEPT !.status = s, !.result = r] \in TaskRow
        BY <1>1, <3>2, TaskRowUpdate
    <3>4. U = [D EXCEPT !.task = [D.task EXCEPT ![t] =
                   [D.task[t] EXCEPT !.status = s, !.result = r]]]
        BY <1>1 DEF Database, TaskRow
    <3>5. [D.task EXCEPT ![t] = [D.task[t] EXCEPT !.status = s, !.result = r]]
             \in [TaskIds -> TaskRow]
        BY <1>1, <3>3
    <3> QED BY <3>4, <3>5, SetTasks DEF Writes
  <2> QED BY <2>1, <2>2
<1>5. Keeps(D, U)
  <2> HIDE DEF U
  <2> QED BY <1>2, <1>3 DEF Keeps
<1>6. CASE s = "completed"
  <2> HIDE DEF U
  <2>1. Keeps(U, P) /\ P \in Database
      BY <1>4, PromoteKeeps, PromoteWrites DEF Writes
  <2>2. P.task[t].status # "dispatched"
      BY <1>3, <1>6, <2>1 DEF Keeps
  <2>3. Keeps(P, completeActiveDispatchForTask(P, t))
    <3> HIDE DEF P
    <3> QED BY <2>1, <2>2, CompleteActiveKeeps
  <2>4. Keeps(D, completeActiveDispatchForTask(P, t))
    <3> HIDE DEF P
    <3> QED BY <1>5, <2>1, <2>3, KeepsTransitive
  <2> QED BY <1>6, <2>4 DEF updateTaskStatus, U, P
<1> QED BY <1>5, <1>6 DEF updateTaskStatus

LEMMA FailDispatchKeeps ==
    ASSUME NEW D \in Database, NEW d
    PROVE  Keeps(D, failDispatch(D, d))
<1> DEFINE row == D.disp[d]
           trips == row.failures + 1 >= 3
           s == IF trips THEN "circuit_broken" ELSE "failed"
           u == IF D.task[row.task].status = "none" THEN D.task[row.task].status
                ELSE IF trips THEN "failed" ELSE "ready"
           newRow == [row EXCEPT !.status = s, !.failures = @ + 1]
           E == [D EXCEPT !.disp[d] = newRow, !.task[row.task].status = u]
<1>1. CASE row.status = "none"
    BY <1>1, SameKeeps DEF failDispatch
<1>2. CASE row.status # "none"
  <2>1. failDispatch(D, d) = E
      BY <1>2 DEF failDispatch
  <2>2. /\ E.nDisp = D.nDisp
        /\ E.disp = [D.disp EXCEPT ![d] = newRow]
        /\ E.task = [D.task EXCEPT ![row.task] = [D.task[row.task] EXCEPT !.status = u]]
      BY DEF Database
  <2>3. D.disp \in [DispatchIds -> DispatchRow] /\ D.task \in [TaskIds -> TaskRow]
      BY DEF Database
  <2>4. u # "dispatched" /\ s # "none"
      OBVIOUS
  <2>5. d \in DispatchIds => newRow.task = row.task /\ newRow.status = s
    <3> HIDE DEF s
    <3> QED BY <2>3 DEF DispatchRow
  <2>6. \A e \in DispatchIds : /\ E.disp[e].task = D.disp[e].task
                               /\ E.disp[e].status = "none" <=> D.disp[e].status = "none"
                               /\ D.disp[e].task # row.task => E.disp[e].status = D.disp[e].status
    <3> HIDE DEF E, newRow, s
    <3> QED BY <1>2, <2>2, <2>3, <2>4, <2>5
  <2>7. \A t \in TaskIds : E.task[t].status = "dispatched" =>
           D.task[t].status = "dispatched" /\ t # row.task
    <3>1. \A t \in TaskIds : [D.task[t] EXCEPT !.status = u].status = u
      <4> HIDE DEF u
      <4> QED BY <2>3 DEF TaskRow
    <3> HIDE DEF E, u
    <3> QED BY <2>2, <2>3, <2>4, <3>1
  <2>8. Keeps(D, E)
    <3> HIDE DEF E
    <3> QED BY <2>2, <2>6, <2>7 DEF Keeps
  <2> QED BY <2>1, <2>8
<1> QED BY <1>1, <1>2

LEMMA RecordHeartbeatKeeps ==
    ASSUME NEW D \in Database, NEW d, NEW m
    PROVE  Keeps(D, recordHeartbeat(D, d, m))
<1> DEFINE E == [D EXCEPT !.disp[d].beat = m]
<1>1. D.disp \in [DispatchIds -> DispatchRow]
    BY DEF Database
<1>2. /\ E.task = D.task /\ E.nDisp = D.nDisp
      /\ E.disp = [D.disp EXCEPT ![d] = [D.disp[d] EXCEPT !.beat = m]]
    BY DEF Database
<1>3. \A e \in DispatchIds : /\ [D.disp[e] EXCEPT !.beat = m].task = D.disp[e].task
                             /\ [D.disp[e] EXCEPT !.beat = m].status = D.disp[e].status
    BY <1>1 DEF DispatchRow
<1>4. \A e \in DispatchIds : E.disp[e].task = D.disp[e].task /\ E.disp[e].status = D.disp[e].status
  <2> HIDE DEF E
  <2> QED BY <1>1, <1>2, <1>3
<1> HIDE DEF E
<1>5. Keeps(D, E)
    BY <1>2, <1>4 DEF Keeps
<1> QED BY <1>5, SameKeeps DEF recordHeartbeat, E

\* The INSERT into decision_gates.
LEMMA CreateGateRowType ==
    ASSUME NEW D \in Database, D.nGate < MaxGates, NEW t \in TaskIds
    PROVE  [D EXCEPT !.gate[D.nGate + 1] = [status |-> "pending", task |-> t],
                     !.nGate = @ + 1] \in Database
<1> DEFINE n == D.nGate + 1
           row == [status |-> "pending", task |-> t]
           f == [D.gate EXCEPT ![n] = row]
<1>1. n \in GateIds /\ n \in 0..MaxGates
    BY BoundsAssumption DEF Database, GateIds
<1>2. row \in GateRow
    BY DEF GateRow, GateStatuses
<1>3. f \in [GateIds -> GateRow]
    BY <1>1, <1>2 DEF Database
<1>4. [D EXCEPT !.gate = f, !.nGate = n] \in Database
  <2> HIDE DEF f, n
  <2> QED BY <1>1, <1>3 DEF Database
<1>5. [D EXCEPT !.gate[n] = row, !.nGate = @ + 1] = [D EXCEPT !.gate = f, !.nGate = n]
    BY DEF Database
<1> QED BY <1>4, <1>5

LEMMA CreateGateKeeps ==
    ASSUME NEW D \in Database, D.nGate < MaxGates, NEW t \in TaskIds
    PROVE  Keeps(D, createGate(D, t))
<1> DEFINE G == [D EXCEPT !.gate[D.nGate + 1] = [status |-> "pending", task |-> t],
                          !.nGate = @ + 1]
           C == completeActiveDispatchForTask(G, t)
           E == SetTaskStatus(C, t, "blocked")
<1>1. G.task = D.task /\ G.disp = D.disp /\ G.nDisp = D.nDisp
    BY DEF Database
<1>2. G \in Database
    BY CreateGateRowType
<1> HIDE DEF G
<1>3. C \in Database
    BY <1>2, CompleteActiveWrites DEF Writes
<1>4. /\ C.task = D.task /\ C.nDisp = D.nDisp
      /\ \A d \in DispatchIds :
            /\ C.disp[d].task = D.disp[d].task
            /\ C.disp[d].status = "none" <=> D.disp[d].status = "none"
            /\ D.disp[d].task # t => C.disp[d].status = D.disp[d].status
    BY <1>1, <1>2, CompleteActiveFacts
<1> HIDE DEF C
<1>5. Keeps(C, E)
    BY <1>3, SetTaskStatusKeeps
<1>6. E.disp = C.disp /\ E.task[t].status # "dispatched"
  <2>1. C.task[t] \in TaskRow /\ C.task \in [TaskIds -> TaskRow]
      BY <1>3 DEF Database
  <2>2. CASE TaskExists(C, t)
    <3> DEFINE B == [C EXCEPT !.task[t].status = "blocked"]
    <3>1. B.disp = C.disp /\ B.task = [C.task EXCEPT ![t] = [C.task[t] EXCEPT !.status = "blocked"]]
        BY <1>3 DEF Database
    <3>2. [C.task[t] EXCEPT !.status = "blocked"].status = "blocked"
        BY <2>1 DEF TaskRow
    <3>3. E = B
        BY <2>2 DEF SetTaskStatus
    <3> HIDE DEF B, E
    <3> QED BY <2>1, <3>1, <3>2, <3>3
  <2>3. CASE ~TaskExists(C, t)
      BY <2>3 DEF SetTaskStatus, TaskExists
  <2> QED BY <2>2, <2>3
<1> HIDE DEF E
<1>7. Keeps(D, E)
    BY <1>4, <1>5, <1>6 DEF Keeps
<1> QED BY <1>7 DEF createGate, E, C, G

LEMMA ResolveGateKeeps ==
    ASSUME NEW D \in Database, NEW g \in GateIds
    PROVE  Keeps(D, resolveGate(D, g))
<1> DEFINE G == [D EXCEPT !.gate[g].status = "resolved"]
<1>1. G.task = D.task /\ G.disp = D.disp /\ G.nDisp = D.nDisp
    BY DEF Database
<1>2. G \in Database
  <2>1. D.gate \in [GateIds -> GateRow]
      BY DEF Database
  <2>2. [D.gate[g] EXCEPT !.status = "resolved"] \in GateRow
      BY <2>1 DEF GateRow, GateStatuses
  <2>3. [D.gate EXCEPT ![g] = [D.gate[g] EXCEPT !.status = "resolved"]] \in [GateIds -> GateRow]
      BY <2>1, <2>2
  <2> QED BY <2>3, SetGates DEF Writes
<1> HIDE DEF G
<1>3. Keeps(D, G)
    BY <1>1, SameKeeps
<1>4. Keeps(G, SetTaskStatus(G, D.gate[g].task, "ready"))
    BY <1>2, SetTaskStatusKeeps
<1>5. Keeps(D, SetTaskStatus(G, D.gate[g].task, "ready"))
    BY <1>3, <1>4, KeepsTransitive
<1> QED BY <1>5 DEF resolveGate, G

-----------------------------------------------------------------------------
(* Lifecycle reconciliation.                                               *)

LEMMA ReconcileWorkerDoneKeeps ==
    ASSUME NEW D \in Database, NEW m \in MessageIds
    PROVE  Keeps(D, reconcileWorkerDoneMessage(D, m))
<1> DEFINE E == updateTaskStatus(D, D.msg[m].task, "completed", m)
<1>1. ASSUME NamesDispatchOfTask(D, D.msg[m])
      PROVE  Keeps(D, suppressEarlierHeartbeats(E, m))
  <2>1. D.msg[m].task \in TaskIds
      BY <1>1 DEF NamesDispatchOfTask, TaskExists
  <2>2. Keeps(D, E) /\ E \in Database
      BY <2>1, UpdateTaskStatusKeeps, UpdateTaskStatusWrites DEF TaskStatuses, Writes
  <2> HIDE DEF E
  <2>3. Keeps(E, suppressEarlierHeartbeats(E, m))
      BY <2>2, MessagesKeep DEF suppressEarlierHeartbeats
  <2> QED BY <2>2, <2>3, KeepsTransitive
<1>2. Keeps(D, D) /\ Keeps(D, convertLifecycleMessageToRejection(D, m))
    BY SameKeeps, MessagesKeep
<1> HIDE DEF E
<1> QED BY <1>1, <1>2 DEF reconcileWorkerDoneMessage, E

LEMMA ReconcileKeeps ==
    ASSUME NEW D \in Database, NEW m \in MessageIds
    PROVE  Keeps(D, reconcileLifecycleMessage(D, m))
<1>1. Keeps(D, D)
    BY SameKeeps
<1>2. Keeps(D, reconcileHeartbeatMessage(D, m))
    BY <1>1, MessagesKeep, RecordHeartbeatKeeps DEF reconcileHeartbeatMessage
<1> QED BY <1>1, <1>2, ReconcileWorkerDoneKeeps DEF reconcileLifecycleMessage

-----------------------------------------------------------------------------
(* Resets and dispatches.                                                  *)

\* What the theorem's inductive invariant says of the database.
Good(D) == Assigned(D) /\ Allocated(D)

LEMMA KeepsGood ==
    ASSUME NEW D, NEW E, Keeps(D, E), Good(D)
    PROVE  Good(E)
BY KeepsAssigned DEF Good

LEMMA NoTasksGood ==
    ASSUME NEW D, \A t \in TaskIds : D.task[t].status = "none",
           \A d \in DispatchIds : D.disp[d].status = "none"
    PROVE  Good(D)
BY DEF Good, Assigned, Allocated

LEMMA EmptyDbGood == Good(EmptyDb)
<1>1. \A t \in TaskIds : EmptyDb.task[t].status = "none"
    BY DEF EmptyDb
<1> QED BY <1>1, EmptyTables, NoTasksGood

LEMMA ResetTasksGood ==
    ASSUME NEW D \in Database
    PROVE  Good(resetTasks(D)) /\ Good(resetAll(D))
<1> DEFINE E == resetTasks(D)
<1>1. E.task = EmptyDb.task /\ E.disp = EmptyDb.disp
    BY DEF resetTasks, Database
<1>2. \A t \in TaskIds : EmptyDb.task[t].status = "none"
    BY DEF EmptyDb
<1>3. E \in Database
    BY ResetTasksWrites DEF Writes
<1> HIDE DEF E
<1>4. Good(E)
    BY <1>1, <1>2, EmptyTables, NoTasksGood
<1>5. Good(resetMessages(E))
    BY <1>3, <1>4, MessagesKeep, KeepsGood
<1> QED BY <1>4, <1>5 DEF resetAll, E

\* A new dispatch is the newest of its task, because ids grow.
LEMMA CreateDispatchGood ==
    ASSUME NEW D \in Database, NEW t \in TaskIds, NEW h, NEW p, NEW n,
           D.nDisp + 1 \in DispatchIds, Good(D)
    PROVE  Good(createDispatchContext(D, t, h, p, n))
<1> DEFINE k == D.nDisp + 1
           row == [status |-> "dispatched", task |-> t, handle |-> h, pane |-> p,
                   failures |-> n, beat |-> 0]
           E == createDispatchContext(D, t, h, p, n)
<1>1. /\ E.disp = [D.disp EXCEPT ![k] = row]
      /\ E.nDisp = k
      /\ E.task = [D.task EXCEPT ![t] = [D.task[t] EXCEPT !.status = "dispatched"]]
    BY DEF createDispatchContext, Database
<1>2. D.disp \in [DispatchIds -> DispatchRow] /\ D.task \in [TaskIds -> TaskRow] /\ D.nDisp \in Nat
    BY BoundsAssumption DEF Database
<1>3. row.status = "dispatched" /\ row.task = t
    OBVIOUS
<1>4. \A d \in DispatchIds : d \in Nat
    BY DEF DispatchIds
<1>5. k > D.nDisp /\ \A d \in DispatchIds : d > k => d > D.nDisp
    BY <1>2, <1>4
<1>6. \A d \in DispatchIds : D.disp[d].status # "none" => d <= D.nDisp
    BY <1>2, <1>4 DEF Good, Allocated
<1>7. \A d \in DispatchIds : d <= D.nDisp => d <= k /\ d # k
    BY <1>2, <1>4
<1> HIDE DEF E, row, k
<1>8. /\ E.disp[k] = row
      /\ \A d \in DispatchIds : d # k => E.disp[d] = D.disp[d]
    BY <1>1, <1>2 DEF k
<1>9. \A u \in TaskIds : u # t => E.task[u] = D.task[u]
    BY <1>1, <1>2
<1>10. Allocated(E)
  <2>1. ~(k > k)
      BY <1>2 DEF k
  <2> QED BY <1>1, <1>5, <1>8, <2>1 DEF Good, Allocated
<1>11. IsLatestDispatch(E, t, k) /\ E.disp[k].status = "dispatched"
  <2>1. k \in DispatchesOf(E, t) /\ E.disp[k].status = "dispatched"
      BY <1>3, <1>8 DEF DispatchesOf, k
  <2>2. \A d \in DispatchesOf(E, t) : d <= k
    <3>1. k <= k
        BY <1>2 DEF k
    <3> QED BY <1>6, <1>7, <1>8, <3>1 DEF DispatchesOf
  <2> QED BY <2>1, <2>2 DEF IsLatestDispatch
<1>12. ASSUME NEW u \in TaskIds, u # t, E.task[u].status = "dispatched"
       PROVE  \E d \in DispatchIds : IsLatestDispatch(E, u, d) /\ E.disp[d].status = "dispatched"
  <2>1. D.disp[k].status = "none"
      BY <1>5 DEF Good, Allocated, k
  <2>2. DispatchesOf(E, u) = DispatchesOf(D, u)
      BY <1>3, <1>8, <1>12, <2>1 DEF DispatchesOf
  <2>3. PICK d \in DispatchIds : IsLatestDispatch(D, u, d) /\ D.disp[d].status = "dispatched"
      BY <1>9, <1>12 DEF Good, Assigned
  <2>4. E.disp[d] = D.disp[d]
      BY <1>8, <2>1, <2>3
  <2> QED BY <2>2, <2>3, <2>4 DEF IsLatestDispatch
<1>13. Assigned(E)
  <2>1. k \in DispatchIds
      BY DEF k
  <2> QED BY <1>11, <1>12, <2>1 DEF Assigned
<1> QED BY <1>10, <1>13 DEF Good, E

-----------------------------------------------------------------------------
(* The actions.                                                            *)

\* Nobody claims a task by hand.  The handler would accept it, and the task
\* would then be dispatched to no one.
NoManualDispatch == "dispatched" \notin ManualStatuses

LEMMA DispatchesGood ==
    ASSUME TypeOK, NEW t, NEW h, NEW d, Dispatches(t, h, d), Good(db)
    PROVE  Good(db')
<1>1. t \in TaskIds /\ db.nDisp + 1 \in DispatchIds /\ db \in Database
    BY DEF Dispatches, CanDispatch, TaskExists, TypeOK
<1>2. PICK n : db' = createDispatchContext(db, t, h, PaneOf[h], n)
    BY DEF Dispatches
<1> QED BY <1>1, <1>2, CreateDispatchGood

LEMMA SendGood ==
    ASSUME TypeOK, NEW from \in Handles, NEW type \in MessageTypes,
           NEW t \in {0} \cup TaskIds, NEW d \in {0} \cup DispatchIds, Send(from, type, t, d),
           Good(db)
    PROVE  Good(db')
<1> DEFINE n == db.nMsg + 1
           D == insertMessage(db, NewMessage(from, type, t, d))
<1>1. db \in Database /\ db.nMsg < MaxMessages
    BY DEF TypeOK, Send
<1>2. n \in MessageIds
    BY <1>1, BoundsAssumption DEF Database, MessageIds
<1>3. D \in Database /\ Keeps(db, D)
    BY <1>1, NewMessageType, InsertMessageWrites, MessagesKeep DEF Writes
<1> HIDE DEF D, n
<1>4. Keeps(D, reconcileLifecycleMessage(D, n))
    BY <1>2, <1>3, ReconcileKeeps
<1>5. db' = reconcileLifecycleMessage(D, n)
    BY DEF Send, D, n
<1> QED BY <1>3, <1>4, <1>5, KeepsGood

LEMMA HandlersGood ==
    ASSUME TypeOK, NoManualDispatch, Good(db),
           \/ \E deps \in DepChoices : TaskCreate(deps)
           \/ \E t \in TaskIds, s \in ManualStatuses : TaskUpdate(t, s)
           \/ \E t \in TaskIds : GateCreate(t)
           \/ \E g \in GateIds : GateResolve(g)
           \/ \E scope \in ResetScopes : Reset(scope)
           \/ AgentSend
    PROVE  Good(db')
<1>0. db \in Database
    BY DEF TypeOK
<1>1. ASSUME NEW deps \in DepChoices, TaskCreate(deps) PROVE Good(db')
    BY <1>0, <1>1, CreateTaskKeeps, KeepsGood DEF TaskCreate
<1>2. ASSUME NEW t \in TaskIds, NEW s \in ManualStatuses, TaskUpdate(t, s) PROVE Good(db')
  <2>1. s \in TaskStatuses /\ s # "dispatched"
      BY EnvironmentAssumption DEF NoManualDispatch
  <2> QED BY <1>0, <1>2, <2>1, UpdateTaskStatusKeeps, KeepsGood DEF TaskUpdate
<1>3. ASSUME NEW t \in TaskIds, GateCreate(t) PROVE Good(db')
    BY <1>0, <1>3, CreateGateKeeps, KeepsGood DEF GateCreate
<1>4. ASSUME NEW g \in GateIds, GateResolve(g) PROVE Good(db')
    BY <1>0, <1>4, ResolveGateKeeps, KeepsGood DEF GateResolve
<1>5. ASSUME NEW scope \in ResetScopes, Reset(scope) PROVE Good(db')
  <2>1. scope \in {"tasks", "messages", "all"}
      BY EnvironmentAssumption
  <2>2. Good(resetMessages(db))
      BY <1>0, MessagesKeep, KeepsGood
  <2> QED BY <1>0, <1>5, <2>1, <2>2, ResetTasksGood DEF Reset
<1>6. ASSUME AgentSend PROVE Good(db')
  <2>1. PICK from \in Senders, type \in SentTypes :
           SendLifecycle(from, type) \/ SendAboutTask(from, type)
      BY <1>6 DEF AgentSend
  <2>2. from \in Handles /\ type \in MessageTypes
      BY EnvironmentAssumption
  <2>3. 1..db.nTask \subseteq TaskIds /\ 0..db.nTask \subseteq {0} \cup TaskIds
      BY <1>0, BoundsAssumption DEF Database, TaskIds
  <2>4. told \subseteq DispatchIds
      BY DEF TypeOK
  <2>5. \E t \in {0} \cup TaskIds, d \in {0} \cup DispatchIds : Send(from, type, t, d)
      BY <2>1, <2>3, <2>4 DEF SendLifecycle, SendAboutTask
  <2> QED BY <2>2, <2>5, SendGood
<1> QED BY <1>1, <1>2, <1>3, <1>4, <1>5, <1>6

LEMMA HandleMessageGood ==
    ASSUME TypeOK, Good(db), NEW m \in MessageIds, HandleMessage(m)
    PROVE  Good(db')
<1>1. db \in Database /\ db.msg[m].task \in {0} \cup TaskIds
    BY DEF TypeOK, Database, MessageRow
<1>2. CASE HandleLifecycle(m)
    BY <1>1, <1>2, ReconcileKeeps, KeepsGood DEF HandleLifecycle
<1>3. CASE HandleEscalation(m)
  <2> DEFINE t == db.msg[m].task
  <2>1. ASSUME NEW d \in DispatchIds, EscalationFails(t, d),
               db' = updateTaskStatus(failDispatch(db, d), t, "failed", m)
        PROVE  Good(db')
    <3>1. t \in TaskIds
        BY <2>1 DEF EscalationFails, TaskExists
    <3>2. failDispatch(db, d) \in Database /\ Good(failDispatch(db, d))
        BY <1>1, FailDispatchWrites, FailDispatchKeeps, KeepsGood DEF Writes
    <3> QED BY <2>1, <3>1, <3>2, UpdateTaskStatusKeeps, KeepsGood DEF TaskStatuses
  <2>2. ASSUME NEW d \in DispatchIds, db' = failDispatch(db, d) PROVE Good(db')
      BY <1>1, <2>2, FailDispatchKeeps, KeepsGood
  <2> QED BY <1>3, <2>1, <2>2 DEF HandleEscalation
<1>4. CASE HandleDecisionGate(m)
    BY <1>1, <1>4, CreateGateKeeps, KeepsGood DEF HandleDecisionGate
<1>5. CASE HandleOther(m)
    BY <1>5 DEF HandleOther
<1> QED BY <1>2, <1>3, <1>4, <1>5 DEF HandleMessage

LEMMA CoordinatorGood ==
    ASSUME TypeOK, Good(db), NEW r \in RunIds, CoordinatorStep(r)
    PROVE  Good(db')
<1>0. db \in Database
    BY DEF TypeOK
<1>1. CASE TickEnd(r)
  <2> DEFINE E == markAsRead(db, turn.batch)
  <2>1. E \in Database /\ Good(E)
      BY <1>0, MarkAsReadWrites, MessagesKeep, KeepsGood DEF Writes
  <2>2. db' = restorePendingGateTaskStatuses(E)
      BY <1>1 DEF TickEnd
  <2> HIDE DEF E
  <2> QED BY <2>1, <2>2, RestoreKeeps, KeepsGood
<1>2. CASE DispatchTask(r)
    BY <1>2, DispatchesGood DEF DispatchTask
<1>3. CASE Prompted(r)
    BY <1>0, <1>3, FailDispatchKeeps, KeepsGood DEF Prompted
<1>4. CASE Finish(r)
    BY <1>0, <1>4, RunsKeep, KeepsGood DEF Finish
<1>5. CASE \/ LoopTest(r) \/ ListTerminals(r) \/ CreateTerminal(r) \/ AssignNext(r)
           \/ CheckConvergence(r) \/ Wake(r)
  <2>1. db' = db
      BY <1>5 DEF LoopTest, ListTerminals, CreateTerminal, AssignNext, CheckConvergence, Wake
  <2> QED BY <2>1
<1> QED BY <1>1, <1>2, <1>3, <1>4, <1>5 DEF CoordinatorStep

LEMMA NextGood ==
    ASSUME TypeOK, NoManualDispatch, Good(db), Next
    PROVE  Good(db')
<1>0. db \in Database
    BY DEF TypeOK
<1>1. CASE CheckEnd \/ \E types \in CheckFilters : CheckBegin(types)
    BY <1>0, <1>1, MessagesKeep, KeepsGood DEF CheckBegin, CheckEnd
<1>2. CASE Run \/ RunStop
    BY <1>0, <1>2, RunsKeep, KeepsGood DEF Run, RunStop
<1>3. ASSUME NEW c \in Clients, DispatchCall(c) PROVE Good(db')
    BY <1>0, <1>3, DispatchesGood, FailDispatchKeeps, KeepsGood
       DEF DispatchCall, DispatchRequest, DispatchUninjected, DispatchChecked, DispatchPrompted
<1>4. ASSUME NEW h \in Handles, TerminalExit(h) PROVE Good(db')
  <2>1. \A d : failDispatch(db, d) \in Database /\ Good(failDispatch(db, d))
      BY <1>0, FailDispatchWrites, FailDispatchKeeps, KeepsGood DEF Writes
  <2>2. \A d, row : Good(insertMessage(failDispatch(db, d), row))
      BY <2>1, MessagesKeep, KeepsGood
  <2> QED BY <1>4, <2>1, <2>2 DEF TerminalExit
<1>5. CASE Crash
    BY <1>5 DEF Crash
<1> QED BY <1>1, <1>2, <1>3, <1>4, <1>5, HandlersGood, HandleMessageGood, CoordinatorGood DEF Next

LEMMA GoodIsDispatchedIsAssigned == Good(db) => DispatchedIsAssigned
BY DEF Good, Assigned, DispatchedIsAssigned

\* Unless somebody sets a task to dispatched by hand, a task that is shown as
\* dispatched has a newest dispatch that is running, for every number of tasks,
\* dispatches, coordinators and callers: no race between a late failure, a
\* retry, a gate, a reset, an exit and a completion strands a task.
THEOREM DispatchedHasDispatch == NoManualDispatch => (Spec => []DispatchedIsAssigned)
<1> SUFFICES ASSUME NoManualDispatch PROVE Spec => []DispatchedIsAssigned
    OBVIOUS
<1> DEFINE I == TypeOK /\ CallsInProgress /\ Good(db)
<1>1. Init => I
    BY InitTypes, EmptyDbGood DEF Init
<1>2. I /\ [Next]_vars => I'
  <2>1. ASSUME I, Next PROVE I'
      BY <2>1, NextKeepsTypes, NextGood
  <2>2. ASSUME I, UNCHANGED vars PROVE I'
      BY <2>2, StutterKeeps DEF vars
  <2> QED BY <2>1, <2>2
<1>3. I => DispatchedIsAssigned
    BY GoodIsDispatchedIsAssigned
<1> QED BY <1>1, <1>2, <1>3, PTL DEF Spec
=============================================================================
