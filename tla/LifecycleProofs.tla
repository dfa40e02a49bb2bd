-------------------------- MODULE LifecycleProofs --------------------------
(***************************************************************************)
(* Only the pane a dispatch was given to can complete it or keep it alive, *)
(* and no heartbeat older than the completion is still unread: for every   *)
(* value of the constants.                                                 *)
(***************************************************************************)
EXTENDS OrchestrationProofs

-----------------------------------------------------------------------------
(* What the writes do, row by row.                                         *)

LEMMA RowUpdates ==
    /\ \A row \in TaskRow : \A s : \A m :
          /\ [row EXCEPT !.status = s].status = s
          /\ [row EXCEPT !.status = s].deps = row.deps
          /\ [row EXCEPT !.status = s].result = row.result
          /\ [row EXCEPT !.status = s, !.result = m].status = s
          /\ [row EXCEPT !.status = s, !.result = m].deps = row.deps
          /\ [row EXCEPT !.status = s, !.result = m].result = m
    /\ \A row \in DispatchRow : \A s : \A n :
          /\ [row EXCEPT !.status = s].status = s
          /\ [row EXCEPT !.status = s].task = row.task
          /\ [row EXCEPT !.status = s].handle = row.handle
          /\ [row EXCEPT !.status = s].pane = row.pane
          /\ [row EXCEPT !.status = s].failures = row.failures
          /\ [row EXCEPT !.status = s].beat = row.beat
          /\ [row EXCEPT !.status = s, !.failures = n].status = s
          /\ [row EXCEPT !.status = s, !.failures = n].task = row.task
          /\ [row EXCEPT !.status = s, !.failures = n].handle = row.handle
          /\ [row EXCEPT !.status = s, !.failures = n].pane = row.pane
          /\ [row EXCEPT !.status = s, !.failures = n].failures = n
          /\ [row EXCEPT !.status = s, !.failures = n].beat = row.beat
BY DEF TaskRow, DispatchRow

\* The tables other than tasks and dispatches.
SameMail(D, E) == E.msg = D.msg /\ E.nMsg = D.nMsg
SameGates(D, E) == E.gate = D.gate /\ E.nGate = D.nGate
SameRuns(D, E) == E.run = D.run /\ E.nRun = D.nRun
SameIds(D, E) == E.nDisp = D.nDisp /\ E.nTask = D.nTask
SameRest(D, E) == SameMail(D, E) /\ SameGates(D, E) /\ SameRuns(D, E) /\ SameIds(D, E)

\* failDispatch writes one dispatch row and the row of its task.
LEMMA FailRows ==
    ASSUME NEW D \in Database, NEW d \in DispatchIds, D.disp[d].status # "none"
    PROVE  LET E     == failDispatch(D, d)
               n     == D.disp[d].failures + 1
               trips == n >= 3
           IN  /\ SameRest(D, E)
               /\ E.disp[d].status = IF trips THEN "circuit_broken" ELSE "failed"
               /\ E.disp[d].failures = n
               /\ E.disp[d].task = D.disp[d].task
               /\ E.disp[d].handle = D.disp[d].handle
               /\ E.disp[d].pane = D.disp[d].pane
               /\ E.disp[d].beat = D.disp[d].beat
               /\ \A e \in DispatchIds : e # d => E.disp[e] = D.disp[e]
               /\ \A t \in TaskIds :
                     /\ E.task[t].deps = D.task[t].deps
                     /\ E.task[t].result = D.task[t].result
                     /\ t # D.disp[d].task => E.task[t] = D.task[t]
                     /\ t = D.disp[d].task => E.task[t].status =
                           IF D.task[t].status = "none" THEN "none"
                           ELSE IF trips THEN "failed" ELSE "ready"
<1> DEFINE row == D.disp[d]
           n == row.failures + 1
           trips == n >= 3
           s == IF trips THEN "circuit_broken" ELSE "failed"
           u == IF D.task[row.task].status = "none" THEN "none"
                ELSE IF trips THEN "failed" ELSE "ready"
           newRow == [row EXCEPT !.status = s, !.failures = n]
           newTask == [D.task[row.task] EXCEPT !.status = u]
           E == failDispatch(D, d)
<1>1. D.disp \in [DispatchIds -> DispatchRow] /\ D.task \in [TaskIds -> TaskRow]
    BY DEF Database
<1>2. /\ E.disp = [D.disp EXCEPT ![d] = newRow]
      /\ E.task = [D.task EXCEPT ![row.task] = newTask]
      /\ SameRest(D, E)
    BY DEF failDispatch, Database, SameRest, SameMail, SameGates, SameRuns, SameIds
<1>3. row \in DispatchRow
    BY <1>1
<1> HIDE DEF E
<1>4. /\ E.disp[d] = newRow
      /\ \A e \in DispatchIds : e # d => E.disp[e] = D.disp[e]
  <2> HIDE DEF newRow
  <2> QED BY <1>1, <1>2
<1>5. /\ newRow.status = s /\ newRow.failures = n /\ newRow.task = row.task
      /\ newRow.handle = row.handle /\ newRow.pane = row.pane /\ newRow.beat = row.beat
  <2> HIDE DEF row, s, n
  <2> QED BY <1>3, RowUpdates
<1>6. ASSUME NEW t \in TaskIds, t = row.task
      PROVE  E.task[t].status = u /\ E.task[t].deps = D.task[t].deps
             /\ E.task[t].result = D.task[t].result
  <2>1. E.task[t] = newTask /\ D.task[t] \in TaskRow
    <3> HIDE DEF newTask, row
    <3> QED BY <1>1, <1>2, <1>6
  <2>2. newTask = [D.task[t] EXCEPT !.status = u]
      BY <1>6
  <2> HIDE DEF u, row, newTask
  <2> QED BY <2>1, <2>2, RowUpdates
<1>7. ASSUME NEW t \in TaskIds, t # row.task PROVE E.task[t] = D.task[t]
  <2> HIDE DEF newTask, row
  <2> QED BY <1>1, <1>2, <1>7
<1> HIDE DEF newRow, newTask
<1> QED BY <1>2, <1>4, <1>5, <1>6, <1>7 DEF E

\* completeActiveDispatchForTask writes the status of one dispatch row.
LEMMA CompleteActiveRows ==
    ASSUME NEW D \in Database, NEW t
    PROVE  LET E == completeActiveDispatchForTask(D, t)
           IN  /\ SameRest(D, E) /\ E.task = D.task
               /\ \A d \in DispatchIds :
                     /\ E.disp[d].task = D.disp[d].task
                     /\ E.disp[d].handle = D.disp[d].handle
                     /\ E.disp[d].pane = D.disp[d].pane
                     /\ E.disp[d].failures = D.disp[d].failures
                     /\ E.disp[d].beat = D.disp[d].beat
                     /\ E.disp[d].status = IF IsLatestActiveDispatch(D, t, d)
                                           THEN "completed" ELSE D.disp[d].status
<1> DEFINE E == completeActiveDispatchForTask(D, t)
           f == [d \in DispatchIds |->
                    IF IsLatestActiveDispatch(D, t, d)
                    THEN [D.disp[d] EXCEPT !.status = "completed"]
                    ELSE D.disp[d]]
<1>1. E.task = D.task /\ SameRest(D, E) /\ E.disp = f
    BY DEF completeActiveDispatchForTask, Database, SameRest, SameMail, SameGates, SameRuns, SameIds
<1>2. \A d \in DispatchIds : D.disp[d] \in DispatchRow
    BY DEF Database
<1>3. \A d \in DispatchIds :
         /\ f[d].task = D.disp[d].task /\ f[d].handle = D.disp[d].handle
         /\ f[d].pane = D.disp[d].pane /\ f[d].failures = D.disp[d].failures
         /\ f[d].beat = D.disp[d].beat
         /\ f[d].status = IF IsLatestActiveDispatch(D, t, d)
                          THEN "completed" ELSE D.disp[d].status
    BY <1>2, RowUpdates
<1> HIDE DEF f, E
<1> QED BY <1>1, <1>3 DEF E

\* The first statement of updateTaskStatus.
WriteTask(D, t, s, m) ==
    [D EXCEPT !.task[t].status = s, !.task[t].result = IF m = 0 THEN @ ELSE m]

LEMMA WriteTaskRows ==
    ASSUME NEW D \in Database, NEW t \in TaskIds, NEW s \in TaskStatuses,
           NEW m \in {0} \cup MessageIds
    PROVE  LET U == WriteTask(D, t, s, m)
           IN  /\ U \in Database /\ SameRest(D, U) /\ U.disp = D.disp
               /\ U.task[t].status = s /\ U.task[t].deps = D.task[t].deps
               /\ U.task[t].result = IF m = 0 THEN D.task[t].result ELSE m
               /\ \A u \in TaskIds : u # t => U.task[u] = D.task[u]
<1> DEFINE U == WriteTask(D, t, s, m)
           r == IF m = 0 THEN D.task[t].result ELSE m
           row == [D.task[t] EXCEPT !.status = s, !.result = r]
<1>1. D.task \in [TaskIds -> TaskRow] /\ D.task[t] \in TaskRow
    BY DEF Database
<1>2. r \in {0} \cup MessageIds
    BY <1>1 DEF TaskRow
<1>3. row \in TaskRow
    BY <1>1, <1>2, TaskRowUpdate
<1>4. U = [D EXCEPT !.task = [D.task EXCEPT ![t] = row]]
    BY <1>1 DEF Database, TaskRow, WriteTask
<1>5. row.status = s /\ row.deps = D.task[t].deps /\ row.result = r
  <2> HIDE DEF r
  <2> QED BY <1>1, RowUpdates
<1> HIDE DEF U, row, r
<1>6. U.task = [D.task EXCEPT ![t] = row] /\ U.disp = D.disp /\ SameRest(D, U)
    BY <1>4 DEF Database, SameRest, SameMail, SameGates, SameRuns, SameIds
<1>7. [D.task EXCEPT ![t] = row] \in [TaskIds -> TaskRow]
    BY <1>1, <1>3
<1>8. U \in Database
    BY <1>4, <1>7, SetTasks DEF Writes
<1> QED BY <1>1, <1>5, <1>6, <1>8 DEF U, r

\* updateTaskStatus to anything but completed.
LEMMA UpdateRows ==
    ASSUME NEW D \in Database, NEW t \in TaskIds, NEW s \in TaskStatuses,
           NEW m \in {0} \cup MessageIds, s # "completed"
    PROVE  LET U == updateTaskStatus(D, t, s, m)
           IN  /\ SameRest(D, U) /\ U.disp = D.disp
               /\ U.task[t].status = s /\ U.task[t].deps = D.task[t].deps
               /\ U.task[t].result = IF m = 0 THEN D.task[t].result ELSE m
               /\ \A u \in TaskIds : u # t => U.task[u] = D.task[u]
<1> DEFINE U == WriteTask(D, t, s, m)
<1>1. updateTaskStatus(D, t, s, m) = U
    BY DEF updateTaskStatus, WriteTask
<1>2. /\ SameRest(D, U) /\ U.disp = D.disp
      /\ U.task[t].status = s /\ U.task[t].deps = D.task[t].deps
      /\ U.task[t].result = IF m = 0 THEN D.task[t].result ELSE m
      /\ \A u \in TaskIds : u # t => U.task[u] = D.task[u]
    BY WriteTaskRows
<1> HIDE DEF U
<1> QED BY <1>1, <1>2

\* updateTaskStatus to completed: the task's row, the tasks that only waited
\* for it and the newest active dispatch.
LEMMA CompleteRows ==
    ASSUME NEW D \in Database, NEW t \in TaskIds, NEW m \in {0} \cup MessageIds
    PROVE  LET E == updateTaskStatus(D, t, "completed", m)
           IN  /\ E \in Database /\ SameRest(D, E)
               /\ E.task[t].status = "completed" /\ E.task[t].deps = D.task[t].deps
               /\ E.task[t].result = IF m = 0 THEN D.task[t].result ELSE m
               /\ \A u \in TaskIds : u # t =>
                     /\ E.task[u].deps = D.task[u].deps
                     /\ E.task[u].result = D.task[u].result
                     /\ E.task[u].status =
                           IF /\ D.task[u].status = "pending" /\ t \in D.task[u].deps
                              /\ \A v \in D.task[u].deps :
                                    v = t \/ D.task[v].status = "completed"
                           THEN "ready" ELSE D.task[u].status
               /\ \A d \in DispatchIds :
                     /\ E.disp[d].task = D.disp[d].task
                     /\ E.disp[d].handle = D.disp[d].handle
                     /\ E.disp[d].pane = D.disp[d].pane
                     /\ E.disp[d].failures = D.disp[d].failures
                     /\ E.disp[d].beat = D.disp[d].beat
                     /\ E.disp[d].status = IF IsLatestActiveDispatch(D, t, d)
                                           THEN "completed" ELSE D.disp[d].status
<1> DEFINE U == WriteTask(D, t, "completed", m)
<1>0. "completed" \in TaskStatuses
    BY DEF TaskStatuses
<1>1. /\ U \in Database /\ SameRest(D, U) /\ U.disp = D.disp
      /\ U.task[t].status = "completed" /\ U.task[t].deps = D.task[t].deps
      /\ U.task[t].result = IF m = 0 THEN D.task[t].result ELSE m
      /\ \A u \in TaskIds : u # t => U.task[u] = D.task[u]
  <2>1. \A s \in TaskStatuses :
           LET V == WriteTask(D, t, s, m)
           IN  /\ V \in Database /\ SameRest(D, V) /\ V.disp = D.disp
               /\ V.task[t].status = s /\ V.task[t].deps = D.task[t].deps
               /\ V.task[t].result = IF m = 0 THEN D.task[t].result ELSE m
               /\ \A u \in TaskIds : u # t => V.task[u] = D.task[u]
      BY WriteTaskRows
  <2> QED BY <1>0, <2>1
<1> HIDE DEF U
<1> DEFINE P == promoteReadyTasks(U, t)
           E == completeActiveDispatchForTask(P, t)
           f == [u \in TaskIds |->
                    IF /\ U.task[u].status = "pending"
                       /\ t \in U.task[u].deps
                       /\ \A d \in U.task[u].deps : U.task[d].status = "completed"
                    THEN [U.task[u] EXCEPT !.status = "ready"]
                    ELSE U.task[u]]
<1>2. \A u \in TaskIds : U.task[u] \in TaskRow /\ U.task[u].deps \subseteq TaskIds
    BY <1>1 DEF Database, TaskRow
<1>3. P \in Database /\ SameRest(U, P) /\ P.disp = U.disp /\ P.task = f
  <2>1. P \in Database
      BY <1>1, PromoteWrites DEF Writes
  <2>2. P = [U EXCEPT !.task = f]
      BY DEF promoteReadyTasks
  <2> HIDE DEF f, P
  <2> QED BY <1>1, <2>1, <2>2 DEF Database, SameRest, SameMail, SameGates, SameRuns, SameIds
<1>4. \A u \in TaskIds :
         /\ f[u].deps = U.task[u].deps /\ f[u].result = U.task[u].result
         /\ f[u].status = IF /\ U.task[u].status = "pending"
                             /\ t \in U.task[u].deps
                             /\ \A d \in U.task[u].deps : U.task[d].status = "completed"
                          THEN "ready" ELSE U.task[u].status
    BY <1>2, RowUpdates
<1> HIDE DEF P, f
<1>5. /\ E \in Database /\ SameRest(P, E) /\ E.task = P.task
      /\ \A d \in DispatchIds :
            /\ E.disp[d].task = P.disp[d].task
            /\ E.disp[d].handle = P.disp[d].handle
            /\ E.disp[d].pane = P.disp[d].pane
            /\ E.disp[d].failures = P.disp[d].failures
            /\ E.disp[d].beat = P.disp[d].beat
            /\ E.disp[d].status = IF IsLatestActiveDispatch(P, t, d)
                                  THEN "completed" ELSE P.disp[d].status
    BY <1>3, CompleteActiveRows, CompleteActiveWrites DEF Writes
<1>6. \A d \in DispatchIds : IsLatestActiveDispatch(P, t, d) <=> IsLatestActiveDispatch(D, t, d)
    BY <1>1, <1>3 DEF IsLatestActiveDispatch, DispatchesOf, ActiveDispatches
<1>7. SameRest(D, E)
    BY <1>1, <1>3, <1>5 DEF SameRest, SameMail, SameGates, SameRuns, SameIds
<1>8. \A u \in TaskIds : \A v \in U.task[u].deps :
         U.task[v].status = "completed" <=> v = t \/ D.task[v].status = "completed"
    BY <1>1, <1>2
<1>9. \A u \in TaskIds : u # t =>
         /\ E.task[u].deps = D.task[u].deps
         /\ E.task[u].result = D.task[u].result
         /\ E.task[u].status =
               IF /\ D.task[u].status = "pending" /\ t \in D.task[u].deps
                  /\ \A v \in D.task[u].deps : v = t \/ D.task[v].status = "completed"
               THEN "ready" ELSE D.task[u].status
    BY <1>1, <1>3, <1>4, <1>5, <1>8
<1>10. E.task[t].status = "completed" /\ E.task[t].deps = D.task[t].deps
       /\ E.task[t].result = IF m = 0 THEN D.task[t].result ELSE m
    BY <1>1, <1>3, <1>4, <1>5
<1>11. updateTaskStatus(D, t, "completed", m) = E
    BY DEF updateTaskStatus, E, P, U, WriteTask
<1> HIDE DEF E
<1> QED BY <1>1, <1>3, <1>5, <1>6, <1>7, <1>9, <1>10, <1>11

\* createDispatchContext writes one new dispatch row and its task's status.
LEMMA DispatchRows ==
    ASSUME NEW D \in Database, NEW t \in TaskIds, NEW h, NEW p, NEW n,
           D.nDisp + 1 \in DispatchIds
    PROVE  LET E == createDispatchContext(D, t, h, p, n)
               k == D.nDisp + 1
           IN  /\ SameMail(D, E) /\ SameGates(D, E) /\ SameRuns(D, E)
               /\ E.nDisp = k /\ E.nTask = D.nTask
               /\ E.disp[k] = [status |-> "dispatched", task |-> t, handle |-> h,
                               pane |-> p, failures |-> n, beat |-> 0]
               /\ \A d \in DispatchIds : d # k => E.disp[d] = D.disp[d]
               /\ E.task[t].status = "dispatched"
               /\ E.task[t].deps = D.task[t].deps /\ E.task[t].result = D.task[t].result
               /\ \A u \in TaskIds : u # t => E.task[u] = D.task[u]
<1> DEFINE k == D.nDisp + 1
           row == [status |-> "dispatched", task |-> t, handle |-> h,
                   pane |-> p, failures |-> n, beat |-> 0]
           E == createDispatchContext(D, t, h, p, n)
           newTask == [D.task[t] EXCEPT !.status = "dispatched"]
<1>1. /\ E.disp = [D.disp EXCEPT ![k] = row] /\ E.nDisp = k /\ E.nTask = D.nTask
      /\ E.task = [D.task EXCEPT ![t] = newTask]
      /\ SameMail(D, E) /\ SameGates(D, E) /\ SameRuns(D, E)
    BY DEF createDispatchContext, Database, SameMail, SameGates, SameRuns
<1>2. D.disp \in [DispatchIds -> DispatchRow] /\ D.task \in [TaskIds -> TaskRow]
    BY DEF Database
<1>3. newTask.status = "dispatched" /\ newTask.deps = D.task[t].deps
      /\ newTask.result = D.task[t].result
    BY <1>2, RowUpdates
<1> HIDE DEF E, row, newTask, k
<1>4. E.disp[k] = row /\ \A d \in DispatchIds : d # k => E.disp[d] = D.disp[d]
    BY <1>1, <1>2 DEF k
<1>5. E.task[t] = newTask /\ \A u \in TaskIds : u # t => E.task[u] = D.task[u]
    BY <1>1, <1>2
<1> QED BY <1>1, <1>3, <1>4, <1>5 DEF E, k, row

-----------------------------------------------------------------------------
(* The inductive invariant.                                                *)

\* What reconciliation asks of the sender of a lifecycle message.
Authorised(D, msg) ==
    /\ DispatchExists(D, msg.disp)
    /\ D.disp[msg.disp].task = msg.task
    /\ hasLifecycleAuthority(D.disp[msg.disp], msg)

\* No heartbeat that a completion of task t made irrelevant is unread.
Suppressed(D, t) ==
    LET m == D.task[t].result
    IN  m # 0 /\ D.msg[m].type = "worker_done" =>
           \A k \in MessageIds :
              D.msg[k].stored /\ ~D.msg[k].read /\ k < m /\ D.msg[k].type = "heartbeat"
                 => D.msg[k].disp # D.msg[m].disp

\* Row ids are handed out in order, and results and mail are older than the
\* next message.
Mailed(D) ==
    /\ Allocated(D)
    /\ \A m \in MessageIds : D.msg[m].stored => m <= D.nMsg
    /\ \A t \in TaskIds : D.task[t].result <= D.nMsg
    /\ \A t \in TaskIds : Suppressed(D, t)

\* The completion of task t is the work of a message that had the authority.
Signed(D, t) ==
    D.task[t].status = "completed" =>
        LET m == D.task[t].result
        IN  /\ m # 0
            /\ D.msg[m].type = "worker_done" /\ ~D.msg[m].rejected
            /\ D.msg[m].task = t
            /\ Authorised(D, D.msg[m])

\* So is the heartbeat of dispatch d.
Alive(D, d) ==
    D.disp[d].beat # 0 =>
        LET m == D.disp[d].beat
        IN  /\ m <= D.nMsg
            /\ D.msg[m].type = "heartbeat" /\ D.msg[m].disp = d
            /\ hasLifecycleAuthority(D.disp[d], D.msg[m])

Authentic(D) ==
    /\ \A t \in TaskIds : Signed(D, t)
    /\ \A d \in DispatchIds : Alive(D, d)

-----------------------------------------------------------------------------
(* The writes that disturb neither.                                        *)

\* What becomes of a message row.  A worker_done is only marked as rejected
\* when its sender has no authority.
Kept(D, E, m) ==
    /\ E.msg[m].from = D.msg[m].from
    /\ E.msg[m].pane = D.msg[m].pane
    /\ E.msg[m].type = D.msg[m].type
    /\ E.msg[m].task = D.msg[m].task
    /\ E.msg[m].disp = D.msg[m].disp
    /\ D.msg[m].read => E.msg[m].read
    /\ E.msg[m].rejected => \/ D.msg[m].rejected
                            \/ D.msg[m].type # "worker_done"
                            \/ ~Authorised(D, D.msg[m])

\* Dispatches stay and keep their assignee, messages stay what they are.
Carries(D, E) ==
    /\ E.nDisp >= D.nDisp /\ E.nMsg >= D.nMsg
    /\ \A d \in DispatchIds :
          /\ D.disp[d].status # "none" =>
                /\ E.disp[d].status # "none"
                /\ E.disp[d].task = D.disp[d].task
                /\ E.disp[d].handle = D.disp[d].handle
                /\ E.disp[d].pane = D.disp[d].pane
          /\ E.disp[d].status # "none" => D.disp[d].status # "none" \/ d <= E.nDisp
    /\ \A m \in MessageIds :
          /\ E.msg[m].stored => D.msg[m].stored \/ m <= E.nMsg
          /\ m <= D.nMsg => (E.msg[m].stored => D.msg[m].stored) /\ Kept(D, E, m)

\* A result that is written is not a worker_done's.
ResultKept(D, E, t) ==
    \/ E.task[t].result = D.task[t].result
    \/ E.task[t].result = 0
    \/ /\ E.task[t].result <= E.nMsg
       /\ E.msg[E.task[t].result].type # "worker_done"

CompletionKept(D, E, t) ==
    E.task[t].status = "completed" =>
        D.task[t].status = "completed" /\ E.task[t].result = D.task[t].result

BeatKept(D, E, d) ==
    E.disp[d].beat # 0 => /\ E.disp[d].beat = D.disp[d].beat
                          /\ E.disp[d].handle = D.disp[d].handle
                          /\ E.disp[d].pane = D.disp[d].pane

\* Neither mail nor results are disturbed.
Steady(D, E) == Carries(D, E) /\ \A t \in TaskIds : ResultKept(D, E, t)

\* Nor are completions and heartbeats.
Calm(D, E) ==
    /\ Steady(D, E)
    /\ \A t \in TaskIds : CompletionKept(D, E, t)
    /\ \A d \in DispatchIds : BeatKept(D, E, d)

LEMMA Numbers ==
    ASSUME NEW D \in Database
    PROVE  /\ D.nDisp \in Nat /\ D.nMsg \in Nat /\ D.nTask \in Nat
           /\ \A t \in TaskIds : D.task[t].result \in {0} \cup MessageIds
           /\ \A d \in DispatchIds : D.disp[d].beat \in {0} \cup MessageIds
           /\ \A m \in MessageIds : D.msg[m].disp \in {0} \cup DispatchIds
           /\ \A m \in MessageIds : m \in Nat /\ m # 0
           /\ \A d \in DispatchIds : d \in Nat /\ d # 0
           /\ \A t \in TaskIds : t \in Nat /\ t # 0
<1>1. /\ D.nDisp \in Nat /\ D.nMsg \in Nat /\ D.nTask \in Nat
    BY BoundsAssumption DEF Database
<1>2. \A t \in TaskIds : D.task[t].result \in {0} \cup MessageIds
    BY DEF Database, TaskRow
<1>3. \A d \in DispatchIds : D.disp[d].beat \in {0} \cup MessageIds
    BY DEF Database, DispatchRow
<1>4. \A m \in MessageIds : D.msg[m].disp \in {0} \cup DispatchIds
    BY DEF Database, MessageRow
<1>5. /\ \A m \in MessageIds : m \in Nat /\ m # 0
      /\ \A d \in DispatchIds : d \in Nat /\ d # 0
      /\ \A t \in TaskIds : t \in Nat /\ t # 0
    BY BoundsAssumption DEF MessageIds, DispatchIds, TaskIds
<1> QED BY <1>1, <1>2, <1>3, <1>4, <1>5

\* Authority outlives a write that carries rows over.
LEMMA AuthorityCarries ==
    ASSUME NEW D, NEW E, Carries(D, E), NEW m \in MessageIds, m <= D.nMsg,
           Authorised(D, D.msg[m])
    PROVE  Authorised(E, E.msg[m])
<1>1. /\ E.msg[m].disp = D.msg[m].disp /\ E.msg[m].task = D.msg[m].task
      /\ E.msg[m].pane = D.msg[m].pane /\ E.msg[m].from = D.msg[m].from
    BY DEF Carries, Kept
<1>2. D.msg[m].disp \in DispatchIds /\ D.disp[D.msg[m].disp].status # "none"
    BY DEF Authorised, DispatchExists
<1>3. /\ E.disp[D.msg[m].disp].status # "none"
      /\ E.disp[D.msg[m].disp].task = D.disp[D.msg[m].disp].task
      /\ E.disp[D.msg[m].disp].handle = D.disp[D.msg[m].disp].handle
      /\ E.disp[D.msg[m].disp].pane = D.disp[D.msg[m].disp].pane
    BY <1>2 DEF Carries
<1> QED BY <1>1, <1>2, <1>3 DEF Authorised, DispatchExists, hasLifecycleAuthority

LEMMA CarriesTransitive ==
    ASSUME NEW D \in Database, NEW E \in Database, NEW F \in Database,
           Carries(D, E), Carries(E, F)
    PROVE  Carries(D, F)
<1>1. /\ D.nDisp \in Nat /\ D.nMsg \in Nat /\ E.nDisp \in Nat /\ E.nMsg \in Nat
      /\ F.nDisp \in Nat /\ F.nMsg \in Nat
      /\ \A m \in MessageIds : m \in Nat
      /\ \A d \in DispatchIds : d \in Nat
    BY Numbers
<1>2. F.nDisp >= D.nDisp /\ F.nMsg >= D.nMsg
    BY <1>1 DEF Carries
<1>3. ASSUME NEW d \in DispatchIds
      PROVE  /\ D.disp[d].status # "none" =>
                   /\ F.disp[d].status # "none"
                   /\ F.disp[d].task = D.disp[d].task
                   /\ F.disp[d].handle = D.disp[d].handle
                   /\ F.disp[d].pane = D.disp[d].pane
             /\ F.disp[d].status # "none" => D.disp[d].status # "none" \/ d <= F.nDisp
    BY <1>1 DEF Carries
<1>4. ASSUME NEW m \in MessageIds
      PROVE  /\ F.msg[m].stored => D.msg[m].stored \/ m <= F.nMsg
             /\ m <= D.nMsg => (F.msg[m].stored => D.msg[m].stored) /\ Kept(D, F, m)
  <2>1. F.msg[m].stored => D.msg[m].stored \/ m <= F.nMsg
      BY <1>1 DEF Carries
  <2>2. ASSUME m <= D.nMsg
        PROVE  (F.msg[m].stored => D.msg[m].stored) /\ Kept(D, F, m)
    <3>1. m <= E.nMsg
        BY <1>1, <2>2 DEF Carries
    <3>2. /\ E.msg[m].stored => D.msg[m].stored
          /\ F.msg[m].stored => E.msg[m].stored
          /\ Kept(D, E, m) /\ Kept(E, F, m)
        BY <2>2, <3>1 DEF Carries
    <3>3. ~Authorised(E, E.msg[m]) => ~Authorised(D, D.msg[m])
        BY <2>2, AuthorityCarries
    <3> QED BY <3>2, <3>3 DEF Kept
  <2> QED BY <2>1, <2>2
<1> QED BY <1>2, <1>3, <1>4 DEF Carries

LEMMA SteadyTransitive ==
    ASSUME NEW D \in Database, NEW E \in Database, NEW F \in Database,
           Steady(D, E), Steady(E, F)
    PROVE  Steady(D, F)
<1>1. Carries(D, F)
    BY CarriesTransitive DEF Steady
<1>2. ASSUME NEW t \in TaskIds PROVE ResultKept(D, F, t)
  <2>1. ResultKept(D, E, t) /\ ResultKept(E, F, t)
      BY DEF Steady
  <2>2. CASE F.task[t].result = E.task[t].result /\ E.task[t].result # D.task[t].result
             /\ E.task[t].result # 0
    <3> DEFINE m == E.task[t].result
    <3>1. m <= E.nMsg /\ E.msg[m].type # "worker_done" /\ m \in MessageIds
        BY <2>1, <2>2, Numbers DEF ResultKept
    <3>2. F.msg[m].type = E.msg[m].type /\ E.nMsg <= F.nMsg
        BY <3>1, Numbers DEF Steady, Carries, Kept
    <3>3. m <= F.nMsg
        BY <3>1, <3>2, Numbers
    <3> QED BY <2>2, <3>1, <3>2, <3>3 DEF ResultKept
  <2> QED BY <2>1, <2>2 DEF ResultKept
<1> QED BY <1>1, <1>2 DEF Steady

LEMMA CalmTransitive ==
    ASSUME NEW D \in Database, NEW E \in Database, NEW F \in Database,
           Calm(D, E), Calm(E, F)
    PROVE  Calm(D, F)
<1>1. Steady(D, F)
    BY SteadyTransitive DEF Calm
<1>2. \A t \in TaskIds : CompletionKept(D, F, t)
    BY DEF Calm, CompletionKept
<1>3. \A d \in DispatchIds : BeatKept(D, F, d)
    BY DEF Calm, BeatKept
<1> QED BY <1>1, <1>2, <1>3 DEF Calm

LEMMA CarriedIds ==
    ASSUME NEW D \in Database, NEW E \in Database, Carries(D, E), Mailed(D)
    PROVE  Allocated(E) /\ \A m \in MessageIds : E.msg[m].stored => m <= E.nMsg
<1>0. /\ D.nDisp \in Nat /\ D.nMsg \in Nat /\ E.nDisp \in Nat /\ E.nMsg \in Nat
      /\ \A m \in MessageIds : m \in Nat
      /\ \A d \in DispatchIds : d \in Nat
      /\ D.nMsg <= E.nMsg /\ D.nDisp <= E.nDisp
    BY Numbers DEF Carries
<1>1. Allocated(E)
    BY <1>0 DEF Carries, Mailed, Allocated
<1>2. ASSUME NEW m \in MessageIds, E.msg[m].stored PROVE m <= E.nMsg
  <2>1. D.msg[m].stored \/ m <= E.nMsg
      BY <1>2 DEF Carries
  <2>2. D.msg[m].stored => m <= D.nMsg
      BY DEF Mailed
  <2> QED BY <1>0, <2>1, <2>2
<1> QED BY <1>1, <1>2

LEMMA SuppressedKept ==
    ASSUME NEW D \in Database, NEW E \in Database, Carries(D, E), Mailed(D),
           NEW t \in TaskIds, ResultKept(D, E, t)
    PROVE  E.task[t].result <= E.nMsg /\ Suppressed(E, t)
<1>0. /\ D.nMsg \in Nat /\ E.nMsg \in Nat /\ D.nMsg <= E.nMsg
      /\ \A m \in MessageIds : m \in Nat
    BY Numbers DEF Carries
<1>1. E.task[t].result <= E.nMsg
  <2>1. D.task[t].result <= D.nMsg /\ D.task[t].result \in {0} \cup MessageIds
      BY Numbers DEF Mailed
  <2>2. D.task[t].result \in Nat
      BY <1>0, <2>1
  <2> QED BY <1>0, <2>1, <2>2 DEF ResultKept
<1>2. ASSUME NEW k \in MessageIds,
             E.task[t].result # 0,
             E.msg[E.task[t].result].type = "worker_done",
             E.msg[k].stored, ~E.msg[k].read, k < E.task[t].result,
             E.msg[k].type = "heartbeat"
      PROVE  E.msg[k].disp # E.msg[E.task[t].result].disp
  <2> DEFINE m == E.task[t].result
  <2>1. m = D.task[t].result /\ m \in MessageIds /\ m <= D.nMsg
    <3>1. m \in MessageIds /\ m = D.task[t].result
        BY <1>2, Numbers DEF ResultKept
    <3> QED BY <3>1 DEF Mailed
  <2> HIDE DEF m
  <2>2. k <= D.nMsg
      BY <1>0, <1>2, <2>1 DEF m
  <2>3. Kept(D, E, k) /\ Kept(D, E, m) /\ D.msg[k].stored
      BY <1>2, <2>1, <2>2 DEF Carries
  <2>4. D.msg[k].disp # D.msg[m].disp
    <3>1. /\ D.task[t].result = m /\ D.msg[m].type = "worker_done"
          /\ ~D.msg[k].read /\ D.msg[k].type = "heartbeat" /\ k < m
        BY <1>2, <2>1, <2>3 DEF Kept, m
    <3>2. m # 0
        BY <2>1, Numbers
    <3> QED BY <2>3, <3>1, <3>2 DEF Mailed, Suppressed
  <2> QED BY <2>3, <2>4 DEF Kept, m
<1> QED BY <1>1, <1>2 DEF Suppressed

LEMMA SteadyMailed ==
    ASSUME NEW D \in Database, NEW E \in Database, Steady(D, E), Mailed(D)
    PROVE  Mailed(E)
<1>1. Allocated(E) /\ \A m \in MessageIds : E.msg[m].stored => m <= E.nMsg
    BY CarriedIds DEF Steady
<1>2. \A t \in TaskIds : E.task[t].result <= E.nMsg /\ Suppressed(E, t)
    BY SuppressedKept DEF Steady
<1> QED BY <1>1, <1>2 DEF Mailed

LEMMA SignedKept ==
    ASSUME NEW D \in Database, NEW E, Carries(D, E), Mailed(D),
           NEW t \in TaskIds, CompletionKept(D, E, t), Signed(D, t)
    PROVE  Signed(E, t)
<1> SUFFICES ASSUME E.task[t].status = "completed" PROVE Signed(E, t)
    BY DEF Signed
<1> DEFINE m == D.task[t].result
<1>1. D.task[t].status = "completed" /\ E.task[t].result = m
    BY DEF CompletionKept
<1>2. /\ m # 0 /\ D.msg[m].type = "worker_done" /\ ~D.msg[m].rejected
      /\ D.msg[m].task = t /\ Authorised(D, D.msg[m])
    BY <1>1 DEF Signed
<1>3. m \in MessageIds /\ m <= D.nMsg
    BY <1>2, Numbers DEF Mailed
<1> HIDE DEF m
<1>4. Kept(D, E, m)
    BY <1>3 DEF Carries
<1>5. Authorised(E, E.msg[m])
    BY <1>2, <1>3, AuthorityCarries
<1> QED BY <1>1, <1>2, <1>4, <1>5 DEF Signed, Kept

LEMMA AliveKept ==
    ASSUME NEW D \in Database, NEW E \in Database, Carries(D, E),
           NEW d \in DispatchIds, BeatKept(D, E, d), Alive(D, d)
    PROVE  Alive(E, d)
<1> SUFFICES ASSUME E.disp[d].beat # 0 PROVE Alive(E, d)
    BY DEF Alive
<1> DEFINE m == D.disp[d].beat
<1>1. /\ E.disp[d].beat = m /\ E.disp[d].handle = D.disp[d].handle
      /\ E.disp[d].pane = D.disp[d].pane
    BY DEF BeatKept
<1>2. /\ m <= D.nMsg /\ D.msg[m].type = "heartbeat" /\ D.msg[m].disp = d
      /\ hasLifecycleAuthority(D.disp[d], D.msg[m]) /\ m \in MessageIds
    BY <1>1, Numbers DEF Alive
<1> HIDE DEF m
<1>3. Kept(D, E, m)
    BY <1>2 DEF Carries
<1>4. m <= E.nMsg
    BY <1>2, Numbers DEF Carries
<1>5. hasLifecycleAuthority(E.disp[d], E.msg[m])
    BY <1>1, <1>2, <1>3 DEF Kept, hasLifecycleAuthority
<1> QED BY <1>1, <1>2, <1>3, <1>4, <1>5 DEF Alive, Kept

LEMMA CalmAuthentic ==
    ASSUME NEW D \in Database, NEW E \in Database, Calm(D, E), Mailed(D), Authentic(D)
    PROVE  Authentic(E)
BY SignedKept, AliveKept DEF Calm, Steady, Authentic
-----------------------------------------------------------------------------
(* Each write is calm.                                                     *)

\* A write to tasks and dispatches.
LEMMA RowsCalm ==
    ASSUME NEW D \in Database, NEW E, SameMail(D, E), E.nDisp = D.nDisp,
           \A d \in DispatchIds :
              /\ E.disp[d].task = D.disp[d].task
              /\ E.disp[d].handle = D.disp[d].handle
              /\ E.disp[d].pane = D.disp[d].pane
              /\ E.disp[d].beat = D.disp[d].beat
              /\ E.disp[d].status = "none" <=> D.disp[d].status = "none",
           \A t \in TaskIds : CompletionKept(D, E, t) /\ ResultKept(D, E, t)
    PROVE  Calm(D, E)
<1>1. \A m \in MessageIds : Kept(D, E, m) /\ E.msg[m].stored = D.msg[m].stored
    BY DEF SameMail, Kept
<1>2. E.nDisp >= D.nDisp /\ E.nMsg >= D.nMsg
    BY Numbers DEF SameMail
<1>3. Carries(D, E)
    BY <1>1, <1>2 DEF Carries
<1>4. \A d \in DispatchIds : BeatKept(D, E, d)
    BY DEF BeatKept
<1> QED BY <1>3, <1>4 DEF Calm, Steady

\* A write to tasks.
LEMMA TasksCalm ==
    ASSUME NEW D \in Database, NEW E, SameMail(D, E), E.nDisp = D.nDisp, E.disp = D.disp,
           \A t \in TaskIds :
              /\ CompletionKept(D, E, t)
              /\ E.task[t].result = D.task[t].result \/ E.task[t].result = 0
    PROVE  Calm(D, E)
BY RowsCalm DEF ResultKept

\* A write to gates or runs.
LEMMA ElsewhereCalm ==
    ASSUME NEW D \in Database, NEW E, SameMail(D, E), E.nDisp = D.nDisp, E.disp = D.disp,
           E.task = D.task
    PROVE  Calm(D, E)
BY TasksCalm DEF CompletionKept

\* A write to messages.
LEMMA MailCalm ==
    ASSUME NEW D \in Database, NEW E, E.task = D.task, E.disp = D.disp, E.nDisp = D.nDisp,
           E.nMsg >= D.nMsg,
           \A m \in MessageIds :
              /\ E.msg[m].stored => D.msg[m].stored \/ m <= E.nMsg
              /\ m <= D.nMsg => (E.msg[m].stored => D.msg[m].stored) /\ Kept(D, E, m)
    PROVE  Calm(D, E)
<1>1. E.nDisp >= D.nDisp
    BY Numbers
<1>2. Carries(D, E)
    BY <1>1 DEF Carries
<1>3. \A t \in TaskIds : ResultKept(D, E, t) /\ CompletionKept(D, E, t)
    BY DEF ResultKept, CompletionKept
<1>4. \A d \in DispatchIds : BeatKept(D, E, d)
    BY DEF BeatKept
<1> QED BY <1>2, <1>3, <1>4 DEF Calm, Steady

LEMMA MessageUpdates ==
    ASSUME NEW row \in MessageRow
    PROVE  /\ [row EXCEPT !.read = TRUE].stored = row.stored
           /\ [row EXCEPT !.read = TRUE].from = row.from
           /\ [row EXCEPT !.read = TRUE].pane = row.pane
           /\ [row EXCEPT !.read = TRUE].type = row.type
           /\ [row EXCEPT !.read = TRUE].task = row.task
           /\ [row EXCEPT !.read = TRUE].disp = row.disp
           /\ [row EXCEPT !.read = TRUE].read = TRUE
           /\ [row EXCEPT !.read = TRUE].rejected = row.rejected
           /\ [row EXCEPT !.rejected = TRUE].stored = row.stored
           /\ [row EXCEPT !.rejected = TRUE].from = row.from
           /\ [row EXCEPT !.rejected = TRUE].pane = row.pane
           /\ [row EXCEPT !.rejected = TRUE].type = row.type
           /\ [row EXCEPT !.rejected = TRUE].task = row.task
           /\ [row EXCEPT !.rejected = TRUE].disp = row.disp
           /\ [row EXCEPT !.rejected = TRUE].read = row.read
           /\ [row EXCEPT !.rejected = TRUE].rejected = TRUE
           /\ [row EXCEPT !.stored = FALSE].stored = FALSE
           /\ [row EXCEPT !.stored = FALSE].from = row.from
           /\ [row EXCEPT !.stored = FALSE].pane = row.pane
           /\ [row EXCEPT !.stored = FALSE].type = row.type
           /\ [row EXCEPT !.stored = FALSE].task = row.task
           /\ [row EXCEPT !.stored = FALSE].disp = row.disp
           /\ [row EXCEPT !.stored = FALSE].read = row.read
           /\ [row EXCEPT !.stored = FALSE].rejected = row.rejected
BY DEF MessageRow

LEMMA MarkAsReadRows ==
    ASSUME NEW D \in Database, NEW ids
    PROVE  LET E == markAsRead(D, ids)
           IN  /\ E.task = D.task /\ E.disp = D.disp /\ SameIds(D, E)
               /\ SameGates(D, E) /\ SameRuns(D, E) /\ E.nMsg = D.nMsg
               /\ \A m \in MessageIds :
                     /\ E.msg[m].stored = D.msg[m].stored
                     /\ E.msg[m].from = D.msg[m].from /\ E.msg[m].pane = D.msg[m].pane
                     /\ E.msg[m].type = D.msg[m].type /\ E.msg[m].task = D.msg[m].task
                     /\ E.msg[m].disp = D.msg[m].disp
                     /\ E.msg[m].rejected = D.msg[m].rejected
                     /\ D.msg[m].read => E.msg[m].read
                     /\ m \in ids /\ D.msg[m].stored => E.msg[m].read
<1> DEFINE E == markAsRead(D, ids)
           f == [m \in MessageIds |->
                    IF m \in ids /\ D.msg[m].stored
                    THEN [D.msg[m] EXCEPT !.read = TRUE] ELSE D.msg[m]]
<1>1. /\ E.task = D.task /\ E.disp = D.disp /\ SameIds(D, E)
      /\ SameGates(D, E) /\ SameRuns(D, E) /\ E.nMsg = D.nMsg /\ E.msg = f
    BY DEF markAsRead, Database, SameIds, SameGates, SameRuns
<1>2. ASSUME NEW m \in MessageIds
      PROVE  /\ f[m].stored = D.msg[m].stored
             /\ f[m].from = D.msg[m].from /\ f[m].pane = D.msg[m].pane
             /\ f[m].type = D.msg[m].type /\ f[m].task = D.msg[m].task
             /\ f[m].disp = D.msg[m].disp
             /\ f[m].rejected = D.msg[m].rejected
             /\ D.msg[m].read => f[m].read
             /\ m \in ids /\ D.msg[m].stored => f[m].read
  <2>1. D.msg[m] \in MessageRow
      BY DEF Database
  <2> QED BY <2>1, MessageUpdates
<1> HIDE DEF E, f
<1> QED BY <1>1, <1>2 DEF E

LEMMA MarkAsReadCalm ==
    ASSUME NEW D \in Database, NEW ids
    PROVE  Calm(D, markAsRead(D, ids))
<1> DEFINE E == markAsRead(D, ids)
<1>1. /\ E.task = D.task /\ E.disp = D.disp /\ E.nDisp = D.nDisp /\ E.nMsg = D.nMsg
      /\ \A m \in MessageIds : Kept(D, E, m) /\ E.msg[m].stored = D.msg[m].stored
    BY MarkAsReadRows DEF SameIds, Kept
<1>2. E.nMsg >= D.nMsg
    BY <1>1, Numbers
<1> HIDE DEF E
<1>3. Calm(D, E)
    BY <1>1, <1>2, MailCalm
<1> QED BY <1>3 DEF E

LEMMA InsertRows ==
    ASSUME NEW D \in Database, NEW row
    PROVE  LET E == insertMessage(D, row)
           IN  /\ E.task = D.task /\ E.disp = D.disp /\ SameIds(D, E)
               /\ SameGates(D, E) /\ SameRuns(D, E) /\ E.nMsg = D.nMsg + 1
               /\ \A m \in MessageIds :
                     E.msg[m] = IF m = D.nMsg + 1 THEN row ELSE D.msg[m]
<1> DEFINE E == insertMessage(D, row)
           n == D.nMsg + 1
<1>1. /\ E.task = D.task /\ E.disp = D.disp /\ SameIds(D, E)
      /\ SameGates(D, E) /\ SameRuns(D, E) /\ E.nMsg = n
      /\ E.msg = [D.msg EXCEPT ![n] = row]
    BY DEF insertMessage, Database, SameIds, SameGates, SameRuns
<1>2. D.msg \in [MessageIds -> MessageRow]
    BY DEF Database
<1> HIDE DEF E, n
<1>3. \A m \in MessageIds : E.msg[m] = IF m = n THEN row ELSE D.msg[m]
    BY <1>1, <1>2
<1> QED BY <1>1, <1>3 DEF E, n

LEMMA InsertCalm ==
    ASSUME NEW D \in Database, NEW row
    PROVE  Calm(D, insertMessage(D, row))
<1> DEFINE E == insertMessage(D, row)
<1>1. /\ E.task = D.task /\ E.disp = D.disp /\ E.nDisp = D.nDisp
      /\ E.nMsg = D.nMsg + 1
      /\ \A m \in MessageIds : E.msg[m] = IF m = D.nMsg + 1 THEN row ELSE D.msg[m]
    BY InsertRows DEF SameIds
<1> HIDE DEF E
<1>2. E.nMsg >= D.nMsg /\ \A m \in MessageIds : m = D.nMsg + 1 => m <= E.nMsg /\ ~(m <= D.nMsg)
    BY <1>1, Numbers
<1>3. \A m \in MessageIds : m <= D.nMsg => Kept(D, E, m)
    BY <1>1, <1>2 DEF Kept
<1>4. Calm(D, E)
    BY <1>1, <1>2, <1>3, MailCalm
<1> QED BY <1>4 DEF E

LEMMA ResetMessagesCalm ==
    ASSUME NEW D \in Database
    PROVE  Calm(D, resetMessages(D))
<1> DEFINE E == resetMessages(D)
           f == [m \in MessageIds |-> [D.msg[m] EXCEPT !.stored = FALSE]]
<1>1. /\ E.task = D.task /\ E.disp = D.disp /\ E.nDisp = D.nDisp /\ E.nMsg = D.nMsg
      /\ E.msg = f
    BY DEF resetMessages, Database
<1>2. ASSUME NEW m \in MessageIds
      PROVE  /\ f[m].from = D.msg[m].from /\ f[m].pane = D.msg[m].pane
             /\ f[m].type = D.msg[m].type /\ f[m].task = D.msg[m].task
             /\ f[m].disp = D.msg[m].disp /\ f[m].read = D.msg[m].read
             /\ f[m].rejected = D.msg[m].rejected /\ ~f[m].stored
  <2>1. D.msg[m] \in MessageRow
      BY DEF Database
  <2> QED BY <2>1, MessageUpdates
<1>3. E.nMsg >= D.nMsg
    BY <1>1, Numbers
<1> HIDE DEF E, f
<1>4. \A m \in MessageIds : Kept(D, E, m) /\ ~E.msg[m].stored
    BY <1>1, <1>2 DEF Kept
<1>5. Calm(D, E)
    BY <1>1, <1>3, <1>4, MailCalm
<1> QED BY <1>5 DEF E

LEMMA RejectionRows ==
    ASSUME NEW D \in Database, NEW m \in MessageIds
    PROVE  LET E == convertLifecycleMessageToRejection(D, m)
           IN  /\ E.task = D.task /\ E.disp = D.disp /\ SameIds(D, E)
               /\ SameGates(D, E) /\ SameRuns(D, E) /\ E.nMsg = D.nMsg
               /\ \A k \in MessageIds :
                     /\ E.msg[k].stored = D.msg[k].stored
                     /\ E.msg[k].from = D.msg[k].from /\ E.msg[k].pane = D.msg[k].pane
                     /\ E.msg[k].type = D.msg[k].type /\ E.msg[k].task = D.msg[k].task
                     /\ E.msg[k].disp = D.msg[k].disp /\ E.msg[k].read = D.msg[k].read
                     /\ k # m => E.msg[k].rejected = D.msg[k].rejected
<1> DEFINE E == convertLifecycleMessageToRejection(D, m)
           row == [D.msg[m] EXCEPT !.rejected = TRUE]
<1>1. /\ E.task = D.task /\ E.disp = D.disp /\ SameIds(D, E)
      /\ SameGates(D, E) /\ SameRuns(D, E) /\ E.nMsg = D.nMsg
      /\ E.msg = [D.msg EXCEPT ![m] = row]
    BY DEF convertLifecycleMessageToRejection, Database, SameIds, SameGates, SameRuns
<1>2. D.msg \in [MessageIds -> MessageRow] /\ D.msg[m] \in MessageRow
    BY DEF Database
<1>3. /\ row.stored = D.msg[m].stored /\ row.from = D.msg[m].from
      /\ row.pane = D.msg[m].pane /\ row.type = D.msg[m].type /\ row.task = D.msg[m].task
      /\ row.disp = D.msg[m].disp /\ row.read = D.msg[m].read
    BY <1>2, MessageUpdates
<1> HIDE DEF E, row
<1>4. E.msg[m] = row /\ \A k \in MessageIds : k # m => E.msg[k] = D.msg[k]
    BY <1>1, <1>2
<1> QED BY <1>1, <1>3, <1>4 DEF E

LEMMA RejectionCalm ==
    ASSUME NEW D \in Database, NEW m \in MessageIds,
           D.msg[m].type # "worker_done" \/ ~Authorised(D, D.msg[m])
    PROVE  Calm(D, convertLifecycleMessageToRejection(D, m))
<1> DEFINE E == convertLifecycleMessageToRejection(D, m)
<1>1. /\ E.task = D.task /\ E.disp = D.disp /\ E.nDisp = D.nDisp /\ E.nMsg = D.nMsg
      /\ \A k \in MessageIds : Kept(D, E, k) /\ E.msg[k].stored = D.msg[k].stored
    BY RejectionRows DEF SameIds, Kept
<1>2. E.nMsg >= D.nMsg
    BY <1>1, Numbers
<1> HIDE DEF E
<1>3. Calm(D, E)
    BY <1>1, <1>2, MailCalm
<1> QED BY <1>3 DEF E

LEMMA CreateTaskRows ==
    ASSUME NEW D \in Database, NEW deps
    PROVE  LET E == createTask(D, deps)
               n == D.nTask + 1
           IN  /\ SameMail(D, E) /\ SameGates(D, E) /\ SameRuns(D, E)
               /\ E.disp = D.disp /\ E.nDisp = D.nDisp /\ E.nTask = n
               /\ \A t \in TaskIds : E.task[t] =
                     IF t = n
                     THEN [status |-> IF deps = {} THEN "ready" ELSE "pending",
                           deps |-> deps, result |-> 0]
                     ELSE D.task[t]
<1> DEFINE E == createTask(D, deps)
           n == D.nTask + 1
           row == [status |-> IF deps = {} THEN "ready" ELSE "pending",
                   deps |-> deps, result |-> 0]
<1>1. /\ SameMail(D, E) /\ SameGates(D, E) /\ SameRuns(D, E)
      /\ E.disp = D.disp /\ E.nDisp = D.nDisp /\ E.nTask = n
      /\ E.task = [D.task EXCEPT ![n] = row]
    BY DEF createTask, Database, SameMail, SameGates, SameRuns
<1>2. D.task \in [TaskIds -> TaskRow]
    BY DEF Database
<1> HIDE DEF E, n, row
<1>3. \A t \in TaskIds : E.task[t] = IF t = n THEN row ELSE D.task[t]
    BY <1>1, <1>2
<1> QED BY <1>1, <1>3 DEF E, n, row

LEMMA CreateTaskCalm ==
    ASSUME NEW D \in Database, NEW deps
    PROVE  Calm(D, createTask(D, deps))
<1> DEFINE E == createTask(D, deps)
           row == [status |-> IF deps = {} THEN "ready" ELSE "pending",
                   deps |-> deps, result |-> 0]
<1>1. /\ SameMail(D, E) /\ E.disp = D.disp /\ E.nDisp = D.nDisp
      /\ \A t \in TaskIds : E.task[t] = row \/ E.task[t] = D.task[t]
    BY CreateTaskRows
<1>2. row.status # "completed" /\ row.result = 0
    OBVIOUS
<1> HIDE DEF E, row
<1>3. \A t \in TaskIds : /\ CompletionKept(D, E, t)
                         /\ E.task[t].result = D.task[t].result \/ E.task[t].result = 0
    BY <1>1, <1>2 DEF CompletionKept
<1>4. Calm(D, E)
    BY <1>1, <1>3, TasksCalm
<1> QED BY <1>4 DEF E

LEMMA SetTaskStatusRows ==
    ASSUME NEW D \in Database, NEW t, NEW s
    PROVE  LET E == SetTaskStatus(D, t, s)
           IN  /\ SameRest(D, E) /\ E.disp = D.disp
               /\ \A u \in TaskIds :
                     /\ E.task[u].deps = D.task[u].deps
                     /\ E.task[u].result = D.task[u].result
                     /\ E.task[u].status = IF u = t /\ TaskExists(D, t)
                                           THEN s ELSE D.task[u].status
<1> DEFINE E == SetTaskStatus(D, t, s)
           F == [D EXCEPT !.task[t].status = s]
           row == [D.task[t] EXCEPT !.status = s]
<1>1. CASE ~TaskExists(D, t)
    BY <1>1 DEF SetTaskStatus, SameRest, SameMail, SameGates, SameRuns, SameIds
<1>2. CASE TaskExists(D, t)
  <2>1. t \in TaskIds /\ E = F
      BY <1>2 DEF TaskExists, SetTaskStatus
  <2>2. /\ SameRest(D, F) /\ F.disp = D.disp /\ F.task = [D.task EXCEPT ![t] = row]
      BY DEF Database, SameRest, SameMail, SameGates, SameRuns, SameIds
  <2>3. D.task \in [TaskIds -> TaskRow] /\ D.task[t] \in TaskRow
      BY <2>1 DEF Database
  <2>4. row.status = s /\ row.deps = D.task[t].deps /\ row.result = D.task[t].result
      BY <2>3, RowUpdates
  <2> HIDE DEF E, F, row
  <2>5. F.task[t] = row /\ \A u \in TaskIds : u # t => F.task[u] = D.task[u]
      BY <2>1, <2>2, <2>3
  <2>6. \A u \in TaskIds :
           /\ F.task[u].deps = D.task[u].deps
           /\ F.task[u].result = D.task[u].result
           /\ F.task[u].status = IF u = t THEN s ELSE D.task[u].status
      BY <2>4, <2>5
  <2> QED BY <1>2, <2>1, <2>2, <2>6 DEF E
<1> QED BY <1>1, <1>2

LEMMA SetTaskStatusCalm ==
    ASSUME NEW D \in Database, NEW t, NEW s, s # "completed"
    PROVE  Calm(D, SetTaskStatus(D, t, s))
<1> DEFINE E == SetTaskStatus(D, t, s)
<1>1. /\ SameMail(D, E) /\ E.disp = D.disp /\ E.nDisp = D.nDisp
      /\ \A u \in TaskIds : /\ CompletionKept(D, E, u)
                            /\ E.task[u].result = D.task[u].result
    BY SetTaskStatusRows DEF CompletionKept, SameRest, SameIds
<1> HIDE DEF E
<1>2. Calm(D, E)
    BY <1>1, TasksCalm
<1> QED BY <1>2 DEF E

LEMMA RestoreRows ==
    ASSUME NEW D \in Database
    PROVE  LET E == restorePendingGateTaskStatuses(D)
           IN  /\ SameRest(D, E) /\ E.disp = D.disp
               /\ \A t \in TaskIds :
                     /\ E.task[t].deps = D.task[t].deps
                     /\ E.task[t].result = D.task[t].result
                     /\ E.task[t].status = IF TaskExists(D, t) /\ HasPendingGate(D, t)
                                           THEN "blocked" ELSE D.task[t].status
<1> DEFINE E == restorePendingGateTaskStatuses(D)
           f == [t \in TaskIds |-> IF TaskExists(D, t) /\ HasPendingGate(D, t)
                                   THEN [D.task[t] EXCEPT !.status = "blocked"]
                                   ELSE D.task[t]]
<1>1. SameRest(D, E) /\ E.disp = D.disp /\ E.task = f
    BY DEF restorePendingGateTaskStatuses, Database, SameRest, SameMail, SameGates, SameRuns, SameIds
<1>2. \A t \in TaskIds : D.task[t] \in TaskRow
    BY DEF Database
<1>3. \A t \in TaskIds :
         /\ f[t].deps = D.task[t].deps /\ f[t].result = D.task[t].result
         /\ f[t].status = IF TaskExists(D, t) /\ HasPendingGate(D, t)
                          THEN "blocked" ELSE D.task[t].status
    BY <1>2, RowUpdates
<1> HIDE DEF E, f
<1> QED BY <1>1, <1>3 DEF E

LEMMA RestoreCalm ==
    ASSUME NEW D \in Database
    PROVE  Calm(D, restorePendingGateTaskStatuses(D))
<1> DEFINE E == restorePendingGateTaskStatuses(D)
<1>1. /\ SameMail(D, E) /\ E.disp = D.disp /\ E.nDisp = D.nDisp
      /\ \A u \in TaskIds : /\ CompletionKept(D, E, u)
                            /\ E.task[u].result = D.task[u].result
    BY RestoreRows DEF CompletionKept, SameRest, SameIds
<1> HIDE DEF E
<1>2. Calm(D, E)
    BY <1>1, TasksCalm
<1> QED BY <1>2 DEF E

LEMMA FailCalm ==
    ASSUME NEW D \in Database, NEW d \in DispatchIds
    PROVE  Calm(D, failDispatch(D, d))
<1> DEFINE E == failDispatch(D, d)
<1>1. CASE D.disp[d].status = "none"
    BY <1>1, ElsewhereCalm DEF failDispatch, SameMail
<1>2. CASE D.disp[d].status # "none"
  <2>1. /\ SameMail(D, E) /\ E.nDisp = D.nDisp
        /\ \A e \in DispatchIds :
              /\ E.disp[e].task = D.disp[e].task
              /\ E.disp[e].handle = D.disp[e].handle
              /\ E.disp[e].pane = D.disp[e].pane
              /\ E.disp[e].beat = D.disp[e].beat
              /\ E.disp[e].status = "none" <=> D.disp[e].status = "none"
      BY <1>2, FailRows DEF SameRest, SameIds
  <2>2. \A t \in TaskIds : CompletionKept(D, E, t) /\ ResultKept(D, E, t)
      BY <1>2, FailRows DEF CompletionKept, ResultKept
  <2> HIDE DEF E
  <2>3. Calm(D, E)
      BY <2>1, <2>2, RowsCalm
  <2> QED BY <2>3 DEF E
<1> QED BY <1>1, <1>2

LEMMA UpdateCalm ==
    ASSUME NEW D \in Database, NEW t \in TaskIds, NEW s \in TaskStatuses,
           NEW m \in {0} \cup MessageIds, s # "completed",
           m # 0 => m <= D.nMsg /\ D.msg[m].type # "worker_done"
    PROVE  Calm(D, updateTaskStatus(D, t, s, m))
<1> DEFINE E == updateTaskStatus(D, t, s, m)
<1>1. /\ SameMail(D, E) /\ E.disp = D.disp /\ E.nDisp = D.nDisp
      /\ E.task[t].status = s
      /\ E.task[t].result = IF m = 0 THEN D.task[t].result ELSE m
      /\ \A u \in TaskIds : u # t => E.task[u] = D.task[u]
    BY UpdateRows DEF SameRest, SameIds
<1> HIDE DEF E
<1>2. \A u \in TaskIds : CompletionKept(D, E, u) /\ ResultKept(D, E, u)
    BY <1>1 DEF CompletionKept, ResultKept, SameMail
<1>3. Calm(D, E)
    BY <1>1, <1>2, RowsCalm
<1> QED BY <1>3 DEF E
\* A task set to completed by hand.
LEMMA ManualSteady ==
    ASSUME NEW D \in Database, NEW t \in TaskIds
    PROVE  Steady(D, updateTaskStatus(D, t, "completed", 0))
<1> DEFINE E == updateTaskStatus(D, t, "completed", 0)
<1>1. /\ SameMail(D, E) /\ E.nDisp = D.nDisp
      /\ \A d \in DispatchIds :
            /\ E.disp[d].task = D.disp[d].task
            /\ E.disp[d].handle = D.disp[d].handle
            /\ E.disp[d].pane = D.disp[d].pane
            /\ E.disp[d].status = "none" <=> D.disp[d].status = "none"
      /\ \A u \in TaskIds : E.task[u].result = D.task[u].result
    BY CompleteRows DEF SameRest, SameIds, IsLatestActiveDispatch, DispatchesOf
<1> HIDE DEF E
<1>2. \A m \in MessageIds : Kept(D, E, m) /\ E.msg[m].stored = D.msg[m].stored
    BY <1>1 DEF SameMail, Kept
<1>3. E.nDisp >= D.nDisp /\ E.nMsg >= D.nMsg
    BY <1>1, Numbers DEF SameMail
<1>4. Carries(D, E)
    BY <1>1, <1>2, <1>3 DEF Carries
<1>5. Steady(D, E)
    BY <1>1, <1>4 DEF Steady, ResultKept
<1> QED BY <1>5 DEF E

LEMMA CompleteActiveCalm ==
    ASSUME NEW D \in Database, NEW t
    PROVE  Calm(D, completeActiveDispatchForTask(D, t))
<1> DEFINE E == completeActiveDispatchForTask(D, t)
<1>1. /\ SameMail(D, E) /\ E.nDisp = D.nDisp /\ E.task = D.task
      /\ \A d \in DispatchIds :
            /\ E.disp[d].task = D.disp[d].task
            /\ E.disp[d].handle = D.disp[d].handle
            /\ E.disp[d].pane = D.disp[d].pane
            /\ E.disp[d].beat = D.disp[d].beat
            /\ E.disp[d].status = "none" <=> D.disp[d].status = "none"
    BY CompleteActiveRows DEF SameRest, SameIds, IsLatestActiveDispatch, DispatchesOf
<1> HIDE DEF E
<1>2. Calm(D, E)
    BY <1>1, RowsCalm DEF CompletionKept, ResultKept
<1> QED BY <1>2 DEF E

LEMMA CreateGateCalm ==
    ASSUME NEW D \in Database, D.nGate < MaxGates, NEW t \in TaskIds
    PROVE  Calm(D, createGate(D, t))
<1> DEFINE G == [D EXCEPT !.gate[D.nGate + 1] = [status |-> "pending", task |-> t],
                          !.nGate = @ + 1]
           C == completeActiveDispatchForTask(G, t)
           E == SetTaskStatus(C, t, "blocked")
<1>1. G.task = D.task /\ G.disp = D.disp /\ G.nDisp = D.nDisp /\ SameMail(D, G)
    BY DEF Database, SameMail
<1>2. G \in Database
    BY CreateGateRowType
<1> HIDE DEF G
<1>3. Calm(D, G)
    BY <1>1, ElsewhereCalm
<1>4. C \in Database /\ Calm(G, C)
    BY <1>2, CompleteActiveWrites, CompleteActiveCalm DEF Writes
<1> HIDE DEF C
<1>5. Calm(C, E) /\ E \in Database
    BY <1>4, SetTaskStatusCalm, SetTaskStatusWrites DEF Writes, TaskStatuses
<1> HIDE DEF E
<1>6. Calm(D, C)
    BY <1>2, <1>3, <1>4, CalmTransitive
<1>7. Calm(D, E)
    BY <1>4, <1>5, <1>6, CalmTransitive
<1> QED BY <1>7 DEF createGate, E, C, G

LEMMA ResolveGateCalm ==
    ASSUME NEW D \in Database, NEW g \in GateIds
    PROVE  Calm(D, resolveGate(D, g))
<1> DEFINE G == [D EXCEPT !.gate[g].status = "resolved"]
           E == SetTaskStatus(G, D.gate[g].task, "ready")
<1>1. G.task = D.task /\ G.disp = D.disp /\ G.nDisp = D.nDisp /\ SameMail(D, G)
    BY DEF Database, SameMail
<1>2. G \in Database
  <2>1. D.gate \in [GateIds -> GateRow]
      BY DEF Database
  <2>2. [D.gate[g] EXCEPT !.status = "resolved"] \in GateRow
      BY <2>1 DEF GateRow, GateStatuses
  <2>3. [D.gate EXCEPT ![g] = [D.gate[g] EXCEPT !.status = "resolved"]] \in [GateIds -> GateRow]
      BY <2>1, <2>2
  <2> QED BY <2>3, SetGates DEF Writes
<1> HIDE DEF G
<1>3. Calm(D, G)
    BY <1>1, ElsewhereCalm
<1>4. Calm(G, E) /\ E \in Database
    BY <1>2, SetTaskStatusCalm, SetTaskStatusWrites DEF Writes, TaskStatuses
<1> HIDE DEF E
<1>5. Calm(D, E)
    BY <1>2, <1>3, <1>4, CalmTransitive
<1> QED BY <1>5 DEF resolveGate, E, G

LEMMA RunsCalm ==
    ASSUME NEW D \in Database
    PROVE  /\ Calm(D, createCoordinatorRun(D))
           /\ \A r, s : Calm(D, updateCoordinatorRun(D, r, s))
<1>1. Calm(D, createCoordinatorRun(D))
  <2>1. /\ createCoordinatorRun(D).task = D.task /\ createCoordinatorRun(D).disp = D.disp
        /\ createCoordinatorRun(D).nDisp = D.nDisp /\ SameMail(D, createCoordinatorRun(D))
      BY DEF createCoordinatorRun, Database, SameMail
  <2> QED BY <2>1, ElsewhereCalm
<1>2. \A r, s : Calm(D, updateCoordinatorRun(D, r, s))
  <2> TAKE r, s
  <2>1. /\ updateCoordinatorRun(D, r, s).task = D.task
        /\ updateCoordinatorRun(D, r, s).disp = D.disp
        /\ updateCoordinatorRun(D, r, s).nDisp = D.nDisp
        /\ SameMail(D, updateCoordinatorRun(D, r, s))
      BY DEF updateCoordinatorRun, Database, SameMail
  <2> QED BY <2>1, ElsewhereCalm
<1> QED BY <1>1, <1>2

LEMMA DispatchCalm ==
    ASSUME NEW D \in Database, NEW t \in TaskIds, NEW h, NEW p, NEW n,
           D.nDisp + 1 \in DispatchIds, Allocated(D)
    PROVE  Calm(D, createDispatchContext(D, t, h, p, n))
<1> DEFINE E == createDispatchContext(D, t, h, p, n)
           k == D.nDisp + 1
           row == [status |-> "dispatched", task |-> t, handle |-> h,
                   pane |-> p, failures |-> n, beat |-> 0]
<1>1. /\ SameMail(D, E) /\ E.nDisp = k
      /\ E.disp[k] = row
      /\ \A d \in DispatchIds : d # k => E.disp[d] = D.disp[d]
      /\ \A u \in TaskIds : CompletionKept(D, E, u) /\ ResultKept(D, E, u)
    BY DispatchRows DEF CompletionKept, ResultKept
<1>2. row.beat = 0 /\ row.status # "none"
    OBVIOUS
<1> HIDE DEF E, row
<1>3. D.disp[k].status = "none" /\ k <= E.nDisp /\ E.nDisp >= D.nDisp /\ E.nMsg >= D.nMsg
    BY <1>1, Numbers DEF Allocated, SameMail
<1>4. \A m \in MessageIds : Kept(D, E, m) /\ E.msg[m].stored = D.msg[m].stored
    BY <1>1 DEF SameMail, Kept
<1> HIDE DEF k
<1>5. \A d \in DispatchIds :
         /\ D.disp[d].status # "none" => E.disp[d] = D.disp[d]
         /\ E.disp[d].status # "none" => D.disp[d].status # "none" \/ d <= E.nDisp
    BY <1>1, <1>3
<1>6. Carries(D, E)
    BY <1>3, <1>4, <1>5 DEF Carries
<1>7. \A d \in DispatchIds : BeatKept(D, E, d)
    BY <1>1, <1>2 DEF BeatKept
<1>8. Calm(D, E)
    BY <1>1, <1>6, <1>7 DEF Calm, Steady
<1> QED BY <1>8 DEF E

-----------------------------------------------------------------------------
(* Reconciliation, resets and the actions.                                 *)

\* Nobody completes a task by hand.  The handler would accept it, with no
\* worker_done to show for it.
NoManualCompletion == "completed" \notin ManualStatuses

Sound(D) == Mailed(D) /\ (NoManualCompletion => Authentic(D))

\* What every step does to the database.
Onward(D, E) == (Sound(D) => Sound(E)) /\ E.nMsg >= D.nMsg

LEMMA CalmOnward ==
    ASSUME NEW D \in Database, NEW E \in Database, Calm(D, E)
    PROVE  Onward(D, E)
BY SteadyMailed, CalmAuthentic DEF Onward, Sound, Calm, Steady, Carries

LEMMA OnwardTransitive ==
    ASSUME NEW D \in Database, NEW E \in Database, NEW F \in Database,
           Onward(D, E), Onward(E, F)
    PROVE  Onward(D, F)
BY Numbers DEF Onward

\* The completion of a dispatch by the worker_done message m.
LEMMA CompletionOnward ==
    ASSUME NEW D \in Database, NEW m \in MessageIds, m <= D.nMsg,
           D.msg[m].type = "worker_done", ~D.msg[m].rejected,
           D.msg[m].task \in TaskIds, Authorised(D, D.msg[m]), Mailed(D),
           NEW F, F = suppressEarlierHeartbeats(
                         updateTaskStatus(D, D.msg[m].task, "completed", m), m)
    PROVE  Mailed(F) /\ (Authentic(D) => Authentic(F)) /\ F.nMsg >= D.nMsg
<1> DEFINE t == D.msg[m].task
           E == updateTaskStatus(D, t, "completed", m)
           ids == {k \in UnreadMessages(E) :
                      /\ k < m
                      /\ E.msg[k].type = "heartbeat"
                      /\ E.msg[k].disp = E.msg[m].disp}
<1>1. /\ E \in Database /\ SameMail(D, E) /\ E.nDisp = D.nDisp
      /\ E.task[t].result = m
      /\ \A u \in TaskIds : u # t =>
            /\ E.task[u].result = D.task[u].result
            /\ E.task[u].status = "completed" => D.task[u].status = "completed"
      /\ \A d \in DispatchIds :
            /\ E.disp[d].task = D.disp[d].task
            /\ E.disp[d].handle = D.disp[d].handle
            /\ E.disp[d].pane = D.disp[d].pane
            /\ E.disp[d].beat = D.disp[d].beat
            /\ E.disp[d].status = "none" <=> D.disp[d].status = "none"
  <2>1. m # 0 /\ m \in {0} \cup MessageIds /\ t \in TaskIds
      BY Numbers
  <2>2. /\ E \in Database /\ SameRest(D, E)
        /\ E.task[t].result = m
        /\ \A u \in TaskIds : u # t =>
              /\ E.task[u].result = D.task[u].result
              /\ E.task[u].status = "ready" \/ E.task[u].status = D.task[u].status
        /\ \A d \in DispatchIds :
              /\ E.disp[d].task = D.disp[d].task
              /\ E.disp[d].handle = D.disp[d].handle
              /\ E.disp[d].pane = D.disp[d].pane
              /\ E.disp[d].beat = D.disp[d].beat
              /\ E.disp[d].status = IF IsLatestActiveDispatch(D, t, d)
                                    THEN "completed" ELSE D.disp[d].status
    <3> HIDE DEF t
    <3> QED BY <2>1, CompleteRows
  <2>3. \A d \in DispatchIds : IsLatestActiveDispatch(D, t, d) => D.disp[d].status # "none"
      BY DEF IsLatestActiveDispatch, DispatchesOf
  <2> HIDE DEF E, t
  <2> QED BY <2>2, <2>3 DEF SameRest, SameIds
<1>2. F = markAsRead(E, ids)
    BY DEF suppressEarlierHeartbeats
<1> HIDE DEF E
<1>3. \A k \in MessageIds : Kept(D, E, k) /\ E.msg[k].stored = D.msg[k].stored
    BY <1>1 DEF SameMail, Kept
<1>4. Carries(D, E)
  <2>1. E.nDisp >= D.nDisp /\ E.nMsg >= D.nMsg
      BY <1>1, Numbers DEF SameMail
  <2> QED BY <1>1, <1>3, <2>1 DEF Carries
<1>5. /\ F \in Database /\ Calm(E, F) /\ F.task = E.task /\ F.disp = E.disp
      /\ \A k \in MessageIds :
            /\ F.msg[k].stored = E.msg[k].stored /\ F.msg[k].type = E.msg[k].type
            /\ F.msg[k].task = E.msg[k].task /\ F.msg[k].disp = E.msg[k].disp
            /\ F.msg[k].rejected = E.msg[k].rejected
            /\ E.msg[k].read => F.msg[k].read
            /\ k \in ids /\ E.msg[k].stored => F.msg[k].read
  <2> HIDE DEF ids
  <2> QED BY <1>1, <1>2, MarkAsReadRows, MarkAsReadCalm, MarkAsReadWrites DEF Writes
<1>6. Carries(D, F)
    BY <1>1, <1>4, <1>5, CarriesTransitive DEF Calm, Steady
<1>7. F.nMsg >= D.nMsg
    BY <1>6 DEF Carries
<1>8. /\ F \in Database /\ F.task[t].result = m
      /\ \A u \in TaskIds : u # t => ResultKept(D, F, u) /\ CompletionKept(D, F, u)
  <2>1. F \in Database /\ F.task = E.task
      BY <1>5
  <2>2. ASSUME NEW u \in TaskIds, u # t
        PROVE  ResultKept(D, F, u) /\ CompletionKept(D, F, u)
    <3>1. /\ E.task[u].result = D.task[u].result
          /\ E.task[u].status = "completed" => D.task[u].status = "completed"
        BY <1>1, <2>2
    <3> QED BY <2>1, <3>1 DEF ResultKept, CompletionKept
  <2>3. E.task[t].result = m
      BY <1>1
  <2> QED BY <2>1, <2>2, <2>3
<1>9. Suppressed(F, t) /\ F.task[t].result <= F.nMsg
  <2>1. ASSUME NEW k \in MessageIds, F.msg[k].stored, ~F.msg[k].read, k < m,
               F.msg[k].type = "heartbeat", F.msg[k].disp = F.msg[m].disp
        PROVE  FALSE
    <3>1. /\ E.msg[k].stored /\ ~E.msg[k].read /\ E.msg[k].type = "heartbeat"
          /\ E.msg[k].disp = E.msg[m].disp
        BY <1>5, <2>1
    <3>2. k \in ids
        BY <2>1, <3>1 DEF UnreadMessages
    <3> HIDE DEF ids
    <3> QED BY <1>5, <2>1, <3>1, <3>2
  <2>2. D.nMsg \in Nat /\ F.nMsg \in Nat /\ m \in Nat
      BY <1>5, Numbers
  <2>3. m <= F.nMsg
      BY <1>7, <2>2
  <2> QED BY <1>8, <2>1, <2>3 DEF Suppressed
<1> HIDE DEF ids
<1>10. Mailed(F)
  <2>1. Allocated(F) /\ \A k \in MessageIds : F.msg[k].stored => k <= F.nMsg
      BY <1>5, <1>6, CarriedIds
  <2>2. \A u \in TaskIds : u # t => F.task[u].result <= F.nMsg /\ Suppressed(F, u)
      BY <1>6, <1>8, SuppressedKept
  <2> QED BY <1>9, <2>1, <2>2 DEF Mailed
<1>11. ASSUME Authentic(D) PROVE Authentic(F)
  <2>1. \A u \in TaskIds : u # t => Signed(F, u)
      BY <1>6, <1>8, <1>11, SignedKept DEF Authentic
  <2>2. Signed(F, t)
    <3>1. Authorised(F, F.msg[m])
        BY <1>6, AuthorityCarries
    <3>2. /\ E.msg[m].type = D.msg[m].type /\ E.msg[m].task = t
          /\ E.msg[m].rejected = D.msg[m].rejected
        BY <1>1 DEF SameMail
    <3>3. F.msg[m].type = "worker_done" /\ ~F.msg[m].rejected /\ F.msg[m].task = t
        BY <1>5, <3>2
    <3>4. m # 0
        BY Numbers
    <3> QED BY <1>8, <3>1, <3>3, <3>4 DEF Signed
  <2>3. \A d \in DispatchIds : Alive(F, d)
    <3>1. \A d \in DispatchIds : BeatKept(D, E, d)
        BY <1>1 DEF BeatKept
    <3>2. \A d \in DispatchIds : BeatKept(D, F, d)
        BY <1>5, <3>1 DEF BeatKept
    <3> QED BY <1>5, <1>6, <1>11, <3>2, AliveKept DEF Authentic
  <2> QED BY <2>1, <2>2, <2>3 DEF Authentic
<1> QED BY <1>7, <1>10, <1>11
LEMMA ReconcileWorkerDoneOnward ==
    ASSUME NEW D \in Database, NEW m \in MessageIds, m <= D.nMsg,
           D.msg[m].type = "worker_done"
    PROVE  Onward(D, reconcileWorkerDoneMessage(D, m))
<1> DEFINE msg == D.msg[m]
           E == reconcileWorkerDoneMessage(D, m)
<1>1. CASE msg.rejected \/ ~NamesDispatchOfTask(D, msg)
  <2>1. E = D
      BY <1>1 DEF reconcileWorkerDoneMessage
  <2> QED BY <2>1, Numbers DEF Onward
<1>2. CASE /\ ~msg.rejected /\ NamesDispatchOfTask(D, msg)
           /\ ~hasLifecycleAuthority(D.disp[msg.disp], msg)
  <2>1. E = convertLifecycleMessageToRejection(D, m)
      BY <1>2 DEF reconcileWorkerDoneMessage
  <2>2. ~Authorised(D, msg)
      BY <1>2 DEF Authorised
  <2>3. Calm(D, E) /\ E \in Database
      BY <2>1, <2>2, RejectionCalm, RejectionWrites DEF Writes
  <2> QED BY <2>3, CalmOnward
<1>3. CASE /\ ~msg.rejected /\ NamesDispatchOfTask(D, msg)
           /\ hasLifecycleAuthority(D.disp[msg.disp], msg)
           /\ ~IsCurrentDispatch(D, msg.task, msg.disp)
  <2>1. E = D
      BY <1>3 DEF reconcileWorkerDoneMessage
  <2> QED BY <2>1, Numbers DEF Onward
<1>4. CASE /\ ~msg.rejected /\ NamesDispatchOfTask(D, msg)
           /\ hasLifecycleAuthority(D.disp[msg.disp], msg)
           /\ IsCurrentDispatch(D, msg.task, msg.disp)
  <2>1. E = suppressEarlierHeartbeats(updateTaskStatus(D, msg.task, "completed", m), m)
      BY <1>4 DEF reconcileWorkerDoneMessage
  <2>2. Authorised(D, msg) /\ msg.task \in TaskIds
      BY <1>4 DEF Authorised, NamesDispatchOfTask, TaskExists
  <2>3. Mailed(D) => Mailed(E) /\ (Authentic(D) => Authentic(E))
      BY <1>4, <2>1, <2>2, CompletionOnward
  <2>4. E.nMsg >= D.nMsg
    <3> DEFINE U == updateTaskStatus(D, msg.task, "completed", m)
    <3>1. U.nMsg = D.nMsg /\ U \in Database
      <4>1. \A t \in TaskIds : LET V == updateTaskStatus(D, t, "completed", m)
                               IN  V \in Database /\ SameRest(D, V)
          BY CompleteRows
      <4> HIDE DEF msg
      <4> QED BY <2>2, <4>1 DEF SameRest, SameMail
    <3> HIDE DEF U
    <3>2. suppressEarlierHeartbeats(U, m).nMsg = U.nMsg
        BY <3>1, MarkAsReadRows DEF suppressEarlierHeartbeats
    <3> QED BY <2>1, <3>1, <3>2, Numbers DEF U
  <2> QED BY <2>3, <2>4 DEF Onward, Sound
<1> QED BY <1>1, <1>2, <1>3, <1>4

LEMMA HeartbeatRows ==
    ASSUME NEW D \in Database, NEW d \in DispatchIds, NEW m \in MessageIds,
           D.disp[d].status = "dispatched"
    PROVE  LET E == recordHeartbeat(D, d, m)
           IN  /\ SameRest(D, E) /\ E.task = D.task
               /\ E.disp[d].beat = m
               /\ E.disp[d].status = D.disp[d].status
               /\ E.disp[d].task = D.disp[d].task
               /\ E.disp[d].handle = D.disp[d].handle
               /\ E.disp[d].pane = D.disp[d].pane
               /\ E.disp[d].failures = D.disp[d].failures
               /\ \A e \in DispatchIds : e # d => E.disp[e] = D.disp[e]
<1> DEFINE E == [D EXCEPT !.disp[d].beat = m]
           row == [D.disp[d] EXCEPT !.beat = m]
<1>1. /\ SameRest(D, E) /\ E.task = D.task /\ E.disp = [D.disp EXCEPT ![d] = row]
    BY DEF Database, SameRest, SameMail, SameGates, SameRuns, SameIds
<1>2. D.disp \in [DispatchIds -> DispatchRow] /\ D.disp[d] \in DispatchRow
    BY DEF Database
<1>3. /\ row.beat = m /\ row.status = D.disp[d].status /\ row.task = D.disp[d].task
      /\ row.handle = D.disp[d].handle /\ row.pane = D.disp[d].pane
      /\ row.failures = D.disp[d].failures
    BY <1>2 DEF DispatchRow
<1>4. recordHeartbeat(D, d, m) = E
    BY DEF recordHeartbeat
<1> HIDE DEF E, row
<1>5. E.disp[d] = row /\ \A e \in DispatchIds : e # d => E.disp[e] = D.disp[e]
    BY <1>1, <1>2
<1> QED BY <1>1, <1>3, <1>4, <1>5

LEMMA HeartbeatOnward ==
    ASSUME NEW D \in Database, NEW d \in DispatchIds, NEW m \in MessageIds, m <= D.nMsg,
           D.msg[m].type = "heartbeat", D.msg[m].disp = d,
           D.disp[d].status = "dispatched", hasLifecycleAuthority(D.disp[d], D.msg[m])
    PROVE  Onward(D, recordHeartbeat(D, d, m))
<1> DEFINE E == recordHeartbeat(D, d, m)
<1>1. /\ SameMail(D, E) /\ E.nDisp = D.nDisp /\ E.task = D.task
      /\ E.disp[d].beat = m
      /\ \A e \in DispatchIds :
            /\ E.disp[e].task = D.disp[e].task
            /\ E.disp[e].handle = D.disp[e].handle
            /\ E.disp[e].pane = D.disp[e].pane
            /\ E.disp[e].status = D.disp[e].status
            /\ e # d => E.disp[e].beat = D.disp[e].beat
    BY HeartbeatRows DEF SameRest, SameIds
<1>2. E \in Database
    BY RecordHeartbeatWrites DEF Writes
<1> HIDE DEF E
<1>3. Carries(D, E) /\ E.nMsg >= D.nMsg
  <2>1. E.nDisp >= D.nDisp /\ E.nMsg >= D.nMsg
      BY <1>1, Numbers DEF SameMail
  <2>2. \A k \in MessageIds : Kept(D, E, k) /\ E.msg[k].stored = D.msg[k].stored
      BY <1>1 DEF SameMail, Kept
  <2> QED BY <1>1, <2>1, <2>2 DEF Carries
<1>4. Steady(D, E)
    BY <1>1, <1>3 DEF Steady, ResultKept
<1>5. ASSUME Mailed(D), Authentic(D) PROVE Authentic(E)
  <2>1. \A t \in TaskIds : Signed(E, t)
      BY <1>1, <1>3, <1>5, SignedKept DEF Authentic, CompletionKept
  <2>2. \A e \in DispatchIds : e # d => Alive(E, e)
      BY <1>1, <1>2, <1>3, <1>5, AliveKept DEF Authentic, BeatKept
  <2>3. Alive(E, d)
      BY <1>1 DEF Alive, SameMail, hasLifecycleAuthority
  <2> QED BY <2>1, <2>2, <2>3 DEF Authentic
<1>6. Mailed(D) => Mailed(E)
    BY <1>2, <1>4, SteadyMailed
<1>7. Onward(D, E)
    BY <1>3, <1>5, <1>6 DEF Onward, Sound
<1> QED BY <1>7 DEF E

LEMMA ReconcileOnward ==
    ASSUME NEW D \in Database, NEW m \in MessageIds, m <= D.nMsg
    PROVE  Onward(D, reconcileLifecycleMessage(D, m))
<1> DEFINE msg == D.msg[m]
           E == reconcileHeartbeatMessage(D, m)
<1>1. Onward(D, D)
    BY Numbers DEF Onward
<1>2. ASSUME msg.type = "heartbeat" PROVE Onward(D, E)
  <2>1. CASE msg.rejected \/ msg.disp = 0
      BY <1>1, <2>1 DEF reconcileHeartbeatMessage
  <2>2. CASE ~msg.rejected /\ msg.disp # 0
    <3>1. msg.disp \in DispatchIds
        BY <2>2, Numbers
    <3>2. Onward(D, markAsRead(D, {m}))
        BY MarkAsReadCalm, MarkAsReadWrites, CalmOnward DEF Writes
    <3>3. Onward(D, convertLifecycleMessageToRejection(D, m))
        BY <1>2, RejectionCalm, RejectionWrites, CalmOnward DEF Writes
    <3>4. ASSUME D.disp[msg.disp].status = "dispatched",
                 hasLifecycleAuthority(D.disp[msg.disp], msg)
          PROVE  Onward(D, recordHeartbeat(D, msg.disp, m))
        BY <1>2, <3>1, <3>4, HeartbeatOnward
    <3> QED BY <2>2, <3>2, <3>3, <3>4 DEF reconcileHeartbeatMessage
  <2> QED BY <2>1, <2>2
<1> QED BY <1>1, <1>2, ReconcileWorkerDoneOnward DEF reconcileLifecycleMessage

\* Nothing has been done and nothing sent.
LEMMA BareSound ==
    ASSUME NEW D \in Database,
           \A t \in TaskIds : D.task[t].status = "none" /\ D.task[t].result = 0,
           \A d \in DispatchIds : D.disp[d].status = "none" /\ D.disp[d].beat = 0,
           \A m \in MessageIds : D.msg[m].stored => m <= D.nMsg
    PROVE  Sound(D)
<1>1. 0 <= D.nMsg
    BY Numbers
<1>2. Mailed(D)
    BY <1>1 DEF Mailed, Allocated, Suppressed
<1>3. Authentic(D)
    BY DEF Authentic, Signed, Alive
<1> QED BY <1>2, <1>3 DEF Sound

LEMMA EmptyRows ==
    /\ \A t \in TaskIds : EmptyDb.task[t].status = "none" /\ EmptyDb.task[t].result = 0
    /\ \A d \in DispatchIds : EmptyDb.disp[d].status = "none" /\ EmptyDb.disp[d].beat = 0
    /\ \A m \in MessageIds : ~EmptyDb.msg[m].stored
BY DEF EmptyDb

LEMMA ResetTasksOnward ==
    ASSUME NEW D \in Database
    PROVE  Onward(D, resetTasks(D)) /\ Onward(D, resetAll(D))
<1> DEFINE E == resetTasks(D)
<1>1. /\ E.task = EmptyDb.task /\ E.disp = EmptyDb.disp /\ SameMail(D, E)
    BY DEF resetTasks, Database, SameMail
<1>2. E \in Database /\ resetAll(D) \in Database
    BY ResetTasksWrites, ResetAllWrites DEF Writes
<1>3. resetAll(D) = resetMessages(E)
    BY DEF resetAll
<1> HIDE DEF E
<1>4. E.nMsg >= D.nMsg
    BY <1>1, Numbers DEF SameMail
<1>5. Sound(D) => Sound(E)
  <2>1. Sound(D) => \A m \in MessageIds : E.msg[m].stored => m <= E.nMsg
      BY <1>1 DEF Sound, Mailed, SameMail
  <2> QED BY <1>1, <1>2, <2>1, EmptyRows, BareSound
<1>6. Onward(D, E)
    BY <1>4, <1>5 DEF Onward
<1>7. Onward(E, resetMessages(E))
    BY <1>2, <1>3, ResetMessagesCalm, CalmOnward
<1>8. Onward(D, resetAll(D))
    BY <1>2, <1>3, <1>6, <1>7, OnwardTransitive
<1> QED BY <1>6, <1>8 DEF E
-----------------------------------------------------------------------------
(* The actions.                                                            *)

\* A message that is still to be handled is in the database.
TodoKnown == \A m \in turn.todo : m <= db.nMsg

LEMMA DispatchesOnward ==
    ASSUME TypeOK, NEW t, NEW h \in Handles, NEW d, Dispatches(t, h, d), Mailed(db)
    PROVE  Onward(db, db')
<1>1. t \in TaskIds /\ db.nDisp + 1 \in DispatchIds /\ db \in Database /\ Allocated(db)
    BY DEF Dispatches, CanDispatch, TaskExists, TypeOK, Mailed
<1>2. PICK n : db' = createDispatchContext(db, t, h, PaneOf[h], n)
    BY DEF Dispatches
<1>3. db' \in Database
    BY DispatchesStep DEF DbStep
<1>4. Calm(db, db')
    BY <1>1, <1>2, DispatchCalm
<1> QED BY <1>1, <1>3, <1>4, CalmOnward

LEMMA SendOnward ==
    ASSUME TypeOK, NEW from \in Handles, NEW type \in MessageTypes,
           NEW t \in {0} \cup TaskIds, NEW d \in {0} \cup DispatchIds, Send(from, type, t, d)
    PROVE  Onward(db, db')
<1> DEFINE n == db.nMsg + 1
           D == insertMessage(db, NewMessage(from, type, t, d))
<1>1. db \in Database /\ db.nMsg < MaxMessages
    BY DEF TypeOK, Send
<1>2. n \in MessageIds
    BY <1>1, BoundsAssumption DEF Database, MessageIds
<1>3. D \in Database /\ Onward(db, D) /\ D.nMsg = n
    BY <1>1, NewMessageType, InsertMessageWrites, InsertCalm, InsertRows, CalmOnward DEF Writes
<1> HIDE DEF D
<1>4. db' = reconcileLifecycleMessage(D, n) /\ db' \in Database
    BY <1>2, <1>3, ReconcileWrites DEF Send, D, Writes
<1>5. n <= D.nMsg
    BY <1>1, <1>3, Numbers
<1> HIDE DEF n
<1>6. Onward(D, db')
    BY <1>2, <1>3, <1>4, <1>5, ReconcileOnward
<1> QED BY <1>1, <1>3, <1>4, <1>6, OnwardTransitive

LEMMA HandlersOnward ==
    ASSUME TypeOK, db' \in Database, Mailed(db),
           \/ \E deps \in DepChoices : TaskCreate(deps)
           \/ \E t \in TaskIds, s \in ManualStatuses : TaskUpdate(t, s)
           \/ \E t \in TaskIds : GateCreate(t)
           \/ \E g \in GateIds : GateResolve(g)
           \/ \E scope \in ResetScopes : Reset(scope)
           \/ AgentSend
    PROVE  Onward(db, db')
<1>0. db \in Database
    BY DEF TypeOK
<1>1. ASSUME NEW deps \in DepChoices, TaskCreate(deps) PROVE Onward(db, db')
    BY <1>0, <1>1, CreateTaskCalm, CalmOnward DEF TaskCreate
<1>2. ASSUME NEW t \in TaskIds, NEW s \in ManualStatuses, TaskUpdate(t, s)
      PROVE  Onward(db, db')
  <2>1. s \in TaskStatuses /\ db' = updateTaskStatus(db, t, s, 0)
      BY <1>2, EnvironmentAssumption DEF TaskUpdate
  <2>2. CASE s # "completed"
    <3>1. 0 \in {0} \cup MessageIds
        OBVIOUS
    <3>2. Calm(db, db')
        BY <1>0, <2>1, <2>2, <3>1, UpdateCalm
    <3> QED BY <1>0, <3>2, CalmOnward
  <2>3. CASE s = "completed"
    <3>1. ~NoManualCompletion
        BY <2>3 DEF NoManualCompletion
    <3>2. Steady(db, db')
        BY <1>0, <2>1, <2>3, ManualSteady
    <3>3. Mailed(db) => Mailed(db')
        BY <1>0, <3>2, SteadyMailed
    <3>4. db'.nMsg >= db.nMsg
        BY <3>2 DEF Steady, Carries
    <3> QED BY <3>1, <3>3, <3>4 DEF Onward, Sound
  <2> QED BY <2>2, <2>3
<1>3. ASSUME NEW t \in TaskIds, GateCreate(t) PROVE Onward(db, db')
    BY <1>0, <1>3, CreateGateCalm, CalmOnward DEF GateCreate
<1>4. ASSUME NEW g \in GateIds, GateResolve(g) PROVE Onward(db, db')
    BY <1>0, <1>4, ResolveGateCalm, CalmOnward DEF GateResolve
<1>5. ASSUME NEW scope \in ResetScopes, Reset(scope) PROVE Onward(db, db')
  <2>1. scope \in {"tasks", "messages", "all"}
      BY EnvironmentAssumption
  <2>2. db' = resetMessages(db) => Onward(db, db')
      BY <1>0, ResetMessagesCalm, CalmOnward
  <2> QED BY <1>0, <1>5, <2>1, <2>2, ResetTasksOnward DEF Reset
<1>6. ASSUME AgentSend PROVE Onward(db, db')
  <2>1. PICK from \in Senders, type \in SentTypes :
           SendLifecycle(from, type) \/ SendAboutTask(from, type)
      BY <1>6 DEF AgentSend
  <2>2. from \in Handles /\ type \in MessageTypes
      BY EnvironmentAssumption
  <2>3. 1..db.nTask \subseteq TaskIds /\ 0..db.nTask \subseteq {0} \cup TaskIds
    <3>1. db.nTask \in 0..MaxTasks
        BY <1>0 DEF Database
    <3> QED BY <3>1, BoundsAssumption DEF TaskIds
  <2>4. told \subseteq DispatchIds
      BY DEF TypeOK
  <2>5. \E t \in {0} \cup TaskIds, d \in {0} \cup DispatchIds : Send(from, type, t, d)
      BY <2>1, <2>3, <2>4 DEF SendLifecycle, SendAboutTask
  <2> QED BY <2>2, <2>5, SendOnward
<1> QED BY <1>1, <1>2, <1>3, <1>4, <1>5, <1>6

LEMMA HandleMessageOnward ==
    ASSUME TypeOK, db' \in Database, TodoKnown, NEW m \in MessageIds, HandleMessage(m)
    PROVE  Onward(db, db')
<1>1. db \in Database /\ db.msg[m].task \in {0} \cup TaskIds
    BY DEF TypeOK, Database, MessageRow
<1>2. m <= db.nMsg
    BY DEF HandleMessage, HandleLifecycle, HandleEscalation, HandleDecisionGate, HandleOther,
           IsNext, TodoKnown
<1>3. CASE HandleLifecycle(m)
    BY <1>1, <1>2, <1>3, ReconcileOnward DEF HandleLifecycle
<1>4. CASE HandleEscalation(m)
  <2> DEFINE t == db.msg[m].task
  <2>0. Onward(db, db)
      BY <1>1, Numbers DEF Onward
  <2>1. \A d \in DispatchIds : failDispatch(db, d) \in Database /\ Calm(db, failDispatch(db, d))
      BY <1>1, FailDispatchWrites, FailCalm DEF Writes
  <2>2. ASSUME NEW d \in DispatchIds, EscalationFails(t, d),
               db' = updateTaskStatus(failDispatch(db, d), t, "failed", m)
        PROVE  Onward(db, db')
    <3> DEFINE E == failDispatch(db, d)
    <3>1. t \in TaskIds /\ db.disp[d].status # "none"
        BY <2>2 DEF EscalationFails, TaskExists, IsLatestDispatch, DispatchesOf
    <3>2. E \in Database /\ Calm(db, E) /\ E.msg = db.msg /\ E.nMsg = db.nMsg
        BY <1>1, <2>1, <3>1, FailRows DEF SameRest, SameMail
    <3>3. db.msg[m].type # "worker_done"
        BY <1>4 DEF HandleEscalation
    <3>4. "failed" \in TaskStatuses /\ "failed" # "completed" /\ m \in {0} \cup MessageIds
        BY DEF TaskStatuses
    <3> HIDE DEF E, t
    <3>5. Calm(E, updateTaskStatus(E, t, "failed", m))
        BY <1>2, <3>1, <3>2, <3>3, <3>4, UpdateCalm
    <3>6. Calm(db, db')
        BY <1>1, <2>2, <3>2, <3>5, CalmTransitive DEF E
    <3> QED BY <1>1, <3>6, CalmOnward
  <2>3. ASSUME NEW d \in DispatchIds, db' = failDispatch(db, d) PROVE Onward(db, db')
      BY <1>1, <2>1, <2>3, CalmOnward
  <2> QED BY <1>4, <2>0, <2>2, <2>3 DEF HandleEscalation
<1>5. CASE HandleDecisionGate(m)
  <2>1. db.msg[m].task # 0 => Calm(db, db')
      BY <1>1, <1>5, CreateGateCalm DEF HandleDecisionGate
  <2>2. db.msg[m].task = 0 => Onward(db, db')
      BY <1>1, <1>5, Numbers DEF HandleDecisionGate, Onward
  <2> QED BY <1>1, <2>1, <2>2, CalmOnward
<1>6. CASE HandleOther(m)
    BY <1>1, <1>6, Numbers DEF HandleOther, Onward
<1> QED BY <1>3, <1>4, <1>5, <1>6 DEF HandleMessage

LEMMA CoordinatorOnward ==
    ASSUME TypeOK, db' \in Database, Mailed(db), NEW r \in RunIds, CallsInProgress,
           CoordinatorStep(r)
    PROVE  Onward(db, db')
<1>0. db \in Database
    BY DEF TypeOK
<1>1. CASE TickEnd(r)
  <2> DEFINE E == markAsRead(db, turn.batch)
  <2>1. E \in Database /\ Calm(db, E)
      BY <1>0, MarkAsReadWrites, MarkAsReadCalm DEF Writes
  <2>2. db' = restorePendingGateTaskStatuses(E)
      BY <1>1 DEF TickEnd
  <2> HIDE DEF E
  <2>3. Calm(E, db')
      BY <2>1, <2>2, RestoreCalm
  <2> QED BY <1>0, <2>1, <2>3, CalmTransitive, CalmOnward
<1>2. CASE DispatchTask(r)
  <2>1. coord[r].handle \in Handles
      BY DEF TypeOK, Coordinator
  <2>2. Onward(db, db)
      BY <1>0, Numbers DEF Onward
  <2> QED BY <1>2, <2>1, <2>2, DispatchesOnward DEF DispatchTask
<1>3. CASE Prompted(r)
  <2>1. coord[r].disp \in DispatchIds
      BY <1>3 DEF Prompted, CallsInProgress
  <2>2. Onward(db, db)
      BY <1>0, Numbers DEF Onward
  <2> QED BY <1>0, <1>3, <2>1, <2>2, FailCalm, CalmOnward DEF Prompted
<1>4. CASE Finish(r)
    BY <1>0, <1>4, RunsCalm, CalmOnward DEF Finish
<1>5. CASE \/ LoopTest(r) \/ ListTerminals(r) \/ CreateTerminal(r) \/ AssignNext(r)
           \/ CheckConvergence(r) \/ Wake(r)
  <2>1. db' = db
      BY <1>5 DEF LoopTest, ListTerminals, CreateTerminal, AssignNext, CheckConvergence, Wake
  <2> QED BY <1>0, <2>1, Numbers DEF Onward
<1> QED BY <1>1, <1>2, <1>3, <1>4, <1>5 DEF CoordinatorStep

LEMMA NextOnward ==
    ASSUME TypeOK, CallsInProgress, db' \in Database, Mailed(db), TodoKnown, Next
    PROVE  Onward(db, db')
<1>0. db \in Database /\ Onward(db, db)
    BY Numbers DEF TypeOK, Onward
<1>1. CASE CheckEnd \/ \E types \in CheckFilters : CheckBegin(types)
    BY <1>0, <1>1, MarkAsReadCalm, CalmOnward DEF CheckBegin, CheckEnd
<1>2. CASE Run \/ RunStop
    BY <1>0, <1>2, RunsCalm, CalmOnward DEF Run, RunStop
<1>3. ASSUME NEW c \in Clients, DispatchCall(c) PROVE Onward(db, db')
  <2>1. rpc[c].handle \in Handles
      BY DEF TypeOK, DispatchCallState
  <2>2. rpc[c].pc = "prompting" => rpc[c].disp \in DispatchIds
      BY DEF CallsInProgress
  <2> QED BY <1>0, <1>3, <2>1, <2>2, DispatchesOnward, FailCalm, CalmOnward
          DEF DispatchCall, DispatchRequest, DispatchUninjected, DispatchChecked, DispatchPrompted
<1>4. ASSUME NEW h \in Handles, TerminalExit(h) PROVE Onward(db, db')
  <2>1. \A d \in DispatchIds : failDispatch(db, d) \in Database /\ Calm(db, failDispatch(db, d))
      BY <1>0, FailDispatchWrites, FailCalm DEF Writes
  <2>2. ASSUME NEW d \in DispatchIds, NEW row, db' = insertMessage(failDispatch(db, d), row)
        PROVE  Onward(db, db')
      BY <1>0, <2>1, <2>2, InsertCalm, CalmTransitive, CalmOnward
  <2>3. ASSUME NEW d \in DispatchIds, db' = failDispatch(db, d) PROVE Onward(db, db')
      BY <1>0, <2>1, <2>3, CalmOnward
  <2> QED BY <1>0, <1>4, <2>2, <2>3 DEF TerminalExit
<1>5. CASE Crash
    BY <1>0, <1>5 DEF Crash
<1> QED BY <1>1, <1>2, <1>3, <1>4, <1>5, HandlersOnward, HandleMessageOnward,
           CoordinatorOnward DEF Next

LEMMA NextTodo ==
    ASSUME TypeOK, CallsInProgress, db' \in Database, Mailed(db), TodoKnown, Next
    PROVE  TodoKnown'
<1>1. db'.nMsg >= db.nMsg /\ db.nMsg \in Nat /\ db'.nMsg \in Nat /\ db \in Database
    BY NextOnward, Numbers DEF Onward, TypeOK
<1>2. \A m \in UnreadMessages(db) : m <= db.nMsg
    BY DEF UnreadMessages, Mailed
<1>3. \/ turn'.todo \subseteq turn.todo
      \/ turn'.todo \subseteq UnreadMessages(db)
      \/ turn'.todo = {}
  <2>1. turn \in Turn
      BY DEF TypeOK
  <2>2. ASSUME NEW m \in MessageIds, HandleMessage(m) PROVE turn'.todo \subseteq turn.todo
      BY <2>1, <2>2 DEF HandleMessage, Turn
  <2>3. ASSUME NEW r \in RunIds, CoordinatorStep(r)
        PROVE  \/ turn'.todo \subseteq turn.todo
               \/ turn'.todo \subseteq UnreadMessages(db)
               \/ turn'.todo = {}
    <3>1. CASE LoopTest(r)
        BY <3>1 DEF LoopTest
    <3>2. CASE TickEnd(r)
        BY <3>2 DEF TickEnd, FreeTurn
    <3>3. CASE \/ ListTerminals(r) \/ CreateTerminal(r) \/ AssignNext(r) \/ DispatchTask(r)
               \/ Prompted(r) \/ CheckConvergence(r) \/ Wake(r) \/ Finish(r)
      <4>1. turn' = turn
          BY <3>3 DEF ListTerminals, CreateTerminal, AssignNext, DispatchTask, Prompted,
                      CheckConvergence, Wake, Finish
      <4> QED BY <4>1
    <3> QED BY <2>3, <3>1, <3>2, <3>3 DEF CoordinatorStep
  <2>4. CASE CheckEnd \/ Crash
      BY <2>4 DEF CheckEnd, Crash, FreeTurn
  <2>5. ASSUME NEW types \in CheckFilters, CheckBegin(types)
        PROVE  turn'.todo \subseteq UnreadMessages(db)
      BY <2>5 DEF CheckBegin
  <2>6. CASE AgentSend
      BY <2>6 DEF AgentSend, SendLifecycle, SendAboutTask, Send
  <2>7. ASSUME NEW c \in Clients, DispatchCall(c) PROVE turn' = turn
      BY <2>7 DEF DispatchCall, DispatchRequest, DispatchUninjected, DispatchChecked,
                  DispatchPrompted
  <2>8. CASE \/ \E deps \in DepChoices : TaskCreate(deps)
             \/ \E t \in TaskIds, s \in ManualStatuses : TaskUpdate(t, s)
             \/ \E t \in TaskIds : GateCreate(t)
             \/ \E g \in GateIds : GateResolve(g)
             \/ \E scope \in ResetScopes : Reset(scope)
             \/ Run \/ RunStop
             \/ \E h \in Handles : TerminalExit(h)
      BY <2>8 DEF TaskCreate, TaskUpdate, GateCreate, GateResolve, Reset, Run, RunStop, TerminalExit
  <2> QED BY <2>2, <2>3, <2>4, <2>5, <2>6, <2>7, <2>8 DEF Next
<1>4. \A m \in turn'.todo : m \in Nat
  <2>1. turn'.todo \subseteq MessageIds \/ turn'.todo \subseteq turn.todo
      BY <1>3 DEF UnreadMessages
  <2> QED BY <1>1, <2>1, Numbers DEF TypeOK, Turn
<1> QED BY <1>1, <1>2, <1>3, <1>4 DEF TodoKnown

\* The inductive invariant of this module.
LifecycleInv == TypeOK /\ CallsInProgress /\ TodoKnown /\ Sound(db)

LEMMA InitLifecycle == Init => LifecycleInv
<1> SUFFICES ASSUME Init PROVE LifecycleInv
    OBVIOUS
<1>1. TypeOK /\ CallsInProgress
    BY InitTypes
<1>2. TodoKnown
    BY DEF Init, FreeTurn, TodoKnown
<1>3. Sound(db)
    BY EmptyDbType, EmptyRows, BareSound DEF Init
<1> QED BY <1>1, <1>2, <1>3 DEF LifecycleInv

LEMMA NextLifecycle == LifecycleInv /\ [Next]_vars => LifecycleInv'
<1>1. ASSUME LifecycleInv, Next PROVE LifecycleInv'
  <2>1. TypeOK' /\ CallsInProgress'
      BY <1>1, NextKeepsTypes DEF LifecycleInv
  <2>2. db' \in Database /\ Mailed(db)
      BY <1>1, <2>1 DEF TypeOK, LifecycleInv, Sound
  <2>3. Onward(db, db')
      BY <1>1, <2>2, NextOnward DEF LifecycleInv
  <2>4. TodoKnown'
      BY <1>1, <2>2, NextTodo DEF LifecycleInv
  <2>5. Sound(db')
      BY <1>1, <2>3 DEF LifecycleInv, Onward
  <2> QED BY <2>1, <2>4, <2>5 DEF LifecycleInv
<1>2. ASSUME LifecycleInv, UNCHANGED vars PROVE LifecycleInv'
  <2>1. TypeOK' /\ CallsInProgress'
      BY <1>2, StutterKeeps DEF LifecycleInv
  <2>2. Sound(db') /\ TodoKnown'
      BY <1>2 DEF LifecycleInv, vars, TodoKnown
  <2> QED BY <2>1, <2>2 DEF LifecycleInv
<1> QED BY <1>1, <1>2

LEMMA AuthenticIsLifecycleAuthority ==
    ASSUME TypeOK, Authentic(db)
    PROVE  LifecycleAuthority
<1>0. db \in Database
    BY DEF TypeOK
<1>1. ASSUME NEW t \in TaskIds, db.task[t].status = "completed"
      PROVE  \E m \in MessageIds :
                LET msg == db.msg[m]
                IN  /\ db.task[t].result = m
                    /\ msg.type = "worker_done" /\ ~msg.rejected
                    /\ msg.task = t /\ NamesDispatchOfTask(db, msg)
                    /\ hasLifecycleAuthority(db.disp[msg.disp], msg)
  <2> DEFINE m == db.task[t].result
  <2>1. /\ m # 0 /\ db.msg[m].type = "worker_done" /\ ~db.msg[m].rejected
        /\ db.msg[m].task = t /\ Authorised(db, db.msg[m])
      BY <1>1 DEF Authentic, Signed
  <2>2. m \in MessageIds
      BY <1>0, <2>1, Numbers
  <2>3. TaskExists(db, t)
      BY <1>1 DEF TaskExists
  <2>4. NamesDispatchOfTask(db, db.msg[m]) /\ hasLifecycleAuthority(db.disp[db.msg[m].disp], db.msg[m])
      BY <2>1, <2>3 DEF Authorised, NamesDispatchOfTask
  <2> QED BY <2>1, <2>2, <2>4
<1>2. ASSUME NEW d \in DispatchIds, db.disp[d].beat # 0
      PROVE  LET msg == db.msg[db.disp[d].beat]
             IN  msg.type = "heartbeat" /\ msg.disp = d /\ hasLifecycleAuthority(db.disp[d], msg)
    BY <1>2 DEF Authentic, Alive
<1> QED BY <1>1, <1>2 DEF LifecycleAuthority

LEMMA MailedIsEarlierHeartbeatsAreRead ==
    ASSUME Mailed(db)
    PROVE  EarlierHeartbeatsAreRead
BY DEF Mailed, Suppressed, EarlierHeartbeatsAreRead, UnreadMessages

\* Unless somebody completes a task by hand, every completed task was completed
\* by a worker_done from the pane (or handle) its dispatch was given to, and
\* every recorded heartbeat came from there: neither a retry on another pane,
\* a moved tab, a reset, a stale message that is handled late nor a crash in the
\* middle of a message loop lets another agent's report through.
THEOREM ReportsHaveAuthority == NoManualCompletion => (Spec => []LifecycleAuthority)
<1> SUFFICES ASSUME NoManualCompletion PROVE Spec => []LifecycleAuthority
    OBVIOUS
<1>1. LifecycleInv => LifecycleAuthority
    BY AuthenticIsLifecycleAuthority DEF LifecycleInv, Sound
<1> QED BY <1>1, InitLifecycle, NextLifecycle, PTL DEF Spec

\* After a worker_done has completed its dispatch, no heartbeat of that
\* dispatch that is older is unread, whichever reader comes first and whatever
\* is overridden, reset or retried afterwards.
THEOREM NoStaleHeartbeats == Spec => []EarlierHeartbeatsAreRead
<1>1. LifecycleInv => EarlierHeartbeatsAreRead
    BY MailedIsEarlierHeartbeatsAreRead DEF LifecycleInv, Sound
<1> QED BY <1>1, InitLifecycle, NextLifecycle, PTL DEF Spec
=============================================================================
