---------------------------- MODULE BoardProofs ----------------------------
(***************************************************************************)
(* The orchestration subsystem implements the task board: for every number *)
(* of tasks, dispatches, messages, terminals, runs, exits and crashes, as  *)
(* long as gates, status overrides, task resets and manual dispatches are  *)
(* left alone.  With gates, and the other three left alone, a gate holds   *)
(* its task.                                                               *)
(***************************************************************************)
EXTENDS LifecycleProofs, OrchestrationBoard, FiniteSetTheorems

\* The coordinator is the only one that dispatches, and nobody overrides or
\* deletes tasks behind its back.
Unmeddled ==
    /\ ManualStatuses = {}
    /\ ResetScopes \subseteq {"messages"}
    /\ Clients = {}

\* Nor does anybody open a gate.
Alone == Unmeddled /\ MaxGates = 0

-----------------------------------------------------------------------------
(* The inductive invariant of the database.                                *)

\* Ids are handed out in order, and a dispatch belongs to a task.
Rows(D) ==
    /\ \A d \in DispatchIds : D.disp[d].status # "none" <=> d <= D.nDisp
    /\ \A t \in TaskIds : D.task[t].status # "none" <=> t <= D.nTask
    /\ \A d \in DispatchIds : D.disp[d].status # "none" =>
          D.disp[d].task \in TaskIds /\ D.disp[d].task <= D.nTask

\* d is the newest dispatch of its task.
Newest(D, d) ==
    \A e \in DispatchIds :
        D.disp[e].status # "none" /\ D.disp[e].task = D.disp[d].task => e <= d

\* What the newest dispatch of a task says of the task.
Outcome(dispatch, task) ==
    \/ dispatch = "dispatched" /\ task = "dispatched"
    \/ dispatch = "completed" /\ task = "completed"
    \/ dispatch = "failed" /\ task = "ready"
    \/ dispatch = "circuit_broken" /\ task = "failed"

\* A task is where its newest dispatch has left it; older dispatches have failed.
Matched(D) ==
    \A d \in DispatchIds : D.disp[d].status # "none" =>
        IF Newest(D, d)
        THEN Outcome(D.disp[d].status, D.task[D.disp[d].task].status)
        ELSE D.disp[d].status = "failed"

\* Failures are carried over to the next dispatch, and the third one trips the
\* breaker.
Counted(D) ==
    /\ \A d \in DispatchIds :
          /\ D.disp[d].status \in {"dispatched", "completed", "failed"} => D.disp[d].failures <= 2
          /\ D.disp[d].status = "failed" => D.disp[d].failures >= 1
          /\ D.disp[d].status = "circuit_broken" => D.disp[d].failures >= 3
    /\ \A d, e \in DispatchIds :
          /\ D.disp[d].status # "none" /\ D.disp[e].status # "none"
          /\ D.disp[d].task = D.disp[e].task /\ d <= e
          => D.disp[d].failures <= D.disp[e].failures

\* DependenciesFirst, for any database.
Ordered(D) ==
    \A t \in TaskIds : D.task[t].status \in {"ready", "dispatched", "completed"} =>
        \A d \in D.task[t].deps : D.task[d].status = "completed"

Regular(D) == Rows(D) /\ Matched(D) /\ Counted(D) /\ Ordered(D)

-----------------------------------------------------------------------------
(* What a step may do to tasks and dispatches.                             *)

TaskSame(D, E, t) ==
    E.task[t].status = D.task[t].status /\ E.task[t].deps = D.task[t].deps

DispSame(D, E, d) ==
    /\ E.disp[d].status = D.disp[d].status /\ E.disp[d].task = D.disp[d].task
    /\ E.disp[d].handle = D.disp[d].handle /\ E.disp[d].failures = D.disp[d].failures

\* Nothing.
Untouched(D, E) ==
    /\ E.nTask = D.nTask /\ E.nDisp = D.nDisp
    /\ \A t \in TaskIds : TaskSame(D, E, t)
    /\ \A d \in DispatchIds : DispSame(D, E, d)

\* A new task t that depends on ds.
Posted(D, E, t, ds) ==
    /\ t \in TaskIds /\ t = D.nTask + 1
    /\ ds \in SUBSET TaskIds /\ \A d \in ds : d <= D.nTask
    /\ E.nTask = t /\ E.nDisp = D.nDisp
    /\ E.task[t].status = IF ds = {} THEN "ready" ELSE "pending"
    /\ E.task[t].deps = ds
    /\ \A u \in TaskIds : u # t => TaskSame(D, E, u)
    /\ \A d \in DispatchIds : DispSame(D, E, d)

\* A new dispatch k of the ready task t to h, which has none.
Taken(D, E, t, k, h) ==
    /\ t \in TaskIds /\ k \in DispatchIds /\ k = D.nDisp + 1 /\ h \in Handles
    /\ D.task[t].status = "ready"
    /\ \A d \in DispatchIds : D.disp[d].status = "dispatched" => D.disp[d].handle # h
    /\ E.nTask = D.nTask /\ E.nDisp = k
    /\ E.disp[k].status = "dispatched" /\ E.disp[k].task = t /\ E.disp[k].handle = h
    /\ IsPriorFailures(D, t, E.disp[k].failures)
    /\ \A d \in DispatchIds : d # k => DispSame(D, E, d)
    /\ E.task[t].status = "dispatched" /\ E.task[t].deps = D.task[t].deps
    /\ \A u \in TaskIds : u # t => TaskSame(D, E, u)

\* A failure of the newest dispatch d of t.
Struck(D, E, t, d) ==
    /\ t \in TaskIds /\ d \in DispatchIds /\ D.disp[d].task = t
    /\ D.disp[d].status \in {"dispatched", "failed", "circuit_broken"} /\ Newest(D, d)
    /\ E.nTask = D.nTask /\ E.nDisp = D.nDisp
    /\ E.disp[d].task = t /\ E.disp[d].handle = D.disp[d].handle
    /\ E.disp[d].failures = D.disp[d].failures + 1
    /\ IF E.disp[d].failures >= 3
       THEN E.disp[d].status = "circuit_broken" /\ E.task[t].status = "failed"
       ELSE E.disp[d].status = "failed" /\ E.task[t].status = "ready"
    /\ \A e \in DispatchIds : e # d => DispSame(D, E, e)
    /\ E.task[t].deps = D.task[t].deps
    /\ \A u \in TaskIds : u # t => TaskSame(D, E, u)

\* Task u only waited for t.
WaitsFor(D, u, t) ==
    /\ D.task[u].status = "pending" /\ t \in D.task[u].deps
    /\ \A v \in D.task[u].deps : v = t \/ D.task[v].status = "completed"

\* The completion of the newest dispatch d of t.
Done(D, E, t, d) ==
    /\ t \in TaskIds /\ d \in DispatchIds /\ D.disp[d].task = t
    /\ D.disp[d].status = "dispatched" /\ Newest(D, d) /\ D.task[t].status = "dispatched"
    /\ E.nTask = D.nTask /\ E.nDisp = D.nDisp
    /\ E.disp[d].status = "completed" /\ E.disp[d].task = t
    /\ E.disp[d].handle = D.disp[d].handle /\ E.disp[d].failures = D.disp[d].failures
    /\ \A e \in DispatchIds : e # d => DispSame(D, E, e)
    /\ E.task[t].status = "completed" /\ E.task[t].deps = D.task[t].deps
    /\ \A u \in TaskIds : u # t =>
          /\ E.task[u].deps = D.task[u].deps
          /\ E.task[u].status = IF WaitsFor(D, u, t) THEN "ready" ELSE D.task[u].status

\* The writes other than a dispatch; only dispatches in T are completed.
Minor(D, E, T) ==
    \/ Untouched(D, E)
    \/ \E t \in TaskIds, ds \in SUBSET TaskIds : Posted(D, E, t, ds)
    \/ \E t \in TaskIds, d \in DispatchIds : Struck(D, E, t, d)
    \/ \E t \in TaskIds, d \in T : Done(D, E, t, d)

-----------------------------------------------------------------------------
(* Each of them keeps the invariant.                                       *)

LEMMA UntouchedRows ==
    ASSUME NEW D, NEW E, Untouched(D, E), Rows(D)
    PROVE  Rows(E)
BY DEF Rows, Untouched, DispSame, TaskSame

LEMMA PostedRows ==
    ASSUME NEW D \in Database, NEW E, NEW t, NEW ds, Posted(D, E, t, ds), Rows(D)
    PROVE  Rows(E)
<1>0. D.nTask \in Nat /\ \A u \in TaskIds : u \in Nat
    BY Numbers
<1>1. \A u \in TaskIds : E.task[u].status # "none" <=> u <= E.nTask
  <2>1. E.task[t].status # "none" /\ t <= t
      BY <1>0 DEF Posted
  <2>2. \A u \in TaskIds : u # t => (u <= t <=> u <= D.nTask)
      BY <1>0 DEF Posted
  <2> QED BY <2>1, <2>2 DEF Rows, Posted, TaskSame
<1>2. \A d \in DispatchIds : E.disp[d].status # "none" <=> d <= E.nDisp
    BY DEF Rows, Posted, DispSame
<1>3. \A d \in DispatchIds : E.disp[d].status # "none" =>
         E.disp[d].task \in TaskIds /\ E.disp[d].task <= E.nTask
  <2>1. \A d \in DispatchIds : D.disp[d].status # "none" =>
           D.disp[d].task \in TaskIds /\ D.disp[d].task <= D.nTask
      BY DEF Rows
  <2>2. \A u \in TaskIds : u <= D.nTask => u <= E.nTask
      BY <1>0 DEF Posted
  <2> QED BY <2>1, <2>2 DEF Posted, DispSame
<1> QED BY <1>1, <1>2, <1>3 DEF Rows

LEMMA TakenRows ==
    ASSUME NEW D \in Database, NEW E, NEW t, NEW k, NEW h, Taken(D, E, t, k, h), Rows(D)
    PROVE  Rows(E)
<1>0. D.nDisp \in Nat /\ \A d \in DispatchIds : d \in Nat
    BY Numbers
<1>1. D.task[t].status # "none"
    BY DEF Taken
<1>2. \A d \in DispatchIds : E.disp[d].status # "none" <=> d <= E.nDisp
    BY <1>0 DEF Rows, Taken, DispSame
<1> QED BY <1>0, <1>1, <1>2 DEF Rows, Taken, DispSame, TaskSame

LEMMA DoneRows ==
    ASSUME NEW D, NEW E, NEW t, NEW d, Done(D, E, t, d), Rows(D)
    PROVE  Rows(E)
<1>1. \A e \in DispatchIds : /\ E.disp[e].task = D.disp[e].task
                             /\ E.disp[e].status # "none" <=> D.disp[e].status # "none"
    BY DEF Done, DispSame
<1>2. \A u \in TaskIds : E.task[u].status # "none" <=> D.task[u].status # "none"
    BY DEF Done, WaitsFor
<1> QED BY <1>1, <1>2 DEF Rows, Done

LEMMA UntouchedRegular ==
    ASSUME NEW D \in Database, NEW E, Untouched(D, E), Regular(D)
    PROVE  Regular(E)
<1>1. \A d \in DispatchIds : Newest(E, d) <=> Newest(D, d)
    BY DEF Newest, Untouched, DispSame
<1>2. Rows(E)
    BY UntouchedRows DEF Regular
<1>3. Matched(E)
    BY <1>1 DEF Regular, Rows, Matched, Untouched, DispSame, TaskSame
<1>4. Counted(E)
    BY DEF Regular, Counted, Untouched, DispSame
<1>5. Ordered(E)
  <2>1. \A t \in TaskIds : D.task[t].deps \subseteq TaskIds
      BY DEF Database, TaskRow
  <2> QED BY <2>1 DEF Regular, Ordered, Untouched, TaskSame
<1> QED BY <1>2, <1>3, <1>4, <1>5 DEF Regular

LEMMA PostedRegular ==
    ASSUME NEW D \in Database, NEW E, NEW t, NEW ds, Posted(D, E, t, ds), Regular(D)
    PROVE  Regular(E)
<1>0. /\ D.nTask \in Nat /\ \A u \in TaskIds : u \in Nat
      /\ \A u \in TaskIds : D.task[u].deps \subseteq TaskIds
    BY Numbers DEF Database, TaskRow
<1>1. \A d \in DispatchIds : Newest(E, d) <=> Newest(D, d)
    BY DEF Newest, Posted, DispSame
<1>2. Rows(E)
    BY PostedRows DEF Regular
<1>3. Matched(E)
  <2>1. \A d \in DispatchIds : D.disp[d].status # "none" =>
           D.disp[d].task \in TaskIds /\ D.disp[d].task # t
      BY <1>0 DEF Regular, Rows, Posted
  <2>2. \A d \in DispatchIds : D.disp[d].status # "none" =>
           E.task[D.disp[d].task].status = D.task[D.disp[d].task].status
      BY <2>1 DEF Posted, TaskSame
  <2>3. \A d \in DispatchIds :
           E.disp[d].status = D.disp[d].status /\ E.disp[d].task = D.disp[d].task
      BY DEF Posted, DispSame
  <2> QED BY <1>1, <2>2, <2>3 DEF Regular, Matched
<1>4. Counted(E)
    BY DEF Regular, Counted, Posted, DispSame
<1>5. Ordered(E)
  <2>1. D.task[t].status = "none"
      BY <1>0 DEF Regular, Rows, Posted
  <2>2. \A v \in TaskIds : D.task[v].status = "completed" => E.task[v].status = "completed"
      BY <2>1 DEF Posted, TaskSame
  <2>3. ASSUME NEW u \in TaskIds, E.task[u].status \in {"ready", "dispatched", "completed"},
               NEW v \in E.task[u].deps
        PROVE  E.task[v].status = "completed"
    <3>1. CASE u = t
        BY <2>3, <3>1 DEF Posted
    <3>2. CASE u # t
        BY <1>0, <2>2, <2>3, <3>2 DEF Regular, Ordered, Posted, TaskSame
    <3> QED BY <3>1, <3>2
  <2> QED BY <2>3 DEF Ordered
<1> QED BY <1>2, <1>3, <1>4, <1>5 DEF Regular

LEMMA TakenRegular ==
    ASSUME NEW D \in Database, NEW E, NEW t, NEW k, NEW h, Taken(D, E, t, k, h), Regular(D)
    PROVE  Regular(E)
<1>0. /\ D.nDisp \in Nat /\ \A d \in DispatchIds : d \in Nat
      /\ \A u \in TaskIds : D.task[u].deps \subseteq TaskIds
    BY Numbers DEF Database, TaskRow
<1>1. D.disp[k].status = "none"
    BY <1>0 DEF Regular, Rows, Taken
<1>2. \A d \in DispatchIds : d # k /\ E.disp[d].status # "none" => d < k /\ d <= k /\ ~(k <= d)
    BY <1>0 DEF Regular, Rows, Taken, DispSame
<1>3. Rows(E)
    BY TakenRows DEF Regular
<1>4. \* The dispatches that t had have failed.
      \A d \in DispatchIds : D.disp[d].status # "none" /\ D.disp[d].task = t =>
         D.disp[d].status = "failed"
    BY DEF Regular, Matched, Outcome, Taken
<1>5. Matched(E)
  <2>1. Newest(E, k)
    <3>1. k <= k
        BY <1>0 DEF Taken
    <3> QED BY <1>2, <3>1 DEF Newest
  <2>2. ASSUME NEW d \in DispatchIds, d # k, E.disp[d].status # "none", E.disp[d].task = t
        PROVE  ~Newest(E, d) /\ E.disp[d].status = "failed"
    <3>1. E.disp[d].status = "failed"
        BY <1>4, <2>2 DEF Taken, DispSame
    <3>2. ~Newest(E, d)
        BY <1>2, <2>2 DEF Newest, Taken
    <3> QED BY <3>1, <3>2
  <2>3. ASSUME NEW d \in DispatchIds, d # k, E.disp[d].status # "none", E.disp[d].task # t
        PROVE  /\ Newest(E, d) <=> Newest(D, d)
               /\ D.disp[d].status = E.disp[d].status /\ D.disp[d].task = E.disp[d].task
               /\ D.disp[d].task \in TaskIds
               /\ E.task[D.disp[d].task].status = D.task[D.disp[d].task].status
    <3>1. D.disp[d].status = E.disp[d].status /\ D.disp[d].task = E.disp[d].task
        BY <2>3 DEF Taken, DispSame
    <3>2. D.disp[d].task \in TaskIds
        BY <2>3, <3>1 DEF Regular, Rows
    <3>3. Newest(E, d) <=> Newest(D, d)
        BY <1>1, <2>3, <3>1 DEF Newest, Taken, DispSame
    <3> QED BY <2>3, <3>1, <3>2, <3>3 DEF Taken, TaskSame
  <2>4. Outcome(E.disp[k].status, E.task[E.disp[k].task].status)
      BY DEF Taken, Outcome
  <2> QED BY <2>1, <2>2, <2>3, <2>4 DEF Regular, Matched
<1>6. Counted(E)
  <2> DEFINE n == E.disp[k].failures
  <2>1. n <= 2
    <3>1. n = 0 \/ \E d \in DispatchesOf(D, t) : D.disp[d].failures = n
        BY DEF Taken, IsPriorFailures
    <3>2. \A d \in DispatchesOf(D, t) : D.disp[d].failures <= 2
        BY <1>4 DEF DispatchesOf, Regular, Counted
    <3> QED BY <3>1, <3>2
  <2>2. \A d \in DispatchIds : D.disp[d].status # "none" /\ D.disp[d].task = t =>
           D.disp[d].failures <= n
      BY DEF Taken, IsPriorFailures, DispatchesOf
  <2>3. n <= n
      BY <2>1 DEF Taken, IsPriorFailures, Database, DispatchRow, DispatchesOf
  <2> HIDE DEF n
  <2>4. \A d \in DispatchIds : d # k => DispSame(D, E, d)
      BY DEF Taken
  <2>5. E.disp[k].status = "dispatched" /\ E.disp[k].task = t /\ E.disp[k].failures = n
      BY DEF Taken, n
  <2>6. ASSUME NEW d \in DispatchIds, NEW e \in DispatchIds,
               E.disp[d].status # "none", E.disp[e].status # "none",
               E.disp[d].task = E.disp[e].task, d <= e
        PROVE  E.disp[d].failures <= E.disp[e].failures
    <3>1. CASE d = k
      <4>1. e = k
          BY <1>2, <2>6, <3>1
      <4> QED BY <2>3, <2>5, <3>1, <4>1
    <3>2. CASE d # k /\ e = k
        BY <2>2, <2>4, <2>5, <2>6, <3>2 DEF DispSame
    <3>3. CASE d # k /\ e # k
        BY <2>4, <2>6, <3>3 DEF DispSame, Regular, Counted
    <3> QED BY <3>1, <3>2, <3>3
  <2>7. ASSUME NEW d \in DispatchIds
        PROVE  /\ E.disp[d].status \in {"dispatched", "completed", "failed"} =>
                     E.disp[d].failures <= 2
               /\ E.disp[d].status = "failed" => E.disp[d].failures >= 1
               /\ E.disp[d].status = "circuit_broken" => E.disp[d].failures >= 3
      BY <2>1, <2>4, <2>5 DEF DispSame, Regular, Counted
  <2> QED BY <2>6, <2>7 DEF Counted
<1>7. Ordered(E)
  <2>1. \A v \in TaskIds : D.task[v].status = "completed" => E.task[v].status = "completed"
      BY DEF Taken, TaskSame
  <2> QED BY <1>0, <2>1 DEF Regular, Ordered, Taken, TaskSame
<1> QED BY <1>3, <1>5, <1>6, <1>7 DEF Regular

LEMMA StruckRegular ==
    ASSUME NEW D \in Database, NEW E, NEW t, NEW d, Struck(D, E, t, d), Regular(D)
    PROVE  Regular(E)
<1>0. /\ \A u \in TaskIds : D.task[u].deps \subseteq TaskIds
      /\ D.disp[d].failures \in Nat
    BY DEF Database, TaskRow, DispatchRow, Struck
<1>1. \A e \in DispatchIds : /\ E.disp[e].task = D.disp[e].task
                             /\ E.disp[e].status # "none" <=> D.disp[e].status # "none"
    BY DEF Struck, DispSame
<1>2. \A e \in DispatchIds : Newest(E, e) <=> Newest(D, e)
    BY <1>1 DEF Newest
<1>3. D.task[t].status \in {"dispatched", "ready", "failed"}
      /\ (D.task[t].status = "failed" => E.task[t].status = "failed")
  <2>1. Outcome(D.disp[d].status, D.task[t].status)
      BY DEF Regular, Matched, Struck
  <2>2. D.disp[d].status = "circuit_broken" => D.disp[d].failures >= 3
      BY DEF Struck, Regular, Counted
  <2>3. D.disp[d].failures >= 3 => E.disp[d].failures >= 3
      BY <1>0 DEF Struck
  <2> QED BY <2>1, <2>2, <2>3 DEF Outcome, Struck
<1>4. Rows(E)
    BY <1>1, <1>3 DEF Regular, Rows, Struck, TaskSame
<1>5. Matched(E)
  <2>1. ASSUME NEW e \in DispatchIds, e # d, E.disp[e].status # "none", E.disp[e].task = t
        PROVE  ~Newest(E, e) /\ E.disp[e].status = "failed"
    <3>1. ~Newest(D, e)
      <4>1. d \in DispatchIds /\ e <= d /\ D.disp[d].status # "none" /\ D.disp[d].task = t
          BY <1>1, <2>1 DEF Newest, Struck
      <4>2. ~(d <= e)
          BY <2>1, <4>1, Numbers
      <4> QED BY <1>1, <2>1, <4>1, <4>2 DEF Newest
    <3> QED BY <1>2, <2>1, <3>1 DEF Regular, Matched, Struck, DispSame
  <2>2. ASSUME NEW e \in DispatchIds, E.disp[e].status # "none", E.disp[e].task # t
        PROVE  /\ D.disp[e].status = E.disp[e].status /\ D.disp[e].task = E.disp[e].task
               /\ D.disp[e].task \in TaskIds
               /\ E.task[D.disp[e].task].status = D.task[D.disp[e].task].status
    <3>1. D.disp[e].status = E.disp[e].status /\ D.disp[e].task = E.disp[e].task
        BY <2>2 DEF Struck, DispSame
    <3>2. D.disp[e].task \in TaskIds
        BY <2>2, <3>1 DEF Regular, Rows
    <3> QED BY <2>2, <3>1, <3>2 DEF Struck, TaskSame
  <2>3. Newest(E, d) /\ Outcome(E.disp[d].status, E.task[E.disp[d].task].status)
      BY <1>2 DEF Struck, Outcome
  <2> QED BY <1>2, <2>1, <2>2, <2>3 DEF Regular, Matched
<1>6. Counted(E)
  <2> DEFINE n == D.disp[d].failures
  <2>1. \A e \in DispatchIds : e # d => DispSame(D, E, e)
      BY DEF Struck
  <2>2. /\ E.disp[d].failures = n + 1 /\ E.disp[d].task = t /\ d \in DispatchIds
        /\ E.disp[d].failures >= 3 => E.disp[d].status = "circuit_broken"
        /\ ~(E.disp[d].failures >= 3) => E.disp[d].status = "failed"
      BY DEF Struck, n
  <2>3. n \in Nat
      BY <1>0
  <2>4. \A e \in DispatchIds : E.disp[e].status # "none" /\ E.disp[e].task = t =>
           e <= d /\ (d <= e => e = d)
    <3>1. \A e \in DispatchIds : E.disp[e].status # "none" /\ E.disp[e].task = t => e <= d
        BY <1>1 DEF Struck, Newest
    <3> QED BY <2>2, <3>1, Numbers
  <2>5. \A e \in DispatchIds : E.disp[e].status # "none" /\ E.disp[e].task = t /\ e # d =>
           E.disp[e].failures <= n
    <3>1. D.disp[d].status # "none" /\ D.disp[d].task = t
        BY DEF Struck
    <3> QED BY <2>1, <2>2, <2>4, <3>1 DEF DispSame, Regular, Counted
  <2> HIDE DEF n
  <2>6. ASSUME NEW a \in DispatchIds, NEW b \in DispatchIds,
               E.disp[a].status # "none", E.disp[b].status # "none",
               E.disp[a].task = E.disp[b].task, a <= b
        PROVE  E.disp[a].failures <= E.disp[b].failures
    <3>1. CASE a = d
        BY <2>2, <2>3, <2>4, <2>6, <3>1
    <3>2. CASE a # d /\ b = d
      <4>1. E.disp[a].failures <= n
          BY <2>2, <2>5, <2>6, <3>2
      <4>2. E.disp[a].failures \in Nat
          BY <2>1, <3>2 DEF DispSame, Database, DispatchRow
      <4> QED BY <2>2, <2>3, <3>2, <4>1, <4>2
    <3>3. CASE a # d /\ b # d
        BY <2>1, <2>6, <3>3 DEF DispSame, Regular, Counted
    <3> QED BY <3>1, <3>2, <3>3
  <2>7. ASSUME NEW e \in DispatchIds
        PROVE  /\ E.disp[e].status \in {"dispatched", "completed", "failed"} =>
                     E.disp[e].failures <= 2
               /\ E.disp[e].status = "failed" => E.disp[e].failures >= 1
               /\ E.disp[e].status = "circuit_broken" => E.disp[e].failures >= 3
    <3>1. CASE e = d
        BY <2>2, <2>3, <3>1
    <3>2. CASE e # d
        BY <2>1, <3>2 DEF DispSame, Regular, Counted
    <3> QED BY <3>1, <3>2
  <2> QED BY <2>6, <2>7 DEF Counted
<1>7. Ordered(E)
  <2>1. \A v \in TaskIds : D.task[v].status = "completed" => E.task[v].status = "completed"
      BY <1>3 DEF Struck, TaskSame
  <2>2. ASSUME NEW u \in TaskIds, E.task[u].status \in {"ready", "dispatched", "completed"},
               NEW v \in E.task[u].deps
        PROVE  E.task[v].status = "completed"
    <3>1. /\ D.task[u].status \in {"ready", "dispatched", "completed"}
          /\ E.task[u].deps = D.task[u].deps
        BY <1>3, <2>2 DEF Struck, TaskSame
    <3> QED BY <1>0, <2>1, <2>2, <3>1 DEF Regular, Ordered
  <2> QED BY <2>2 DEF Ordered
<1> QED BY <1>4, <1>5, <1>6, <1>7 DEF Regular

LEMMA DoneRegular ==
    ASSUME NEW D \in Database, NEW E, NEW t, NEW d, Done(D, E, t, d), Regular(D)
    PROVE  Regular(E)
<1>0. \A u \in TaskIds : D.task[u].deps \subseteq TaskIds
    BY DEF Database, TaskRow
<1>1. \A e \in DispatchIds : /\ E.disp[e].task = D.disp[e].task
                             /\ E.disp[e].failures = D.disp[e].failures
                             /\ E.disp[e].status # "none" <=> D.disp[e].status # "none"
    BY DEF Done, DispSame
<1>2. \A e \in DispatchIds : Newest(E, e) <=> Newest(D, e)
    BY <1>1 DEF Newest
<1>3. Rows(E)
    BY DoneRows DEF Regular
<1>4. Matched(E)
  <2>1. ASSUME NEW e \in DispatchIds, e # d, E.disp[e].status # "none", ~Newest(E, e)
        PROVE  E.disp[e].status = "failed"
      BY <1>1, <1>2, <2>1 DEF Regular, Matched, Done, DispSame
  <2>2. ASSUME NEW e \in DispatchIds, e # d, E.disp[e].status # "none", Newest(E, e)
        PROVE  Outcome(E.disp[e].status, E.task[E.disp[e].task].status)
    <3> DEFINE u == D.disp[e].task
    <3>1. /\ D.disp[e].status = E.disp[e].status /\ E.disp[e].task = u /\ u \in TaskIds
          /\ Outcome(D.disp[e].status, D.task[u].status)
        BY <1>1, <1>2, <2>2 DEF Regular, Rows, Matched, Done, DispSame
    <3>2. u # t
      <4>1. u = t => d <= e /\ e <= d
        <5>1. D.disp[d].status # "none" /\ D.disp[d].task = t /\ d \in DispatchIds /\ Newest(D, d)
            BY DEF Done
        <5>2. D.disp[e].status # "none" /\ Newest(D, e)
            BY <1>1, <1>2, <2>2
        <5> QED BY <5>1, <5>2 DEF Newest
      <4>2. d \in Nat /\ e \in Nat
          BY Numbers DEF Done
      <4> QED BY <2>2, <4>1, <4>2
    <3>3. ~WaitsFor(D, u, t)
        BY <3>1 DEF WaitsFor, Outcome
    <3> QED BY <3>1, <3>2, <3>3 DEF Done
  <2>3. Newest(E, d) /\ Outcome(E.disp[d].status, E.task[E.disp[d].task].status)
      BY <1>2 DEF Done, Outcome
  <2> QED BY <2>1, <2>2, <2>3 DEF Matched
<1>5. Counted(E)
  <2>1. D.disp[d].failures <= 2 /\ E.disp[d].status = "completed"
      BY DEF Regular, Counted, Done
  <2> QED BY <1>1, <2>1 DEF Regular, Counted, Done, DispSame
<1>6. Ordered(E)
  <2>1. \A v \in TaskIds : D.task[v].status = "completed" => E.task[v].status = "completed"
      BY DEF Done, WaitsFor
  <2>2. E.task[t].status = "completed"
      BY DEF Done
  <2>3. ASSUME NEW u \in TaskIds, E.task[u].status \in {"ready", "dispatched", "completed"},
               NEW v \in E.task[u].deps
        PROVE  E.task[v].status = "completed"
    <3>1. E.task[u].deps = D.task[u].deps
        BY DEF Done
    <3>2. CASE u # t /\ WaitsFor(D, u, t)
        BY <1>0, <2>1, <2>2, <2>3, <3>1, <3>2 DEF WaitsFor
    <3>3. CASE u = t \/ ~WaitsFor(D, u, t)
      <4>1. D.task[u].status \in {"ready", "dispatched", "completed"}
          BY <2>3, <3>3 DEF Done
      <4> QED BY <1>0, <2>1, <2>3, <3>1, <4>1 DEF Regular, Ordered
    <3> QED BY <3>2, <3>3
  <2> QED BY <2>3 DEF Ordered
<1> QED BY <1>3, <1>4, <1>5, <1>6 DEF Regular
-----------------------------------------------------------------------------
(* Each of them is a step of the board.                                    *)

\* The refinement mapping, for any database.
Stages(D) == [t \in TaskIds |-> StageName[D.task[t].status]]
Waits(D) == [t \in TaskIds |-> D.task[t].deps]
HoldersIn(D, t) == {D.disp[d].handle : d \in DispatchesOf(D, t) \cap ActiveDispatches(D)}
FailuresIn(D, t) ==
    LET counts == {0} \cup {D.disp[d].failures : d \in DispatchesOf(D, t)}
        most   == CHOOSE n \in counts : \A k \in counts : k <= n
    IN  IF most > 3 THEN 3 ELSE most
Holders(D) == [t \in TaskIds |-> HoldersIn(D, t)]
Strikes(D) == [t \in TaskIds |-> FailuresIn(D, t)]

LEMMA StageNames ==
    /\ StageName["none"] = "none" /\ StageName["pending"] = "waiting"
    /\ StageName["ready"] = "open" /\ StageName["dispatched"] = "taken"
    /\ StageName["completed"] = "done" /\ StageName["failed"] = "dropped"
    /\ StageName["blocked"] = "blocked"
BY DEF StageName

\* Holders and failures only depend on the task's own dispatches.
LEMMA OwnDispatches ==
    ASSUME NEW D, NEW E, NEW t,
           \A d \in DispatchIds :
              \/ DispSame(D, E, d)
              \/ /\ D.disp[d].status = "none" \/ D.disp[d].task # t
                 /\ E.disp[d].status = "none" \/ E.disp[d].task # t
    PROVE  HoldersIn(E, t) = HoldersIn(D, t) /\ FailuresIn(E, t) = FailuresIn(D, t)
<1>1. DispatchesOf(E, t) = DispatchesOf(D, t)
    BY DEF DispatchesOf, DispSame
<1>2. \A d \in DispatchesOf(D, t) : DispSame(D, E, d)
    BY DEF DispatchesOf
<1>3. {E.disp[d].failures : d \in DispatchesOf(E, t)} = {D.disp[d].failures : d \in DispatchesOf(D, t)}
    BY <1>1, <1>2 DEF DispSame
<1>4. DispatchesOf(E, t) \cap ActiveDispatches(E) = DispatchesOf(D, t) \cap ActiveDispatches(D)
    BY <1>1, <1>2 DEF DispatchesOf, ActiveDispatches, DispSame
<1>5. HoldersIn(E, t) = HoldersIn(D, t)
    BY <1>2, <1>4 DEF HoldersIn, DispSame
<1>6. FailuresIn(E, t) = FailuresIn(D, t)
  <2> DEFINE Counts(F) == {0} \cup {F.disp[d].failures : d \in DispatchesOf(F, t)}
             Capped(C) == LET most == CHOOSE n \in C : \A k \in C : k <= n
                          IN  IF most > 3 THEN 3 ELSE most
  <2>1. Counts(E) = Counts(D)
      BY <1>3
  <2>2. FailuresIn(E, t) = Capped(Counts(E)) /\ FailuresIn(D, t) = Capped(Counts(D))
      BY DEF FailuresIn
  <2> HIDE DEF Counts, Capped
  <2> QED BY <2>1, <2>2
<1> QED BY <1>5, <1>6

\* What createDispatchContext carries over is what the board has counted.
LEMMA PriorIsCounted ==
    ASSUME NEW D, NEW t, NEW n \in Nat, IsPriorFailures(D, t, n),
           \A d \in DispatchIds : D.disp[d].failures \in Nat
    PROVE  FailuresIn(D, t) = IF n > 3 THEN 3 ELSE n
<1> DEFINE counts == {0} \cup {D.disp[d].failures : d \in DispatchesOf(D, t)}
           most == CHOOSE k \in counts : \A j \in counts : j <= k
<1>1. counts \subseteq Nat
    BY DEF DispatchesOf
<1>2. n \in counts /\ \A k \in counts : k <= n
    BY DEF IsPriorFailures
<1> HIDE DEF counts
<1>3. most \in counts /\ \A k \in counts : k <= most
    BY <1>2
<1>4. most \in Nat /\ most <= n /\ n <= most
    BY <1>1, <1>2, <1>3
<1>5. most = n
    BY <1>4
<1>6. FailuresIn(D, t) = IF most > 3 THEN 3 ELSE most
    BY DEF FailuresIn, counts
<1> QED BY <1>5, <1>6

LEMMA NewestIsCounted ==
    ASSUME NEW D \in Database, Regular(D), NEW d \in DispatchIds, D.disp[d].status # "none",
           Newest(D, d)
    PROVE  FailuresIn(D, D.disp[d].task) =
              IF D.disp[d].failures > 3 THEN 3 ELSE D.disp[d].failures
<1>1. \A e \in DispatchIds : D.disp[e].failures \in Nat
    BY DEF Database, DispatchRow
<1>2. d \in DispatchesOf(D, D.disp[d].task)
    BY DEF DispatchesOf
<1>3. \A e \in DispatchesOf(D, D.disp[d].task) : D.disp[e].failures <= D.disp[d].failures
    BY DEF DispatchesOf, Regular, Counted, Newest
<1>4. IsPriorFailures(D, D.disp[d].task, D.disp[d].failures)
    BY <1>2, <1>3 DEF IsPriorFailures
<1> QED BY <1>1, <1>4, PriorIsCounted

\* A task is held while it is dispatched, by the assignee of its newest dispatch.
LEMMA NewestHolds ==
    ASSUME NEW D \in Database, Regular(D), NEW d \in DispatchIds, D.disp[d].status # "none",
           Newest(D, d)
    PROVE  HoldersIn(D, D.disp[d].task) =
              IF D.disp[d].status = "dispatched" THEN {D.disp[d].handle} ELSE {}
<1> DEFINE t == D.disp[d].task
<1>1. \A e \in DispatchesOf(D, t) \cap ActiveDispatches(D) :
         e = d /\ D.disp[d].status = "dispatched"
  <2>1. SUFFICES ASSUME NEW e \in DispatchesOf(D, t) \cap ActiveDispatches(D)
                 PROVE  e = d /\ D.disp[d].status = "dispatched"
      OBVIOUS
  <2>2. /\ e \in DispatchIds /\ D.disp[e].status # "none" /\ D.disp[e].task = t
        /\ D.disp[e].status \in {"pending", "dispatched"}
      BY <2>1 DEF DispatchesOf, ActiveDispatches, ActiveStatuses
  <2>3. Newest(D, e) /\ D.disp[e].status = "dispatched"
      BY <2>2 DEF Regular, Matched, Outcome
  <2>4. d <= e /\ e <= d
      BY <2>2, <2>3 DEF Newest
  <2> QED BY <2>2, <2>3, <2>4, Numbers
<1>2. D.disp[d].status = "dispatched" => d \in DispatchesOf(D, t) \cap ActiveDispatches(D)
    BY DEF DispatchesOf, ActiveDispatches, ActiveStatuses
<1>3. HoldersIn(D, t) = {D.disp[e].handle : e \in DispatchesOf(D, t) \cap ActiveDispatches(D)}
    BY DEF HoldersIn
<1> HIDE DEF t
<1>4. CASE D.disp[d].status = "dispatched"
  <2>1. DispatchesOf(D, t) \cap ActiveDispatches(D) = {d}
      BY <1>1, <1>2, <1>4
  <2> QED BY <1>3, <1>4, <2>1 DEF t
<1>5. CASE D.disp[d].status # "dispatched"
  <2>1. DispatchesOf(D, t) \cap ActiveDispatches(D) = {}
      BY <1>1, <1>5
  <2> QED BY <1>3, <1>5, <2>1 DEF t
<1> QED BY <1>4, <1>5

LEMMA StageOf ==
    ASSUME NEW D \in Database
    PROVE  \A t \in TaskIds :
              /\ Stages(D)[t] = "none" <=> D.task[t].status = "none"
              /\ Stages(D)[t] = "waiting" <=> D.task[t].status = "pending"
              /\ Stages(D)[t] = "open" <=> D.task[t].status = "ready"
              /\ Stages(D)[t] = "taken" <=> D.task[t].status = "dispatched"
              /\ Stages(D)[t] = "done" <=> D.task[t].status = "completed"
              /\ Stages(D)[t] = "dropped" <=> D.task[t].status = "failed"
<1>1. \A t \in TaskIds : D.task[t].status \in TaskStatuses \cup {"none"}
    BY DEF Database, TaskRow
<1>2. \A t \in TaskIds : Stages(D)[t] = StageName[D.task[t].status]
    BY DEF Stages
<1> QED BY <1>1, <1>2, StageNames DEF TaskStatuses

\* One task of the board changes, or none.
LEMMA OneTask ==
    ASSUME NEW D, NEW E, NEW t \in TaskIds,
           \A u \in TaskIds : u # t => TaskSame(D, E, u)
    PROVE  /\ Stages(E) = [Stages(D) EXCEPT ![t] = StageName[E.task[t].status]]
           /\ Waits(E) = [Waits(D) EXCEPT ![t] = E.task[t].deps]
BY DEF Stages, Waits, TaskSame

LEMMA UntouchedBoard ==
    ASSUME NEW D, NEW E, Untouched(D, E)
    PROVE  /\ Stages(E) = Stages(D) /\ Waits(E) = Waits(D)
           /\ Holders(E) = Holders(D) /\ Strikes(E) = Strikes(D)
<1>1. Stages(E) = Stages(D) /\ Waits(E) = Waits(D)
    BY DEF Untouched, TaskSame, Stages, Waits
<1>2. \A t \in TaskIds : HoldersIn(E, t) = HoldersIn(D, t) /\ FailuresIn(E, t) = FailuresIn(D, t)
    BY OwnDispatches DEF Untouched
<1> QED BY <1>1, <1>2 DEF Holders, Strikes

LEMMA PostedBoard ==
    ASSUME NEW D \in Database, NEW E, NEW t, NEW ds, Posted(D, E, t, ds), Regular(D)
    PROVE  /\ Stages(D)[t] = "none"
           /\ ds \in SUBSET {d \in TaskIds : Stages(D)[d] # "none"}
           /\ Stages(E) = [Stages(D) EXCEPT ![t] = IF ds = {} THEN "open" ELSE "waiting"]
           /\ Waits(E) = [Waits(D) EXCEPT ![t] = ds]
           /\ Holders(E) = Holders(D) /\ Strikes(E) = Strikes(D)
<1>1. t \in TaskIds /\ D.nTask \in Nat /\ \A u \in TaskIds : u \in Nat
    BY Numbers DEF Database, Posted
<1>2. D.task[t].status = "none"
    BY <1>1 DEF Regular, Rows, Posted
<1>3. \A d \in ds : d \in TaskIds /\ D.task[d].status # "none"
    BY DEF Regular, Rows, Posted
<1>4. Stages(E) = [Stages(D) EXCEPT ![t] = IF ds = {} THEN "open" ELSE "waiting"]
  <2>1. StageName[E.task[t].status] = IF ds = {} THEN "open" ELSE "waiting"
      BY StageNames DEF Posted
  <2>2. \A u \in TaskIds : u # t => TaskSame(D, E, u)
      BY DEF Posted
  <2> QED BY <1>1, <2>1, <2>2, OneTask
<1>5. Waits(E) = [Waits(D) EXCEPT ![t] = ds]
  <2>1. E.task[t].deps = ds /\ \A u \in TaskIds : u # t => TaskSame(D, E, u)
      BY DEF Posted
  <2> QED BY <1>1, <2>1, OneTask
<1>6. \A u \in TaskIds : HoldersIn(E, u) = HoldersIn(D, u) /\ FailuresIn(E, u) = FailuresIn(D, u)
    BY OwnDispatches DEF Posted
<1>7. Holders(E) = Holders(D) /\ Strikes(E) = Strikes(D)
    BY <1>6 DEF Holders, Strikes
<1>8. Stages(D)[t] = "none" /\ \A d \in ds : d \in TaskIds /\ Stages(D)[d] # "none"
    BY <1>1, <1>2, <1>3, StageOf
<1> QED BY <1>4, <1>5, <1>7, <1>8

LEMMA TakenBoard ==
    ASSUME NEW D \in Database, NEW E \in Database, NEW t, NEW k, NEW h,
           Taken(D, E, t, k, h), Regular(D)
    PROVE  /\ Stages(D)[t] = "open"
           /\ Stages(E) = [Stages(D) EXCEPT ![t] = "taken"]
           /\ \A u \in TaskIds : h \notin Holders(D)[u]
           /\ Holders(E) = [Holders(D) EXCEPT ![t] = {h}]
           /\ Waits(E) = Waits(D) /\ Strikes(E) = Strikes(D)
<1>1. t \in TaskIds /\ k \in DispatchIds /\ h \in Handles /\ E.disp[k].task = t
    BY DEF Taken
<1>2. D.disp[k].status = "none"
  <2>1. D.nDisp \in Nat /\ k = D.nDisp + 1
      BY DEF Database, Taken
  <2> QED BY <1>1, <2>1 DEF Regular, Rows
<1>3. Regular(E)
    BY TakenRegular
<1>4. Stages(D)[t] = "open"
    BY <1>1, StageOf DEF Taken
<1>5. Stages(E) = [Stages(D) EXCEPT ![t] = "taken"]
    BY <1>1, OneTask, StageNames DEF Taken
<1>6. Waits(E) = Waits(D)
    BY DEF Waits, Taken, TaskSame
<1>7. \A u \in TaskIds : h \notin Holders(D)[u]
  <2>1. \A u \in TaskIds : Holders(D)[u] = HoldersIn(D, u)
      BY DEF Holders
  <2>2. \A u \in TaskIds : \A d \in DispatchesOf(D, u) \cap ActiveDispatches(D) :
           D.disp[d].handle # h
    <3>1. \A d \in ActiveDispatches(D) : d \in DispatchIds /\ D.disp[d].status = "dispatched"
        BY DEF ActiveDispatches, ActiveStatuses, Regular, Matched, Outcome
    <3> QED BY <3>1 DEF Taken
  <2> QED BY <2>1, <2>2 DEF HoldersIn
<1>8. \A u \in TaskIds : u # t =>
         HoldersIn(E, u) = HoldersIn(D, u) /\ FailuresIn(E, u) = FailuresIn(D, u)
  <2>1. \A d \in DispatchIds : d # k => DispSame(D, E, d)
      BY DEF Taken
  <2> QED BY <1>1, <1>2, <2>1, OwnDispatches
<1>9. Newest(E, k) /\ E.disp[k].status = "dispatched" /\ E.disp[k].handle = h
  <2>1. E.nDisp = k /\ \A d \in DispatchIds : E.disp[d].status # "none" => d <= k
      BY <1>3 DEF Regular, Rows, Taken
  <2> QED BY <2>1 DEF Newest, Taken
<1>10. HoldersIn(E, t) = {h}
    BY <1>1, <1>3, <1>9, NewestHolds
<1>11. FailuresIn(E, t) = FailuresIn(D, t)
  <2> DEFINE n == E.disp[k].failures
  <2>1. n \in Nat /\ \A d \in DispatchIds : D.disp[d].failures \in Nat
      BY <1>1 DEF Database, DispatchRow
  <2>2. FailuresIn(D, t) = IF n > 3 THEN 3 ELSE n
      BY <2>1, PriorIsCounted DEF Taken
  <2>3. FailuresIn(E, t) = IF n > 3 THEN 3 ELSE n
      BY <1>1, <1>3, <1>9, NewestIsCounted
  <2> QED BY <2>2, <2>3
<1>12. Holders(E) = [Holders(D) EXCEPT ![t] = {h}]
    BY <1>8, <1>10 DEF Holders
<1>13. Strikes(E) = Strikes(D)
    BY <1>8, <1>11 DEF Strikes
<1> QED BY <1>4, <1>5, <1>6, <1>7, <1>12, <1>13

LEMMA StruckBoard ==
    ASSUME NEW D \in Database, NEW E \in Database, NEW t, NEW d, Struck(D, E, t, d), Regular(D)
    PROVE  \/ /\ Stages(E) = Stages(D) /\ Waits(E) = Waits(D)
              /\ Holders(E) = Holders(D) /\ Strikes(E) = Strikes(D)
           \/ /\ Stages(D)[t] = "taken" \/ (Stages(D)[t] = "open" /\ Strikes(D)[t] > 0)
              /\ Strikes(E) = [Strikes(D) EXCEPT ![t] = @ + 1]
              /\ Stages(E) = [Stages(D) EXCEPT ![t] =
                                 IF Strikes(D)[t] + 1 = 3 THEN "dropped" ELSE "open"]
              /\ Holders(E) = [Holders(D) EXCEPT ![t] = {}]
              /\ Waits(E) = Waits(D)
<1> DEFINE n == D.disp[d].failures
<1>1. /\ t \in TaskIds /\ d \in DispatchIds /\ D.disp[d].task = t /\ E.disp[d].task = t
      /\ n \in Nat /\ E.disp[d].failures = n + 1 /\ Newest(D, d)
      /\ D.disp[d].status \in {"dispatched", "failed", "circuit_broken"}
    BY DEF Struck, Database, DispatchRow
<1>2. Regular(E)
    BY StruckRegular
<1>3. /\ E.disp[d].status \in {"failed", "circuit_broken"} /\ Newest(E, d)
      /\ E.disp[d].status = "circuit_broken" <=> n + 1 >= 3
      /\ E.task[t].status = IF n + 1 >= 3 THEN "failed" ELSE "ready"
  <2>1. \A e \in DispatchIds : /\ E.disp[e].task = D.disp[e].task
                               /\ E.disp[e].status # "none" <=> D.disp[e].status # "none"
      BY <1>1 DEF Struck, DispSame
  <2>2. Newest(E, d)
      BY <1>1, <2>1 DEF Newest
  <2> QED BY <1>1, <2>2 DEF Struck
<1>4. \A u \in TaskIds : u # t =>
         HoldersIn(E, u) = HoldersIn(D, u) /\ FailuresIn(E, u) = FailuresIn(D, u)
  <2>1. \A e \in DispatchIds : e # d => DispSame(D, E, e)
      BY DEF Struck
  <2> QED BY <1>1, <2>1, OwnDispatches
<1>5. Waits(E) = Waits(D)
  <2>1. \A u \in TaskIds : E.task[u].deps = D.task[u].deps
      BY DEF Struck, TaskSame
  <2> QED BY <2>1 DEF Waits
<1>6. Stages(E) = [Stages(D) EXCEPT ![t] = IF n + 1 >= 3 THEN "dropped" ELSE "open"]
  <2>1. \A u \in TaskIds : u # t => TaskSame(D, E, u)
      BY DEF Struck
  <2>2. Stages(E) = [Stages(D) EXCEPT ![t] = StageName[E.task[t].status]]
      BY <1>1, <2>1, OneTask
  <2> QED BY <1>3, <2>2, StageNames
<1>7. HoldersIn(E, t) = {} /\ FailuresIn(E, t) = IF n + 1 > 3 THEN 3 ELSE n + 1
    BY <1>1, <1>2, <1>3, NewestHolds, NewestIsCounted
<1>8. /\ FailuresIn(D, t) = IF n > 3 THEN 3 ELSE n
      /\ D.disp[d].status # "dispatched" => HoldersIn(D, t) = {}
    BY <1>1, NewestHolds, NewestIsCounted
<1>9. /\ D.disp[d].status = "circuit_broken" => n >= 3 /\ D.task[t].status = "failed"
      /\ D.disp[d].status = "failed" => n >= 1 /\ n <= 2 /\ D.task[t].status = "ready"
      /\ D.disp[d].status = "dispatched" => n <= 2 /\ D.task[t].status = "dispatched"
    BY <1>1 DEF Regular, Counted, Matched, Outcome
<1>10. Holders(E) = [Holders(D) EXCEPT ![t] = {}]
    BY <1>4, <1>7 DEF Holders
<1>11. Strikes(E) = [Strikes(D) EXCEPT ![t] = IF n + 1 > 3 THEN 3 ELSE n + 1]
    BY <1>4, <1>7 DEF Strikes
<1>12. Strikes(D)[t] = (IF n > 3 THEN 3 ELSE n) /\ Holders(D)[t] = HoldersIn(D, t)
    BY <1>1, <1>8 DEF Strikes, Holders
<1>13. CASE D.disp[d].status = "circuit_broken"
  <2>1. n >= 3 /\ n + 1 >= 3 /\ (IF n + 1 > 3 THEN 3 ELSE n + 1) = 3 /\ Strikes(D)[t] = 3
      BY <1>1, <1>9, <1>12, <1>13
  <2>2. Strikes(E) = Strikes(D)
      BY <1>11, <2>1 DEF Strikes
  <2>3. Holders(E) = Holders(D)
      BY <1>8, <1>10, <1>12, <1>13 DEF Holders
  <2>4. Stages(D)[t] = "dropped"
      BY <1>1, <1>9, <1>13, StageOf
  <2>5. Stages(E) = Stages(D)
      BY <1>6, <2>1, <2>4 DEF Stages
  <2> QED BY <1>5, <2>2, <2>3, <2>5
<1>14. CASE D.disp[d].status \in {"dispatched", "failed"}
  <2>1. n <= 2 /\ Strikes(D)[t] = n /\ (IF n + 1 > 3 THEN 3 ELSE n + 1) = n + 1
        /\ (n + 1 >= 3 <=> n + 1 = 3)
      BY <1>1, <1>9, <1>12, <1>14
  <2>2. Stages(D)[t] = "taken" \/ (Stages(D)[t] = "open" /\ Strikes(D)[t] > 0)
      BY <1>1, <1>9, <1>14, <2>1, StageOf
  <2>3. Strikes(E) = [Strikes(D) EXCEPT ![t] = @ + 1]
      BY <1>1, <1>11, <2>1 DEF Strikes
  <2>4. Stages(E) = [Stages(D) EXCEPT ![t] = IF Strikes(D)[t] + 1 = 3 THEN "dropped" ELSE "open"]
      BY <1>6, <2>1
  <2> QED BY <1>5, <1>10, <2>2, <2>3, <2>4
<1> QED BY <1>1, <1>13, <1>14

LEMMA DoneBoard ==
    ASSUME NEW D \in Database, NEW E \in Database, NEW t, NEW d, Done(D, E, t, d), Regular(D)
    PROVE  /\ Stages(D)[t] = "taken"
           /\ Stages(E) = [u \in TaskIds |->
                 CASE u = t -> "done"
                   [] /\ Stages(D)[u] = "waiting" /\ t \in Waits(D)[u]
                      /\ \A v \in Waits(D)[u] : v = t \/ Stages(D)[v] = "done" -> "open"
                   [] OTHER -> Stages(D)[u]]
           /\ Holders(E) = [Holders(D) EXCEPT ![t] = {}]
           /\ Waits(E) = Waits(D) /\ Strikes(E) = Strikes(D)
<1>1. /\ t \in TaskIds /\ d \in DispatchIds /\ D.disp[d].task = t /\ E.disp[d].task = t
      /\ D.disp[d].status = "dispatched" /\ E.disp[d].status = "completed"
      /\ E.disp[d].failures = D.disp[d].failures /\ Newest(D, d)
    BY DEF Done
<1>2. Regular(E)
    BY DoneRegular
<1>3. Newest(E, d)
  <2>1. \A e \in DispatchIds : /\ E.disp[e].task = D.disp[e].task
                               /\ E.disp[e].status # "none" <=> D.disp[e].status # "none"
      BY <1>1 DEF Done, DispSame
  <2> QED BY <1>1, <2>1 DEF Newest
<1>4. \A u \in TaskIds : u # t =>
         HoldersIn(E, u) = HoldersIn(D, u) /\ FailuresIn(E, u) = FailuresIn(D, u)
  <2>1. \A e \in DispatchIds : e # d => DispSame(D, E, e)
      BY DEF Done
  <2> QED BY <1>1, <2>1, OwnDispatches
<1>5. HoldersIn(E, t) = {} /\ FailuresIn(E, t) = FailuresIn(D, t)
    BY <1>1, <1>2, <1>3, NewestHolds, NewestIsCounted
<1>6. Holders(E) = [Holders(D) EXCEPT ![t] = {}] /\ Strikes(E) = Strikes(D)
    BY <1>4, <1>5 DEF Holders, Strikes
<1>7. Waits(E) = Waits(D)
    BY DEF Waits, Done, TaskSame
<1>8. \A u \in TaskIds :
         WaitsFor(D, u, t) <=>
            /\ Stages(D)[u] = "waiting" /\ t \in Waits(D)[u]
            /\ \A v \in Waits(D)[u] : v = t \/ Stages(D)[v] = "done"
  <2>1. \A u \in TaskIds : Waits(D)[u] = D.task[u].deps /\ D.task[u].deps \subseteq TaskIds
      BY DEF Waits, Database, TaskRow
  <2> QED BY <2>1, StageOf DEF WaitsFor
<1>9. \A u \in TaskIds : Stages(E)[u] =
         IF u = t THEN "done" ELSE IF WaitsFor(D, u, t) THEN "open" ELSE Stages(D)[u]
    BY StageNames DEF Stages, Done
<1>10. Stages(E) = [u \in TaskIds |-> Stages(E)[u]]
    BY DEF Stages
<1>11. Stages(D)[t] = "taken"
    BY <1>1, StageOf DEF Done
<1> DEFINE W(u) == /\ Stages(D)[u] = "waiting" /\ t \in Waits(D)[u]
                   /\ \A v \in Waits(D)[u] : v = t \/ Stages(D)[v] = "done"
<1>12. \A u \in TaskIds : Stages(E)[u] = CASE u = t -> "done" [] W(u) -> "open"
                                           [] OTHER -> Stages(D)[u]
  <2>1. \A u \in TaskIds : Stages(E)[u] =
           IF u = t THEN "done" ELSE IF W(u) THEN "open" ELSE Stages(D)[u]
      BY <1>8, <1>9
  <2>2. ~W(t)
      BY <1>11
  <2> HIDE DEF W
  <2> QED BY <2>1, <2>2
<1>13. Stages(E) = [u \in TaskIds |-> CASE u = t -> "done" [] W(u) -> "open"
                                        [] OTHER -> Stages(D)[u]]
  <2> HIDE DEF W
  <2> QED BY <1>10, <1>12
<1> QED BY <1>6, <1>7, <1>11, <1>13

-----------------------------------------------------------------------------
(* What the writes of the database come to.                                *)

LEMMA RowsUntouched ==
    ASSUME NEW D, NEW E, E.task = D.task, E.disp = D.disp, SameIds(D, E)
    PROVE  Untouched(D, E)
BY DEF Untouched, TaskSame, DispSame, SameIds

\* A write that touches neither table may come first or last.
LEMMA UntouchedBefore ==
    ASSUME NEW D \in Database, NEW U, NEW E, NEW T, Untouched(D, U), Minor(U, E, T),
           T \subseteq DispatchIds
    PROVE  Minor(D, E, T)
<1>1. \A d \in DispatchIds : Newest(U, d) <=> Newest(D, d)
    BY DEF Newest, Untouched, DispSame
<1>2. \A u \in TaskIds : D.task[u].deps \subseteq TaskIds
    BY DEF Database, TaskRow
<1>3. \A u \in TaskIds : \A t : WaitsFor(U, u, t) <=> WaitsFor(D, u, t)
    BY <1>2 DEF WaitsFor, Untouched, TaskSame
<1>4. CASE Untouched(U, E)
    BY <1>4 DEF Minor, Untouched, TaskSame, DispSame
<1>5. ASSUME NEW t \in TaskIds, NEW ds \in SUBSET TaskIds, Posted(U, E, t, ds)
      PROVE  Posted(D, E, t, ds)
    BY <1>5 DEF Posted, Untouched, TaskSame, DispSame
<1>6. ASSUME NEW t \in TaskIds, NEW d \in DispatchIds, Struck(U, E, t, d)
      PROVE  Struck(D, E, t, d)
    BY <1>1, <1>6 DEF Struck, Untouched, TaskSame, DispSame
<1>7. ASSUME NEW t \in TaskIds, NEW d \in T, Done(U, E, t, d)
      PROVE  Done(D, E, t, d)
    BY <1>1, <1>3, <1>7 DEF Done, Untouched, TaskSame, DispSame
<1> QED BY <1>4, <1>5, <1>6, <1>7 DEF Minor

LEMMA StruckAfter ==
    ASSUME NEW D, NEW E, NEW U, NEW t, NEW d, Struck(D, E, t, d), Untouched(E, U)
    PROVE  Struck(D, U, t, d)
BY DEF Struck, Untouched, TaskSame, DispSame

LEMMA DoneAfter ==
    ASSUME NEW D, NEW E, NEW U, NEW t, NEW d, Done(D, E, t, d), Untouched(E, U)
    PROVE  Done(D, U, t, d)
BY DEF Done, Untouched, TaskSame, DispSame

LEMMA CreateTaskPosts ==
    ASSUME NEW D \in Database, NEW ds, ds \subseteq 1..D.nTask, D.nTask < MaxTasks
    PROVE  \E t \in TaskIds, es \in SUBSET TaskIds : Posted(D, createTask(D, ds), t, es)
<1> DEFINE E == createTask(D, ds)
           t == D.nTask + 1
<1>1. D.nTask \in Nat /\ t \in TaskIds
    BY BoundsAssumption, Numbers DEF TaskIds
<1>2. ds \in SUBSET TaskIds /\ \A d \in ds : d <= D.nTask
    BY <1>1, BoundsAssumption DEF TaskIds
<1>3. /\ E.disp = D.disp /\ E.nDisp = D.nDisp /\ E.nTask = t
      /\ E.task[t] = [status |-> IF ds = {} THEN "ready" ELSE "pending",
                      deps |-> ds, result |-> 0]
      /\ \A u \in TaskIds : u # t => E.task[u] = D.task[u]
    BY <1>1, CreateTaskRows
<1>4. E.task[t].status = (IF ds = {} THEN "ready" ELSE "pending") /\ E.task[t].deps = ds
    BY <1>3
<1>5. /\ \A u \in TaskIds : u # t => TaskSame(D, E, u)
      /\ \A d \in DispatchIds : DispSame(D, E, d)
    BY <1>3 DEF TaskSame, DispSame
<1> HIDE DEF E
<1>6. Posted(D, E, t, ds)
    BY <1>1, <1>2, <1>3, <1>4, <1>5 DEF Posted
<1> QED BY <1>1, <1>2, <1>6 DEF E

LEMMA FailStrikes ==
    ASSUME NEW D \in Database, Regular(D), NEW d \in DispatchIds, Newest(D, d),
           D.disp[d].status \notin {"none", "completed"}
    PROVE  Struck(D, failDispatch(D, d), D.disp[d].task, d)
<1> DEFINE E == failDispatch(D, d)
           t == D.disp[d].task
           n == D.disp[d].failures + 1
<1>1. t \in TaskIds
    BY DEF Regular, Rows
<1>2. /\ D.disp[d].status \in {"dispatched", "failed", "circuit_broken"}
      /\ D.task[t].status # "none"
    BY DEF Regular, Matched, Outcome
<1>3. /\ E.nTask = D.nTask /\ E.nDisp = D.nDisp
      /\ E.disp[d].status = IF n >= 3 THEN "circuit_broken" ELSE "failed"
      /\ E.disp[d].failures = n /\ E.disp[d].task = t /\ E.disp[d].handle = D.disp[d].handle
      /\ \A e \in DispatchIds : e # d => E.disp[e] = D.disp[e]
      /\ \A u \in TaskIds : E.task[u].deps = D.task[u].deps
      /\ \A u \in TaskIds : u # t => E.task[u] = D.task[u]
    BY FailRows DEF SameRest, SameIds
<1>4. E.task[t].status = IF n >= 3 THEN "failed" ELSE "ready"
  <2>1. E.task[t].status =
           IF D.task[t].status = "none" THEN "none" ELSE IF n >= 3 THEN "failed" ELSE "ready"
      BY <1>1, FailRows
  <2> QED BY <1>2, <2>1
<1> HIDE DEF E
<1> QED BY <1>1, <1>2, <1>3, <1>4 DEF Struck, TaskSame, DispSame, E

\* The messages name the same tasks and dispatches.
SameIdsOfMail(D, E) ==
    \A m \in MessageIds : E.msg[m].disp = D.msg[m].disp /\ E.msg[m].task = D.msg[m].task

\* What a report may do: complete a dispatch in T, or nothing.
LEMMA ReconcileRows ==
    ASSUME NEW D \in Database, NEW m \in MessageIds, NEW T, D.msg[m].disp \in {0} \cup T
    PROVE  LET E == reconcileLifecycleMessage(D, m)
           IN  /\ Untouched(D, E) \/ \E t \in TaskIds, d \in T : Done(D, E, t, d)
               /\ SameRuns(D, E) /\ SameGates(D, E) /\ SameIdsOfMail(D, E)
<1> DEFINE Fine(E) == /\ Untouched(D, E) \/ \E t \in TaskIds, d \in T : Done(D, E, t, d)
                      /\ SameRuns(D, E) /\ SameGates(D, E) /\ SameIdsOfMail(D, E)
           msg == D.msg[m]
<1>1. ASSUME NEW E, E.task = D.task, E.disp = D.disp, SameIds(D, E), SameRuns(D, E),
             SameGates(D, E), SameIdsOfMail(D, E)
      PROVE  Fine(E)
    BY <1>1, RowsUntouched
<1>2. Fine(D)
    BY <1>1 DEF SameIds, SameRuns, SameGates, SameIdsOfMail
<1>3. Fine(convertLifecycleMessageToRejection(D, m))
  <2> DEFINE E == convertLifecycleMessageToRejection(D, m)
  <2>1. /\ E.task = D.task /\ E.disp = D.disp /\ SameIds(D, E) /\ SameRuns(D, E)
        /\ SameGates(D, E) /\ SameIdsOfMail(D, E)
      BY RejectionRows DEF SameIdsOfMail
  <2> HIDE DEF E
  <2> QED BY <1>1, <2>1 DEF E
<1>4. \A ids : Fine(markAsRead(D, ids))
  <2> TAKE ids
  <2> DEFINE E == markAsRead(D, ids)
  <2>1. /\ E.task = D.task /\ E.disp = D.disp /\ SameIds(D, E) /\ SameRuns(D, E)
        /\ SameGates(D, E) /\ SameIdsOfMail(D, E)
      BY MarkAsReadRows DEF SameIdsOfMail
  <2> HIDE DEF E
  <2> QED BY <1>1, <2>1 DEF E
<1>5. \A d \in DispatchIds : Fine(recordHeartbeat(D, d, m))
  <2> TAKE d \in DispatchIds
  <2>1. CASE D.disp[d].status = "dispatched"
    <3> DEFINE E == recordHeartbeat(D, d, m)
    <3>1. /\ SameRest(D, E) /\ E.task = D.task
          /\ \A e \in DispatchIds : DispSame(D, E, e)
        BY <2>1, HeartbeatRows DEF DispSame
    <3> HIDE DEF E
    <3>2. Untouched(D, E) /\ SameRuns(D, E) /\ SameGates(D, E) /\ SameIdsOfMail(D, E)
        BY <3>1 DEF Untouched, TaskSame, SameRest, SameIds, SameMail, SameIdsOfMail
    <3> QED BY <3>2 DEF E
  <2>2. CASE D.disp[d].status # "dispatched"
      BY <1>2, <2>2 DEF recordHeartbeat
  <2> QED BY <2>1, <2>2
<1>6. CASE msg.type = "worker_done"
  <2>1. CASE /\ NamesDispatchOfTask(D, msg) /\ IsCurrentDispatch(D, msg.task, msg.disp)
             /\ reconcileLifecycleMessage(D, m) =
                   suppressEarlierHeartbeats(updateTaskStatus(D, msg.task, "completed", m), m)
    <3> DEFINE t == msg.task
               d == msg.disp
               U == updateTaskStatus(D, t, "completed", m)
               E == reconcileLifecycleMessage(D, m)
    <3>1. /\ t \in TaskIds /\ d \in DispatchIds /\ d \in T /\ m \in {0} \cup MessageIds
          /\ D.disp[d].task = t /\ D.disp[d].status = "dispatched" /\ D.task[t].status = "dispatched"
      <4>1. d \in DispatchIds
          BY <2>1 DEF NamesDispatchOfTask, DispatchExists
      <4>2. d # 0
          BY <4>1, Numbers
      <4> QED BY <2>1, <4>1, <4>2 DEF NamesDispatchOfTask, TaskExists, IsCurrentDispatch
    <3>2. Newest(D, d)
        BY <2>1, <3>1 DEF IsCurrentDispatch, IsLatestDispatch, DispatchesOf, Newest
    <3>3. \A e \in DispatchIds : IsLatestActiveDispatch(D, t, e) <=> e = d
      <4>1. d \in DispatchesOf(D, t) \cap ActiveDispatches(D)
          BY <3>1 DEF DispatchesOf, ActiveDispatches, ActiveStatuses
      <4>2. \A e \in DispatchesOf(D, t) : e <= d
          BY <3>1, <3>2 DEF DispatchesOf, Newest
      <4>3. \A e \in DispatchIds : e \in Nat
          BY Numbers
      <4>4. \A e \in DispatchIds : e <= d /\ d <= e => e = d
          BY <3>1, <4>3
      <4> QED BY <3>1, <4>1, <4>2, <4>4 DEF IsLatestActiveDispatch, DispatchesOf
    <3> HIDE DEF t, d
    <3>4. /\ U \in Database /\ SameRest(D, U)
          /\ U.task[t].status = "completed" /\ U.task[t].deps = D.task[t].deps
          /\ \A u \in TaskIds : u # t =>
                /\ U.task[u].deps = D.task[u].deps
                /\ U.task[u].status =
                      IF /\ D.task[u].status = "pending" /\ t \in D.task[u].deps
                         /\ \A v \in D.task[u].deps :
                               v = t \/ D.task[v].status = "completed"
                      THEN "ready" ELSE D.task[u].status
          /\ \A e \in DispatchIds :
                /\ U.disp[e].task = D.disp[e].task
                /\ U.disp[e].handle = D.disp[e].handle
                /\ U.disp[e].failures = D.disp[e].failures
                /\ U.disp[e].status = IF IsLatestActiveDispatch(D, t, e)
                                      THEN "completed" ELSE D.disp[e].status
        BY <3>1, CompleteRows
    <3>5. E = suppressEarlierHeartbeats(U, m)
        BY <2>1 DEF t
    <3> HIDE DEF U, E
    <3>6. Done(D, U, t, d)
        BY <3>1, <3>2, <3>3, <3>4 DEF Done, DispSame, WaitsFor, SameRest, SameIds
    <3>7. \E ids : E = markAsRead(U, ids)
        BY <3>5 DEF suppressEarlierHeartbeats
    <3>8. /\ E.task = U.task /\ E.disp = U.disp /\ SameIds(U, E) /\ SameRuns(U, E)
          /\ SameGates(U, E) /\ SameIdsOfMail(U, E)
        BY <3>4, <3>7, MarkAsReadRows DEF SameIdsOfMail
    <3>9. Done(D, E, t, d)
        BY <3>6, <3>8, RowsUntouched, DoneAfter
    <3>10. SameRuns(D, E) /\ SameGates(D, E) /\ SameIdsOfMail(D, E)
        BY <3>4, <3>8 DEF SameRest, SameRuns, SameGates, SameMail, SameIdsOfMail
    <3> QED BY <3>1, <3>9, <3>10 DEF E
  <2>2. \/ reconcileLifecycleMessage(D, m) = D
        \/ reconcileLifecycleMessage(D, m) = convertLifecycleMessageToRejection(D, m)
        \/ /\ NamesDispatchOfTask(D, msg) /\ IsCurrentDispatch(D, msg.task, msg.disp)
           /\ reconcileLifecycleMessage(D, m) =
                 suppressEarlierHeartbeats(updateTaskStatus(D, msg.task, "completed", m), m)
      BY <1>6 DEF reconcileLifecycleMessage, reconcileWorkerDoneMessage
  <2> QED BY <1>2, <1>3, <2>1, <2>2
<1>7. CASE msg.type = "heartbeat"
  <2>1. msg.disp # 0 => msg.disp \in DispatchIds
      BY Numbers
  <2>2. \/ reconcileLifecycleMessage(D, m) = D
        \/ reconcileLifecycleMessage(D, m) = convertLifecycleMessageToRejection(D, m)
        \/ reconcileLifecycleMessage(D, m) = markAsRead(D, {m})
        \/ msg.disp # 0 /\ reconcileLifecycleMessage(D, m) = recordHeartbeat(D, msg.disp, m)
      BY <1>7 DEF reconcileLifecycleMessage, reconcileHeartbeatMessage
  <2> QED BY <1>2, <1>3, <1>4, <1>5, <2>1, <2>2
<1>8. CASE msg.type \notin {"worker_done", "heartbeat"}
  <2>1. reconcileLifecycleMessage(D, m) = D
      BY <1>8 DEF reconcileLifecycleMessage
  <2> QED BY <1>2, <2>1
<1> QED BY <1>6, <1>7, <1>8

LEMMA ReconcileMinor ==
    ASSUME NEW D \in Database, NEW m \in MessageIds, NEW T, D.msg[m].disp \in {0} \cup T
    PROVE  LET E == reconcileLifecycleMessage(D, m)
           IN  /\ Minor(D, E, T) /\ SameRuns(D, E)
               /\ \A k \in MessageIds : E.msg[k].disp = D.msg[k].disp
BY ReconcileRows DEF Minor, SameIdsOfMail

LEMMA ResetMessagesRows ==
    ASSUME NEW D \in Database
    PROVE  LET E == resetMessages(D)
           IN  /\ E.task = D.task /\ E.disp = D.disp /\ SameIds(D, E) /\ SameRuns(D, E)
               /\ SameGates(D, E) /\ SameIdsOfMail(D, E)
<1> DEFINE E == resetMessages(D)
           f == [m \in MessageIds |-> [D.msg[m] EXCEPT !.stored = FALSE]]
<1>1. /\ E.task = D.task /\ E.disp = D.disp /\ SameIds(D, E) /\ SameRuns(D, E)
      /\ SameGates(D, E) /\ E.msg = f
    BY DEF resetMessages, Database, SameIds, SameRuns, SameGates
<1>2. \A m \in MessageIds : f[m].disp = D.msg[m].disp /\ f[m].task = D.msg[m].task
    BY DEF Database, MessageRow
<1> HIDE DEF E, f
<1> QED BY <1>1, <1>2 DEF E, SameIdsOfMail

-----------------------------------------------------------------------------
(* What keeps the loop from getting in its own way.                        *)

\* At most one run is live, its loop is the only one, and the message loop of
\* a tick is in that tick.
Coordinated ==
    /\ \A r \in RunIds : r > db.nRun => db.run[r] = "none"
    /\ \A r, s \in RunIds : db.run[r] = "running" /\ db.run[s] = "running" => r = s
    /\ \A r \in RunIds : coord[r].pc \notin {"none", "done"} => db.run[r] = "running"
    /\ turn.by = "tick" => turn.run \in RunIds /\ coord[turn.run].pc = "tick"

\* Agents report on dispatches they were told of, and those that are being
\* prompted are not among them yet: nobody else creates dispatches meanwhile.
Told ==
    /\ \A d \in told : d <= db.nDisp
    /\ \A m \in MessageIds : db.msg[m].disp \in {0} \cup told
    /\ \A d \in DispatchIds : db.disp[d].status = "completed" => d \in told
    /\ \A r \in RunIds : coord[r].pc = "prompting" =>
          coord[r].disp = db.nDisp /\ coord[r].disp \notin told

Running(D) == Cardinality(TasksIn(D, "dispatched"))

\* The slots that dispatchReadyTasks may still use: its variable counts the one
\* it is about to use no more.
Working == {"listing", "creating", "assigning", "probing", "prompting"}
Claim(c) == IF c.pc = "probing" THEN c.slots + 1 ELSE c.slots

Booked ==
    /\ Running(db) <= MaxConcurrent
    /\ \A r \in RunIds : coord[r].pc \in Working =>
          coord[r].slots >= 0 /\ Running(db) + Claim(coord[r]) <= MaxConcurrent

-----------------------------------------------------------------------------
(* What the actions do to the database.                                    *)

\* A step that dispatches nothing.
Modest ==
    /\ Minor(db, db', told) /\ SameRuns(db, db')
    /\ \A m \in MessageIds : db'.msg[m].disp \in {0} \cup told

LEMMA RowsModest ==
    ASSUME TypeOK, Told, db'.task = db.task, db'.disp = db.disp, SameIds(db, db'),
           SameRuns(db, db'), \A m \in MessageIds : db'.msg[m].disp = db.msg[m].disp
    PROVE  Modest
BY RowsUntouched DEF Modest, Minor, Told

LEMMA IdleModest ==
    ASSUME TypeOK, Told, UNCHANGED db
    PROVE  Modest
BY RowsModest DEF SameIds, SameRuns

LEMMA MarkAsReadModest ==
    ASSUME TypeOK, Told, NEW ids, db' = markAsRead(db, ids)
    PROVE  Modest
BY MarkAsReadRows, RowsModest DEF TypeOK

LEMMA SendModest ==
    ASSUME TypeOK, Told, Regular(db), NEW from \in Handles, NEW type \in MessageTypes,
           NEW t \in {0} \cup TaskIds, NEW d \in {0} \cup told, Send(from, type, t, d)
    PROVE  Modest
<1> DEFINE n == db.nMsg + 1
           row == NewMessage(from, type, t, d)
           D == insertMessage(db, row)
<1>1. db \in Database /\ db.nMsg < MaxMessages /\ told \subseteq DispatchIds
    BY DEF TypeOK, Send
<1>2. n \in MessageIds
    BY <1>1, BoundsAssumption DEF Database, MessageIds
<1>3. row \in MessageRow /\ row.disp = d
  <2>1. d \in {0} \cup DispatchIds
      BY <1>1
  <2>2. row \in MessageRow
      BY <2>1, NewMessageType
  <2> QED BY <2>2 DEF NewMessage
<1> HIDE DEF row
<1>4. D \in Database
    BY <1>1, <1>3, InsertMessageWrites DEF Writes
<1>5. /\ D.task = db.task /\ D.disp = db.disp /\ SameIds(db, D) /\ SameRuns(db, D)
      /\ \A m \in MessageIds : D.msg[m] = IF m = n THEN row ELSE db.msg[m]
    BY <1>1, InsertRows
<1>6. db' = reconcileLifecycleMessage(D, n)
    BY DEF Send, row
<1> HIDE DEF D, n
<1>7. Untouched(db, D)
    BY <1>5, RowsUntouched
<1>8. Regular(D)
    BY <1>1, <1>7, UntouchedRegular
<1>9. \A m \in MessageIds : D.msg[m].disp \in {0} \cup told
    BY <1>3, <1>5 DEF Told
<1>10. /\ Minor(D, db', told) /\ SameRuns(D, db')
       /\ \A m \in MessageIds : db'.msg[m].disp = D.msg[m].disp
    BY <1>2, <1>4, <1>6, <1>8, <1>9, ReconcileMinor
<1>11. Minor(db, db', told)
    BY <1>1, <1>7, <1>10, UntouchedBefore
<1>12. SameRuns(db, db')
    BY <1>5, <1>10 DEF SameRuns
<1> QED BY <1>9, <1>10, <1>11, <1>12 DEF Modest

LEMMA HandlersModest ==
    ASSUME Alone, TypeOK, Told, Regular(db),
           \/ \E deps \in DepChoices : TaskCreate(deps)
           \/ \E t \in TaskIds, s \in ManualStatuses : TaskUpdate(t, s)
           \/ \E t \in TaskIds : GateCreate(t)
           \/ \E g \in GateIds : GateResolve(g)
           \/ \E scope \in ResetScopes : Reset(scope)
           \/ AgentSend
    PROVE  Modest
<1>0. db \in Database
    BY DEF TypeOK
<1>1. ASSUME NEW deps \in DepChoices, TaskCreate(deps) PROVE Modest
  <2>1. db' = createTask(db, deps) /\ deps \subseteq 1..db.nTask /\ db.nTask < MaxTasks
      BY <1>1 DEF TaskCreate
  <2>2. \E t \in TaskIds, es \in SUBSET TaskIds : Posted(db, db', t, es)
      BY <1>0, <2>1, CreateTaskPosts
  <2>3. SameRuns(db, db') /\ SameMail(db, db')
      BY <1>0, <2>1, CreateTaskRows
  <2> QED BY <2>2, <2>3 DEF Modest, Minor, SameMail, Told
<1>2. ASSUME NEW t \in TaskIds, NEW s \in ManualStatuses, TaskUpdate(t, s) PROVE Modest
    BY DEF Alone, Unmeddled
<1>3. ASSUME NEW t \in TaskIds, GateCreate(t) PROVE Modest
  <2>1. db.nGate \in 0..MaxGates /\ db.nGate < MaxGates
      BY <1>0, <1>3 DEF GateCreate, Database
  <2> QED BY <2>1 DEF Alone
<1>4. ASSUME NEW g \in GateIds, GateResolve(g) PROVE Modest
  <2>1. GateIds = {}
      BY DEF GateIds, Alone
  <2> QED BY <2>1
<1>5. ASSUME NEW scope \in ResetScopes, Reset(scope) PROVE Modest
  <2>1. db' = resetMessages(db)
      BY <1>5 DEF Alone, Unmeddled, Reset
  <2> QED BY <1>0, <2>1, ResetMessagesRows, RowsModest DEF SameIdsOfMail
<1>6. CASE AgentSend
  <2>1. PICK from \in Senders, type \in SentTypes :
           SendLifecycle(from, type) \/ SendAboutTask(from, type)
      BY <1>6 DEF AgentSend
  <2>2. from \in Handles /\ type \in MessageTypes
      BY EnvironmentAssumption
  <2>3. 1..db.nTask \subseteq TaskIds /\ 0..db.nTask \subseteq {0} \cup TaskIds
      BY <1>0, BoundsAssumption DEF Database, TaskIds
  <2>4. \E t \in {0} \cup TaskIds, d \in {0} \cup told : Send(from, type, t, d)
      BY <2>1, <2>3 DEF SendLifecycle, SendAboutTask
  <2> QED BY <2>2, <2>4, SendModest
<1> QED BY <1>1, <1>2, <1>3, <1>4, <1>5, <1>6

\* The newest dispatch of a task that is not finished can be failed.
LEMMA EscalationStrikes ==
    ASSUME NEW D \in Database, Regular(D), NEW t, NEW d \in DispatchIds,
           IsLatestDispatch(D, t, d), D.task[t].status # "completed"
    PROVE  D.disp[d].task = t /\ t \in TaskIds /\ Struck(D, failDispatch(D, d), t, d)
<1>1. D.disp[d].task = t /\ D.disp[d].status # "none" /\ Newest(D, d)
    BY DEF IsLatestDispatch, DispatchesOf, Newest
<1>2. D.disp[d].status # "completed"
    BY <1>1 DEF Regular, Matched, Outcome
<1>3. t \in TaskIds
    BY <1>1 DEF Regular, Rows
<1> QED BY <1>1, <1>2, <1>3, FailStrikes

LEMMA HandleMessageModest ==
    ASSUME Alone, TypeOK, Told, Regular(db), NEW m \in MessageIds, HandleMessage(m)
    PROVE  Modest
<1>0. db \in Database
    BY DEF TypeOK
<1>1. CASE HandleLifecycle(m)
  <2>1. db' = reconcileLifecycleMessage(db, m) /\ db.msg[m].disp \in {0} \cup told
      BY <1>1 DEF HandleLifecycle, Told
  <2>2. /\ Minor(db, db', told) /\ SameRuns(db, db')
        /\ \A k \in MessageIds : db'.msg[k].disp = db.msg[k].disp
      BY <1>0, <2>1, ReconcileMinor
  <2> QED BY <2>2 DEF Modest, Told
<1>2. CASE HandleEscalation(m)
  <2> DEFINE t == db.msg[m].task
  <2>1. ASSUME NEW d \in DispatchIds, EscalationFails(t, d),
               IF failDispatch(db, d).disp[d].status = "circuit_broken"
               THEN db' = updateTaskStatus(failDispatch(db, d), t, "failed", m)
               ELSE db' = failDispatch(db, d)
        PROVE  Modest
    <3> DEFINE E == failDispatch(db, d)
    <3>1. IsLatestDispatch(db, t, d) /\ db.task[t].status # "completed"
        BY <2>1 DEF EscalationFails
    <3>2. t \in TaskIds /\ Struck(db, E, t, d) /\ db.disp[d].status # "none"
        BY <1>0, <3>1, EscalationStrikes DEF Struck
    <3>3. E \in Database /\ SameRest(db, E)
        BY <1>0, <3>2, FailDispatchWrites, FailRows DEF Writes
    <3>4. IF E.disp[d].status = "circuit_broken"
          THEN db' = updateTaskStatus(E, t, "failed", m) ELSE db' = E
        BY <2>1
    <3> HIDE DEF E, t
    <3>5. CASE E.disp[d].status = "circuit_broken"
      <4>1. /\ "failed" \in TaskStatuses /\ "failed" # "completed" /\ m \in {0} \cup MessageIds
            /\ db' = updateTaskStatus(E, t, "failed", m)
          BY <3>4, <3>5 DEF TaskStatuses
      <4>2. /\ SameRest(E, db') /\ db'.disp = E.disp
            /\ db'.task[t].status = "failed" /\ db'.task[t].deps = E.task[t].deps
            /\ \A u \in TaskIds : u # t => db'.task[u] = E.task[u]
          BY <3>2, <3>3, <4>1, UpdateRows
      <4>3. E.task[t].status = "failed"
          BY <3>2, <3>5 DEF Struck
      <4>4. Untouched(E, db')
          BY <3>2, <4>2, <4>3 DEF Untouched, TaskSame, DispSame, SameRest, SameIds
      <4>5. Struck(db, db', t, d)
          BY <3>2, <4>4, StruckAfter
      <4>6. SameRuns(db, db') /\ SameMail(db, db')
          BY <3>3, <4>2 DEF SameRest, SameRuns, SameMail
      <4> QED BY <3>2, <4>5, <4>6 DEF Modest, Minor, SameMail, Told
    <3>6. CASE E.disp[d].status # "circuit_broken"
      <4>1. db' = E
          BY <3>4, <3>6
      <4> QED BY <3>2, <3>3, <4>1 DEF Modest, Minor, SameRest, SameMail, Told
    <3> QED BY <3>5, <3>6
  <2>2. UNCHANGED db => Modest
      BY IdleModest
  <2> QED BY <1>2, <2>1, <2>2 DEF HandleEscalation
<1>3. CASE HandleDecisionGate(m)
  <2>1. ~(db.nGate < MaxGates)
    <3>1. db.nGate \in 0..MaxGates
        BY <1>0 DEF Database
    <3> QED BY <3>1 DEF Alone
  <2> QED BY <1>3, <2>1, IdleModest DEF HandleDecisionGate
<1>4. CASE HandleOther(m)
    BY <1>4, IdleModest DEF HandleOther
<1> QED BY <1>1, <1>2, <1>3, <1>4 DEF HandleMessage

LEMMA ExitModest ==
    ASSUME TypeOK, Told, Regular(db), NEW h \in Handles, TerminalExit(h)
    PROVE  Modest
<1>0. db \in Database
    BY DEF TypeOK
<1>1. ASSUME NEW d \in DispatchIds, d \in ActiveDispatches(db),
             \/ /\ db.nMsg < MaxMessages
                /\ db' = insertMessage(failDispatch(db, d),
                            [NewMessage(h, "escalation", db.disp[d].task, 0)
                                EXCEPT !.pane = NoPane])
             \/ db' = failDispatch(db, d)
      PROVE  Modest
  <2> DEFINE E == failDispatch(db, d)
             t == db.disp[d].task
             row == [NewMessage(h, "escalation", t, 0) EXCEPT !.pane = NoPane]
  <2>1. db.disp[d].status # "none" /\ db.disp[d].status \in {"pending", "dispatched"}
      BY <1>1 DEF ActiveDispatches, ActiveStatuses
  <2>2. Newest(db, d) /\ db.disp[d].status # "completed" /\ t \in TaskIds
      BY <2>1 DEF Regular, Matched, Rows
  <2>3. Struck(db, E, t, d)
      BY <1>0, <2>1, <2>2, FailStrikes
  <2>4. E \in Database /\ SameRest(db, E)
      BY <1>0, <2>1, FailDispatchWrites, FailRows DEF Writes
  <2>5. row.disp = 0
      BY DEF NewMessage
  <2>6. db' = insertMessage(E, row) \/ db' = E
      BY <1>1
  <2> HIDE DEF E, row, t
  <2>7. CASE db' = insertMessage(E, row)
    <3>1. /\ db'.task = E.task /\ db'.disp = E.disp /\ SameIds(E, db') /\ SameRuns(E, db')
          /\ \A m \in MessageIds : db'.msg[m] = IF m = E.nMsg + 1 THEN row ELSE E.msg[m]
        BY <2>4, <2>7, InsertRows
    <3>2. Struck(db, db', t, d)
        BY <2>3, <3>1, RowsUntouched, StruckAfter
    <3>3. SameRuns(db, db') /\ \A m \in MessageIds : db'.msg[m].disp \in {0} \cup told
        BY <2>4, <2>5, <3>1 DEF SameRest, SameRuns, SameMail, Told
    <3> QED BY <2>2, <3>2, <3>3 DEF Modest, Minor, t
  <2>8. CASE db' = E
      BY <2>2, <2>3, <2>4, <2>8 DEF Modest, Minor, SameRest, SameMail, Told, t
  <2> QED BY <2>6, <2>7, <2>8
<1> QED BY <1>1, IdleModest DEF TerminalExit

LEMMA TickEndModest ==
    ASSUME Alone, TypeOK, Told, NEW r, TickEnd(r)
    PROVE  Modest
<1> DEFINE E == markAsRead(db, turn.batch)
<1>1. db \in Database /\ E \in Database
    BY MarkAsReadWrites DEF TypeOK, Writes
<1>2. /\ E.task = db.task /\ E.disp = db.disp /\ SameIds(db, E) /\ SameRuns(db, E)
      /\ \A m \in MessageIds : E.msg[m].disp = db.msg[m].disp
    BY <1>1, MarkAsReadRows
<1>3. db' = restorePendingGateTaskStatuses(E)
    BY DEF TickEnd
<1> HIDE DEF E
<1>4. \A t : ~HasPendingGate(E, t)
    BY DEF HasPendingGate, GateIds, Alone
<1>5. /\ SameRest(E, db') /\ db'.disp = E.disp
      /\ \A t \in TaskIds : db'.task[t].deps = E.task[t].deps /\ db'.task[t].status = E.task[t].status
    BY <1>1, <1>3, <1>4, RestoreRows
<1>6. Untouched(db, db')
    BY <1>2, <1>5 DEF Untouched, TaskSame, DispSame, SameRest, SameIds
<1> QED BY <1>2, <1>5, <1>6 DEF Modest, Minor, SameRest, SameRuns, SameMail, Told

\* The prompt of a dispatch fails: it is still its task's newest, and nobody
\* can have reported it done.
LEMMA PromptedModest ==
    ASSUME TypeOK, CallsInProgress, Told, Regular(db), NEW r \in RunIds, Prompted(r)
    PROVE  Modest
<1> DEFINE d == coord[r].disp
           t == db.disp[d].task
<1>1. db \in Database /\ d \in DispatchIds /\ d = db.nDisp /\ d \notin told
    BY DEF TypeOK, CallsInProgress, Told, Prompted
<1>2. CASE db' = failDispatch(db, d)
  <2>1. db.disp[d].status \notin {"none", "completed"}
    <3>1. d <= db.nDisp
        BY <1>1, Numbers
    <3> QED BY <1>1, <3>1 DEF Told, Regular, Rows
  <2>2. Newest(db, d)
      BY <1>1 DEF Newest, Regular, Rows
  <2>3. Struck(db, db', t, d) /\ t \in TaskIds
      BY <1>1, <1>2, <2>1, <2>2, FailStrikes DEF Regular, Rows
  <2>4. SameRest(db, db')
      BY <1>1, <1>2, <2>1, FailRows
  <2> QED BY <1>1, <2>3, <2>4 DEF Modest, Minor, SameRest, SameMail, Told
<1> QED BY <1>2, IdleModest DEF Prompted

LEMMA DispatchTaken ==
    ASSUME TypeOK, NEW t, NEW h \in Handles, NEW d, Dispatches(t, h, d)
    PROVE  Taken(db, db', t, db.nDisp + 1, h) /\ SameRuns(db, db') /\ SameMail(db, db')
<1> DEFINE k == db.nDisp + 1
<1>1. db \in Database /\ k \in DispatchIds /\ t \in TaskIds /\ db.task[t].status = "ready"
    BY DEF TypeOK, Dispatches, CanDispatch, TaskExists
<1>2. PICK n : IsPriorFailures(db, t, n) /\ db' = createDispatchContext(db, t, h, PaneOf[h], n)
    BY DEF Dispatches
<1>3. \A e \in DispatchIds : db.disp[e].status = "dispatched" => db.disp[e].handle # h
    BY DEF Dispatches, CanDispatch, LocksAssignee, ActiveDispatches, ActiveStatuses
<1>4. /\ SameMail(db, db') /\ SameRuns(db, db')
      /\ db'.nDisp = k /\ db'.nTask = db.nTask
      /\ db'.disp[k] = [status |-> "dispatched", task |-> t, handle |-> h,
                        pane |-> PaneOf[h], failures |-> n, beat |-> 0]
      /\ \A e \in DispatchIds : e # k => db'.disp[e] = db.disp[e]
      /\ db'.task[t].status = "dispatched" /\ db'.task[t].deps = db.task[t].deps
      /\ \A u \in TaskIds : u # t => db'.task[u] = db.task[u]
    BY <1>1, <1>2, DispatchRows
<1>5. /\ db'.disp[k].status = "dispatched" /\ db'.disp[k].task = t
      /\ db'.disp[k].handle = h /\ db'.disp[k].failures = n
    BY <1>4
<1>6. Taken(db, db', t, k, h)
    BY <1>1, <1>2, <1>3, <1>4, <1>5 DEF Taken, DispSame, TaskSame
<1> QED BY <1>4, <1>6

LEMMA DispatchTakes ==
    ASSUME TypeOK, Told, NEW t, NEW h \in Handles, NEW d, Dispatches(t, h, d)
    PROVE  /\ Taken(db, db', t, db.nDisp + 1, h) /\ SameRuns(db, db')
           /\ \A m \in MessageIds : db'.msg[m].disp \in {0} \cup told
BY DispatchTaken DEF SameMail, Told

LEMMA RunsModest ==
    ASSUME TypeOK, Told, Run \/ \E r \in RunIds : Finish(r)
    PROVE  /\ Untouched(db, db') /\ Minor(db, db', told)
           /\ \A m \in MessageIds : db'.msg[m].disp \in {0} \cup told
<1>1. /\ db'.task = db.task /\ db'.disp = db.disp /\ SameIds(db, db') /\ db'.msg = db.msg
    BY DEF TypeOK, Database, Run, Finish, createCoordinatorRun, updateCoordinatorRun, SameIds
<1> QED BY <1>1, RowsUntouched DEF Minor, Told

\* A new dispatch by the loop of run r.
Dispatched(r) ==
    /\ Taken(db, db', coord[r].task, db.nDisp + 1, coord[r].handle) /\ SameRuns(db, db')
    /\ \A m \in MessageIds : db'.msg[m].disp \in {0} \cup told
    /\ coord[r].pc = "probing" /\ UNCHANGED <<told, turn>>
    /\ coord' = [coord EXCEPT ![r].disp = db.nDisp + 1, ![r].pc = "prompting"]

LEMMA CoordinatorModest ==
    ASSUME Alone, TypeOK, CallsInProgress, Told, Regular(db), NEW r \in RunIds,
           CoordinatorStep(r), ~Finish(r)
    PROVE  Modest \/ Dispatched(r)
<1>1. CASE DispatchTask(r)
  <2>1. coord[r].handle \in Handles
      BY DEF TypeOK, Coordinator
  <2>2. CASE /\ Dispatches(coord[r].task, coord[r].handle, db.nDisp + 1)
             /\ coord' = [coord EXCEPT ![r].disp = db.nDisp + 1, ![r].pc = "prompting"]
      BY <1>1, <2>1, <2>2, DispatchTakes DEF Dispatched, DispatchTask
  <2> QED BY <1>1, <2>2, IdleModest DEF DispatchTask
<1>2. CASE LoopTest(r) \/ ListTerminals(r) \/ CreateTerminal(r) \/ AssignNext(r)
           \/ CheckConvergence(r) \/ Wake(r)
  <2>1. UNCHANGED db
      BY <1>2 DEF LoopTest, ListTerminals, CreateTerminal, AssignNext, CheckConvergence, Wake
  <2> QED BY <2>1, IdleModest
<1> QED BY <1>1, <1>2, TickEndModest, PromptedModest DEF CoordinatorStep

LEMMA NextModest ==
    ASSUME Alone, TypeOK, CallsInProgress, Told, Regular(db), Next,
           ~Run, \A r \in RunIds : ~Finish(r)
    PROVE  Modest \/ \E r \in RunIds : Dispatched(r)
<1>1. CASE CheckEnd \/ RunStop \/ Crash \/ \E types \in CheckFilters : CheckBegin(types)
    BY <1>1, MarkAsReadModest, IdleModest DEF CheckEnd, CheckBegin, RunStop, Crash
<1>2. ASSUME NEW c \in Clients PROVE FALSE
    BY <1>2 DEF Alone, Unmeddled
<1> QED BY <1>1, <1>2, HandlersModest, HandleMessageModest, CoordinatorModest, ExitModest DEF Next

-----------------------------------------------------------------------------
(* What the actions do to the coordinators.                                *)

\* The tasks that the coordinator c may still dispatch in this tick.
Owes(c) ==
    IF c.pc \in Working THEN c.ready \cup (IF c.pc = "probing" THEN {c.task} ELSE {}) ELSE {}

\* The task in hand has left the list.
Apart(c) == c.pc \in {"probing", "prompting"} => c.task \notin c.ready

\* The coordinator c becomes e and claims no more than before.
Tame(c, e) ==
    /\ e.pc \notin {"none", "done"} => c.pc \notin {"none", "done"}
    /\ e.pc = "prompting" => c.pc = "prompting" /\ e.disp = c.disp /\ e.task = c.task
    /\ Apart(c) => Apart(e)
    /\ Owes(e) \subseteq Owes(c)
    /\ e.pc \in Working =>
          c.pc \in Working /\ Claim(e) <= Claim(c) /\ (c.slots >= 0 => e.slots >= 0)

LEMMA TameSame ==
    ASSUME NEW c \in Coordinator, NEW e, e.pc = c.pc, e.disp = c.disp, e.slots = c.slots,
           e.ready = c.ready, e.task = c.task
    PROVE  Tame(c, e)
<1>1. c.slots <= c.slots /\ c.slots + 1 <= c.slots + 1
    BY DEF Coordinator
<1>2. (Apart(c) => Apart(e)) /\ Owes(e) \subseteq Owes(c) /\ Claim(e) = Claim(c)
    BY DEF Apart, Owes, Claim
<1> QED BY <1>1, <1>2 DEF Tame, Claim

LEMMA TameOthers ==
    ASSUME TypeOK, NEW r \in RunIds, NEW e, coord' = [coord EXCEPT ![r] = e], Tame(coord[r], e)
    PROVE  \A q \in RunIds : Tame(coord[q], coord'[q])
<1>1. coord \in [RunIds -> Coordinator]
    BY DEF TypeOK
<1>2. coord'[r] = e /\ \A q \in RunIds : q # r => coord'[q] = coord[q]
    BY <1>1
<1>3. ASSUME NEW q \in RunIds PROVE Tame(coord[q], coord'[q])
  <2>1. CASE q = r
      BY <1>2, <2>1
  <2>2. CASE q # r
      BY <1>1, <1>2, <2>2, TameSame
  <2> QED BY <2>1, <2>2
<1> QED BY <1>3

LEMMA CoordSame ==
    ASSUME TypeOK, UNCHANGED coord
    PROVE  \A q \in RunIds : Tame(coord[q], coord'[q])
<1>1. coord \in [RunIds -> Coordinator]
    BY DEF TypeOK
<1> QED BY <1>1, TameSame

LEMMA CoordinatorTame ==
    ASSUME TypeOK, CallsInProgress, NEW r \in RunIds, CoordinatorStep(r), ~TickEnd(r),
           ~\E t \in TaskIds, h \in Handles : Dispatches(t, h, db.nDisp + 1)
    PROVE  \A q \in RunIds : Tame(coord[q], coord'[q])
<1> DEFINE c == coord[r]
<1>0. c \in Coordinator /\ coord \in [RunIds -> Coordinator]
      /\ c.slots \in Int /\ c.slots - 1 + 1 = c.slots
    BY DEF TypeOK, Coordinator
<1>1. /\ Leave(c).pc = "converging"
      /\ Return(c).pc = "assigning" /\ Return(c).slots = c.slots /\ Return(c).ready = c.ready
    BY <1>0 DEF Leave, Return, NewCoordinator, Coordinator
<1> DEFINE Goal == \A q \in RunIds : Tame(coord[q], coord'[q])
<1>2. ASSUME NEW e, coord' = [coord EXCEPT ![r] = e],
             c.pc \notin {"none", "done"}, e.pc \notin {"prompting"} \cup Working
      PROVE  Goal
  <2>1. Owes(e) = {} /\ Apart(e)
      BY <1>2 DEF Owes, Apart, Working
  <2>2. Tame(c, e)
      BY <1>2, <2>1 DEF Tame
  <2> QED BY <1>2, <2>2, TameOthers
<1>3. ASSUME NEW e, coord' = [coord EXCEPT ![r] = e],
             c.pc \in Working, e.pc \in Working \ {"prompting"},
             Claim(e) <= Claim(c), c.slots >= 0 => e.slots >= 0,
             Owes(e) \subseteq Owes(c), Apart(e)
      PROVE  Goal
  <2>1. Tame(c, e)
      BY <1>3 DEF Tame, Working
  <2> QED BY <1>3, <2>1, TameOthers
<1>4. \A p : coord' = [coord EXCEPT ![r].pc = p] =>
         \E e : e.pc = p /\ coord' = [coord EXCEPT ![r] = e]
  <2> TAKE p
  <2>1. [c EXCEPT !.pc = p].pc = p
      BY <1>0 DEF Coordinator
  <2> QED BY <1>0, <2>1
<1> SUFFICES Goal
    OBVIOUS
<1> HIDE DEF Goal
<1>5. CASE LoopTest(r)
  <2>1. CASE UNCHANGED coord
      BY <2>1, CoordSame DEF Goal
  <2>2. CASE coord' = [coord EXCEPT ![r].pc = "finishing"]
    <3>1. PICK e : e.pc = "finishing" /\ coord' = [coord EXCEPT ![r] = e]
        BY <1>4, <2>2
    <3>2. c.pc \notin {"none", "done"} /\ e.pc \notin {"prompting"} \cup Working
        BY <1>5, <3>1 DEF LoopTest, Working
    <3> HIDE DEF c
    <3> QED BY <1>2, <3>1, <3>2
  <2> QED BY <1>5, <2>1, <2>2 DEF LoopTest
<1>6. CASE ListTerminals(r)
  <2>1. PICK ts : \E p \in {"creating", "assigning"} :
           coord' = [coord EXCEPT ![r].terminals = ts, ![r].pc = p]
      BY <1>6 DEF ListTerminals
  <2>2. PICK p \in {"creating", "assigning"} :
           coord' = [coord EXCEPT ![r].terminals = ts, ![r].pc = p]
      BY <2>1
  <2> DEFINE e == [c EXCEPT !.terminals = ts, !.pc = p]
  <2>3. /\ e.pc = p /\ e.slots = c.slots /\ e.ready = c.ready
        /\ coord' = [coord EXCEPT ![r] = e] /\ c.pc = "listing"
      BY <1>0, <1>6, <2>2 DEF Coordinator, ListTerminals
  <2> HIDE DEF e
  <2>4. Claim(e) = c.slots /\ Claim(c) = c.slots
      BY <2>3 DEF Claim
  <2>5. Claim(e) <= Claim(c) /\ (c.slots >= 0 => e.slots >= 0)
      BY <1>0, <2>3, <2>4
  <2>6. /\ c.pc \in Working /\ e.pc \in Working \ {"prompting"}
        /\ Owes(e) \subseteq Owes(c) /\ Apart(e)
      BY <2>3 DEF Working, Owes, Apart
  <2> HIDE DEF c
  <2> QED BY <1>3, <2>3, <2>5, <2>6
<1>7. CASE CreateTerminal(r)
  <2>1. CASE coord' = [coord EXCEPT ![r] = Leave(@)]
      BY <1>0, <1>1, <1>2, <1>7, <2>1 DEF CreateTerminal, Working
  <2>2. ASSUME NEW h, coord' = [coord EXCEPT ![r].terminals = {h}, ![r].pc = "assigning"]
        PROVE  Goal
    <3> DEFINE e == [c EXCEPT !.terminals = {h}, !.pc = "assigning"]
    <3>1. /\ e.pc = "assigning" /\ e.slots = c.slots /\ e.ready = c.ready
          /\ coord' = [coord EXCEPT ![r] = e] /\ c.pc = "creating"
        BY <1>0, <1>7, <2>2 DEF Coordinator, CreateTerminal
    <3> HIDE DEF e
    <3>2. Claim(e) = c.slots /\ Claim(c) = c.slots
        BY <3>1 DEF Claim
    <3>3. Claim(e) <= Claim(c) /\ (c.slots >= 0 => e.slots >= 0)
        BY <1>0, <3>1, <3>2
    <3>4. /\ c.pc \in Working /\ e.pc \in Working \ {"prompting"}
          /\ Owes(e) \subseteq Owes(c) /\ Apart(e)
        BY <3>1 DEF Working, Owes, Apart
    <3> HIDE DEF c
    <3> QED BY <1>3, <3>1, <3>3, <3>4
  <2> QED BY <1>7, <2>1, <2>2 DEF CreateTerminal
<1>8. CASE AssignNext(r)
  <2>1. CASE coord' = [coord EXCEPT ![r] = Leave(c)]
      BY <1>1, <1>2, <1>8, <2>1 DEF AssignNext, Working
  <2>2. ASSUME NEW t \in c.ready, NEW h, c.slots > 0,
               coord' = [coord EXCEPT ![r] =
                            [c EXCEPT !.ready = @ \ {t}, !.slots = @ - 1,
                                      !.terminals = @ \ {h},
                                      !.task = t, !.handle = h, !.pc = "probing"]]
        PROVE  Goal
    <3> DEFINE e == [c EXCEPT !.ready = @ \ {t}, !.slots = @ - 1, !.terminals = @ \ {h},
                              !.task = t, !.handle = h, !.pc = "probing"]
    <3>1. /\ e.pc = "probing" /\ e.slots = c.slots - 1
          /\ e.ready = c.ready \ {t} /\ e.task = t
          /\ coord' = [coord EXCEPT ![r] = e] /\ c.pc = "assigning"
        BY <1>0, <1>8, <2>2 DEF Coordinator, AssignNext
    <3> HIDE DEF e
    <3>2. Claim(e) = c.slots /\ Claim(c) = c.slots /\ e.slots >= 0
        BY <1>0, <2>2, <3>1 DEF Claim
    <3>3. Claim(e) <= Claim(c) /\ (c.slots >= 0 => e.slots >= 0)
        BY <1>0, <3>2
    <3>4. /\ c.pc \in Working /\ e.pc \in Working \ {"prompting"}
          /\ Owes(e) \subseteq Owes(c) /\ Apart(e)
        BY <2>2, <3>1 DEF Working, Owes, Apart
    <3> HIDE DEF c
    <3> QED BY <1>3, <3>1, <3>3, <3>4
  <2>3. c.slots > 0 \/ c.slots <= 0
      BY <1>0
  <2> QED BY <1>8, <2>1, <2>2, <2>3 DEF AssignNext
<1>9. CASE DispatchTask(r)
  <2>1. coord[r].task \in TaskIds /\ coord[r].handle \in Handles
      BY <1>0, <1>9 DEF DispatchTask, CallsInProgress, Coordinator
  <2>2. coord' = [coord EXCEPT ![r] = Return(c)] /\ c.pc = "probing"
      BY <1>0, <1>9, <2>1 DEF DispatchTask
  <2>3. Claim(Return(c)) = c.slots /\ Claim(c) = c.slots + 1
      BY <1>1, <2>2 DEF Claim
  <2>4. Claim(Return(c)) <= Claim(c) /\ (c.slots >= 0 => Return(c).slots >= 0)
      BY <1>0, <1>1, <2>3
  <2>5. /\ c.pc \in Working /\ Return(c).pc \in Working \ {"prompting"}
        /\ Owes(Return(c)) \subseteq Owes(c) /\ Apart(Return(c))
      BY <1>1, <2>2 DEF Working, Owes, Apart
  <2> HIDE DEF c
  <2> QED BY <1>3, <2>2, <2>4, <2>5
<1>10. CASE Prompted(r)
  <2> DEFINE b == Return(c)
             e == [b EXCEPT !.failedTasks = @ \cup {c.task}]
  <2>1. b \in Coordinator /\ c.pc = "prompting"
      BY <1>0, <1>10, CoordinatorTypes DEF Prompted
  <2>2. e.pc = "assigning" /\ e.slots = c.slots /\ e.ready = c.ready
      BY <1>1, <2>1 DEF Coordinator
  <2>3. coord' = [coord EXCEPT ![r] = b] \/ coord' = [coord EXCEPT ![r] = e]
      BY <1>10 DEF Prompted
  <2>4. Claim(e) = c.slots /\ Claim(b) = c.slots /\ Claim(c) = c.slots
      BY <1>1, <2>1, <2>2 DEF Claim
  <2>5. c.pc \in Working /\ e.pc \in Working \ {"prompting"} /\ b.pc \in Working \ {"prompting"}
      BY <1>1, <2>1, <2>2 DEF Working
  <2>6. b.slots = c.slots
      BY <1>1
  <2>7. /\ Owes(b) \subseteq Owes(c) /\ Apart(b)
        /\ Owes(e) \subseteq Owes(c) /\ Apart(e)
      BY <1>1, <2>1, <2>2 DEF Working, Owes, Apart
  <2> HIDE DEF e, b, c
  <2> QED BY <1>0, <1>3, <2>2, <2>3, <2>4, <2>5, <2>6, <2>7
<1>11. CASE CheckConvergence(r) \/ Wake(r) \/ Finish(r)
  <2>1. \E p \in {"finishing", "sleeping", "tick", "done"} : coord' = [coord EXCEPT ![r].pc = p]
      BY <1>11 DEF CheckConvergence, Wake, Finish
  <2>2. c.pc \in {"converging", "sleeping", "finishing", "failing"}
      BY <1>11 DEF CheckConvergence, Wake, Finish
  <2> QED BY <1>2, <1>4, <2>1, <2>2 DEF Working
<1> QED BY <1>5, <1>6, <1>7, <1>8, <1>9, <1>10, <1>11 DEF CoordinatorStep, Goal

\* Marking a coordinator stopped or a task failed claims nothing.
LEMMA FlagsTame ==
    ASSUME TypeOK, NEW r, NEW x,
           \/ coord' = [coord EXCEPT ![r].stopped = x]
           \/ coord' = [coord EXCEPT ![r].failedTasks = @ \cup x]
    PROVE  \A q \in RunIds : Tame(coord[q], coord'[q]) /\ coord'[q].pc = coord[q].pc
<1>1. SUFFICES ASSUME NEW q \in RunIds
               PROVE  Tame(coord[q], coord'[q]) /\ coord'[q].pc = coord[q].pc
    OBVIOUS
<1>2. coord[q] \in Coordinator
    BY DEF TypeOK
<1>3. \/ coord'[q] = coord[q]
      \/ coord'[q] = [coord[q] EXCEPT !.stopped = x]
      \/ coord'[q] = [coord[q] EXCEPT !.failedTasks = @ \cup x]
    BY DEF TypeOK
<1>4. /\ coord'[q].pc = coord[q].pc /\ coord'[q].disp = coord[q].disp
      /\ coord'[q].slots = coord[q].slots
      /\ coord'[q].ready = coord[q].ready /\ coord'[q].task = coord[q].task
    BY <1>2, <1>3 DEF Coordinator
<1> QED BY <1>2, <1>4, TameSame

LEMMA HandleMessageTame ==
    ASSUME TypeOK, NEW m, HandleMessage(m)
    PROVE  \A q \in RunIds : Tame(coord[q], coord'[q]) /\ coord'[q].pc = coord[q].pc
<1>1. \/ UNCHANGED coord
      \/ \E x : coord' = [coord EXCEPT ![turn.run].failedTasks = @ \cup x]
    BY DEF HandleMessage, HandleLifecycle, HandleEscalation, HandleDecisionGate, HandleOther
<1> QED BY <1>1, CoordSame, FlagsTame

LEMMA NextTame ==
    ASSUME Unmeddled, TypeOK, CallsInProgress, Next, ~Run, \A r \in RunIds : ~TickEnd(r),
           ~\E t \in TaskIds, h \in Handles : Dispatches(t, h, db.nDisp + 1)
    PROVE  \A q \in RunIds : Tame(coord[q], coord'[q])
<1>1. CASE \/ \E deps \in DepChoices : TaskCreate(deps)
           \/ \E t \in TaskIds, s \in ManualStatuses : TaskUpdate(t, s)
           \/ \E t \in TaskIds : GateCreate(t)
           \/ \E g \in GateIds : GateResolve(g)
           \/ \E scope \in ResetScopes : Reset(scope)
           \/ AgentSend
           \/ \E types \in CheckFilters : CheckBegin(types)
           \/ CheckEnd
           \/ \E h \in Handles : TerminalExit(h)
  <2>1. UNCHANGED coord
      BY <1>1 DEF TaskCreate, TaskUpdate, GateCreate, GateResolve, Reset, AgentSend,
                  SendLifecycle, SendAboutTask, Send, CheckBegin, CheckEnd, TerminalExit
  <2> QED BY <2>1, CoordSame
<1>2. CASE RunStop
    BY <1>2, FlagsTame DEF RunStop
<1>3. CASE Crash
  <2>1. \A q \in RunIds : coord'[q].pc \in {"none", "done"}
      BY <1>3 DEF Crash, NewCoordinator
  <2> QED BY <2>1 DEF Tame, Working, Owes, Apart
<1>4. ASSUME NEW c \in Clients PROVE FALSE
    BY <1>4 DEF Unmeddled
<1> QED BY <1>1, <1>2, <1>3, <1>4, HandleMessageTame, CoordinatorTame DEF Next

\* The message loop of a tick stays in that tick.
LEMMA NextTicking ==
    ASSUME Unmeddled, TypeOK, Next, turn.by = "tick" => turn.run \in RunIds /\ coord[turn.run].pc = "tick",
           turn'.by = "tick"
    PROVE  turn'.run \in RunIds /\ coord'[turn'.run].pc = "tick"
<1>0. turn \in Turn /\ coord \in [RunIds -> Coordinator]
    BY DEF TypeOK
<1>1. ASSUME NEW m \in MessageIds, HandleMessage(m)
      PROVE  turn'.run \in RunIds /\ coord'[turn'.run].pc = "tick"
  <2>1. turn'.run = turn.run /\ turn'.by = turn.by
      BY <1>0, <1>1 DEF HandleMessage, Turn
  <2> QED BY <1>1, <2>1, HandleMessageTame
<1>2. ASSUME NEW r \in RunIds, LoopTest(r)
      PROVE  turn'.run \in RunIds /\ coord'[turn'.run].pc = "tick"
    BY <1>0, <1>2 DEF LoopTest, Free
<1>3. ASSUME NEW r \in RunIds, CoordinatorStep(r), ~LoopTest(r) PROVE FALSE
  <2>1. CASE TickEnd(r)
      BY <2>1 DEF TickEnd, FreeTurn
  <2>2. CASE ListTerminals(r) \/ CreateTerminal(r) \/ AssignNext(r) \/ DispatchTask(r)
      BY <2>2 DEF ListTerminals, CreateTerminal, AssignNext, DispatchTask, Free
  <2>3. CASE Prompted(r) \/ CheckConvergence(r) \/ Wake(r) \/ Finish(r)
      BY <2>3 DEF Prompted, CheckConvergence, Wake, Finish, Free
  <2> QED BY <1>3, <2>1, <2>2, <2>3 DEF CoordinatorStep
<1>4. CASE \/ \E deps \in DepChoices : TaskCreate(deps)
           \/ \E t \in TaskIds, s \in ManualStatuses : TaskUpdate(t, s)
           \/ \E t \in TaskIds : GateCreate(t)
           \/ \E g \in GateIds : GateResolve(g)
           \/ \E scope \in ResetScopes : Reset(scope)
           \/ AgentSend
           \/ \E types \in CheckFilters : CheckBegin(types)
           \/ CheckEnd \/ Run \/ RunStop \/ Crash
           \/ \E h \in Handles : TerminalExit(h)
  <2>1. turn'.by # "tick"
      BY <1>4 DEF TaskCreate, TaskUpdate, GateCreate, GateResolve, Reset, AgentSend,
                  SendLifecycle, SendAboutTask, Send, CheckBegin, CheckEnd, TerminalExit,
                  Run, RunStop, Crash, FreeTurn, Free
  <2> QED BY <2>1
<1>5. ASSUME NEW c \in Clients PROVE FALSE
    BY <1>5 DEF Unmeddled
<1> QED BY <1>1, <1>2, <1>3, <1>4, <1>5 DEF Next

\* What follows the tick's mail: the slots are counted, or the tick is over.
LEMMA TickEndCoord ==
    ASSUME TypeOK, NEW r \in RunIds, TickEnd(r)
    PROVE  /\ turn.by = "tick" /\ turn.run = r
           /\ \A q \in RunIds : q # r => coord'[q] = coord[q]
           /\ \/ coord'[r].pc = "converging"
              \/ /\ coord'[r].pc = "listing"
                 /\ coord'[r].slots = MaxConcurrent - Running(db') /\ coord'[r].slots > 0
<1> DEFINE settled == restorePendingGateTaskStatuses(markAsRead(db, turn.batch))
           slots == slotsAvailable(settled)
           ready == TasksIn(settled, "ready")
           e == [coord[r] EXCEPT !.pc = "listing", !.ready = ready, !.slots = slots]
<1>1. coord[r] \in Coordinator /\ coord \in [RunIds -> Coordinator] /\ db' = settled
    BY DEF TypeOK, TickEnd
<1>2. /\ turn.by = "tick" /\ turn.run = r
      /\ \/ coord' = [coord EXCEPT ![r] = Leave(@)]
         \/ slots > 0 /\ coord' = [coord EXCEPT ![r] = e]
  <2>1. slots \in Int
    <3>1. db' \in Database
        BY TickEndStep DEF TypeOK
    <3>2. Cardinality(TasksIn(db', "dispatched")) \in Nat
      <4>1. IsFiniteSet(TaskIds)
          BY FS_Interval, BoundsAssumption DEF TaskIds
      <4> QED BY <4>1, FS_Subset, FS_CardinalityType DEF TasksIn
    <3> HIDE DEF settled
    <3> QED BY <1>1, <3>2, EnvironmentAssumption DEF slotsAvailable
  <2>2. coord' = [coord EXCEPT ![r] =
                    IF ready = {} \/ slots <= 0 THEN Leave(@)
                    ELSE [@ EXCEPT !.pc = "listing", !.ready = ready, !.slots = slots]]
      BY DEF TickEnd
  <2> HIDE DEF slots, ready, settled
  <2>3. ~(slots <= 0) => slots > 0
      BY <2>1
  <2> QED BY <2>2, <2>3 DEF TickEnd
<1>3. Leave(coord[r]).pc = "converging"
    BY DEF Leave, NewCoordinator
<1>4. e.pc = "listing" /\ e.slots = slots
    BY <1>1 DEF Coordinator
<1>5. slots = MaxConcurrent - Running(db')
    BY <1>1 DEF slotsAvailable, Running
<1> HIDE DEF e, slots, settled
<1> QED BY <1>1, <1>2, <1>3, <1>4, <1>5

-----------------------------------------------------------------------------
(* The invariant.                                                          *)

LEMMA RunningNumber ==
    \A D : Running(D) \in Nat /\ IsFiniteSet(TasksIn(D, "dispatched"))
<1>1. IsFiniteSet(TaskIds)
    BY FS_Interval, BoundsAssumption DEF TaskIds
<1> QED BY <1>1, FS_Subset, FS_CardinalityType DEF TasksIn, Running

LEMMA MinorRunning ==
    ASSUME NEW D, NEW E, NEW T, Minor(D, E, T)
    PROVE  Running(E) <= Running(D)
<1>1. ASSUME NEW t, E.task[t].status # "dispatched",
             \A u \in TaskIds : u # t => TaskSame(D, E, u)
      PROVE  TasksIn(E, "dispatched") \subseteq TasksIn(D, "dispatched")
    BY <1>1 DEF TasksIn, TaskSame
<1>2. ASSUME NEW t \in TaskIds, NEW d, Done(D, E, t, d)
      PROVE  TasksIn(E, "dispatched") \subseteq TasksIn(D, "dispatched")
    BY <1>2 DEF Done, TasksIn
<1>3. Untouched(D, E) => TasksIn(E, "dispatched") \subseteq TasksIn(D, "dispatched")
    BY DEF Untouched, TaskSame, TasksIn
<1>4. TasksIn(E, "dispatched") \subseteq TasksIn(D, "dispatched")
    BY <1>1, <1>2, <1>3 DEF Minor, Posted, Struck
<1> QED BY <1>4, RunningNumber, FS_Subset DEF Running

LEMMA TakenRunning ==
    ASSUME NEW D, NEW E, NEW t, NEW k, NEW h, Taken(D, E, t, k, h)
    PROVE  Running(E) <= Running(D) + 1
<1>1. TasksIn(E, "dispatched") \subseteq TasksIn(D, "dispatched") \cup {t}
    BY DEF TasksIn, Taken, TaskSame
<1>2. /\ IsFiniteSet(TasksIn(D, "dispatched") \cup {t})
      /\ Cardinality(TasksIn(D, "dispatched") \cup {t}) \in {Running(D), Running(D) + 1}
    BY RunningNumber, FS_AddElement DEF Running
<1>3. Running(E) <= Cardinality(TasksIn(D, "dispatched") \cup {t})
    BY <1>1, <1>2, FS_Subset DEF Running
<1> QED BY <1>2, <1>3, RunningNumber

\* The inductive invariant of this module.
BoardInv ==
    /\ TypeOK /\ CallsInProgress /\ Regular(db)
    /\ Coordinated /\ Told /\ Booked

LEMMA InitBoard == Init => BoardInv
<1> SUFFICES ASSUME Init PROVE BoardInv
    OBVIOUS
<1>1. TypeOK /\ CallsInProgress
    BY InitTypes
<1>2. /\ \A t \in TaskIds : EmptyDb.task[t].status = "none"
      /\ \A d \in DispatchIds : EmptyDb.disp[d].status = "none" /\ EmptyDb.disp[d].failures = 0
      /\ \A m \in MessageIds : EmptyDb.msg[m].disp = 0
      /\ \A r \in RunIds : EmptyDb.run[r] = "none"
      /\ EmptyDb.nTask = 0 /\ EmptyDb.nDisp = 0 /\ EmptyDb.nRun = 0
    BY DEF EmptyDb
<1>3. Regular(EmptyDb)
  <2>1. Rows(EmptyDb)
      BY <1>2, EmptyDbType, Numbers DEF Rows
  <2>2. Matched(EmptyDb) /\ Counted(EmptyDb) /\ Ordered(EmptyDb)
      BY <1>2 DEF Matched, Counted, Ordered
  <2> QED BY <2>1, <2>2 DEF Regular
<1>4. Coordinated
    BY <1>2 DEF Init, Coordinated, NewCoordinator, FreeTurn
<1>5. Told
    BY <1>2 DEF Init, Told, NewCoordinator
<1>6. Booked
  <2>1. TasksIn(EmptyDb, "dispatched") = {}
      BY <1>2 DEF TasksIn
  <2>2. Running(EmptyDb) = 0
      BY <2>1, FS_EmptySet DEF Running
  <2>3. \A r \in RunIds : coord[r].pc \notin Working
      BY DEF Init, NewCoordinator, Working
  <2> QED BY <2>2, <2>3, EnvironmentAssumption DEF Init, Booked
<1> QED BY <1>1, <1>3, <1>4, <1>5, <1>6 DEF BoardInv, Init

\* A step is a small one, a dispatch by the loop or one that only starts or ends
\* a run.
LEMMA Steps ==
    ASSUME Alone, BoardInv, Next
    PROVE  \/ Modest
           \/ \E r \in RunIds : Dispatched(r)
           \/ Run
           \/ \E r \in RunIds : Finish(r)
BY NextModest DEF BoardInv

LEMMA NextRegular ==
    ASSUME Alone, BoardInv, Next
    PROVE  Regular(db')
<1>1. db \in Database /\ Regular(db) /\ TypeOK /\ Told /\ told \subseteq DispatchIds
    BY DEF BoardInv, TypeOK
<1>2. ASSUME Minor(db, db', told) PROVE Regular(db')
    BY <1>1, <1>2, UntouchedRegular, PostedRegular, StruckRegular, DoneRegular DEF Minor
<1>3. ASSUME NEW r \in RunIds, Dispatched(r) PROVE Regular(db')
    BY <1>1, <1>3, TakenRegular DEF Dispatched
<1>4. Run \/ (\E r \in RunIds : Finish(r)) => Minor(db, db', told)
    BY <1>1, RunsModest
<1> QED BY <1>2, <1>3, <1>4, Steps DEF Modest

LEMMA MinorTame ==
    ASSUME Alone, BoardInv, Next, Minor(db, db', told), ~Run, \A r \in RunIds : ~TickEnd(r)
    PROVE  \A q \in RunIds : Tame(coord[q], coord'[q])
<1>0. TypeOK /\ CallsInProgress /\ Told /\ db \in Database
    BY DEF BoardInv, TypeOK
<1>1. ASSUME NEW t \in TaskIds, NEW h \in Handles, Dispatches(t, h, db.nDisp + 1)
      PROVE  FALSE
  <2>1. db'.nDisp = db.nDisp + 1
      BY <1>0, <1>1, DispatchTakes DEF Taken
  <2>2. db'.nDisp = db.nDisp
      BY DEF Minor, Untouched, Posted, Struck, Done
  <2> QED BY <1>0, <2>1, <2>2, Numbers
<1> QED BY <1>0, <1>1, NextTame DEF Alone

\* Which coordinators a step leaves as they are, or makes claim less.
LEMMA NextCoord ==
    ASSUME Alone, BoardInv, Next
    PROVE  \/ \A q \in RunIds : coord'[q].pc \in {"prompting"} \cup Working =>
                                   Tame(coord[q], coord'[q])
           \/ \E r \in RunIds : Dispatched(r)
           \/ \E r \in RunIds : TickEnd(r) /\ Modest
<1>0. TypeOK /\ CallsInProgress /\ Told /\ db \in Database /\ coord \in [RunIds -> Coordinator]
    BY DEF BoardInv, TypeOK
<1>1. CASE Run
  <2>1. ASSUME NEW q \in RunIds, coord'[q].pc \in {"prompting"} \cup Working
        PROVE  Tame(coord[q], coord'[q])
    <3>1. q # db.nRun + 1
      <4>1. coord'[db.nRun + 1].pc \in {"tick", "failing"}
          BY <1>0, <1>1 DEF Run, Coordinator
      <4> QED BY <2>1, <4>1 DEF Working
    <3>2. coord'[q] = coord[q]
        BY <1>0, <1>1, <3>1 DEF Run
    <3> QED BY <1>0, <3>2, TameSame
  <2> QED BY <2>1
<1>2. CASE Minor(db, db', told) /\ ~Run /\ \A r \in RunIds : ~TickEnd(r)
    BY <1>2, MinorTame
<1>3. ASSUME NEW r \in RunIds, TickEnd(r) PROVE Modest
    BY <1>0, <1>3, TickEndModest
<1>4. ASSUME NEW r \in RunIds, Finish(r) PROVE Minor(db, db', told)
    BY <1>0, <1>4, RunsModest
<1> QED BY <1>1, <1>2, <1>3, <1>4, Steps DEF Modest

\* A run starts when there is none.
LEMMA RunCoordinated ==
    ASSUME TypeOK, Coordinated, Run, turn'.by # "tick"
    PROVE  Coordinated'
<1> DEFINE n == db.nRun + 1
<1>0. db \in Database /\ coord \in [RunIds -> Coordinator]
    BY DEF TypeOK
<1>1. /\ n \in RunIds /\ db.nRun \in Nat /\ \A r \in RunIds : r \in Nat
      /\ \A r \in RunIds : db.run[r] # "running"
    BY <1>0, BoundsAssumption DEF Run, HasActiveRun, Database, RunIds
<1>2. /\ db'.nRun = n /\ db'.run[n] = "running"
      /\ \A r \in RunIds : r # n => db'.run[r] = db.run[r]
    BY <1>0, <1>1 DEF Run, createCoordinatorRun, Database
<1>3. \A r \in RunIds : r # n => coord'[r] = coord[r]
    BY <1>0 DEF Run
<1> HIDE DEF n
<1>4. \A r \in RunIds : r > db'.nRun => r # n /\ r > db.nRun
    BY <1>1, <1>2 DEF n
<1>5. \A r \in RunIds : r > db'.nRun => db'.run[r] = "none"
    BY <1>2, <1>4 DEF Coordinated
<1>6. \A r \in RunIds : db'.run[r] = "running" => r = n
    BY <1>1, <1>2
<1>7. \A r \in RunIds : coord'[r].pc \notin {"none", "done"} => db'.run[r] = "running"
    BY <1>1, <1>2, <1>3 DEF Coordinated
<1> QED BY <1>5, <1>6, <1>7 DEF Coordinated

\* A run ends with its loop.
LEMMA FinishCoordinated ==
    ASSUME TypeOK, Coordinated, NEW r \in RunIds, Finish(r), turn'.by # "tick"
    PROVE  Coordinated'
<1>0. db \in Database /\ coord \in [RunIds -> Coordinator]
    BY DEF TypeOK
<1>1. /\ db'.nRun = db.nRun
      /\ \A q \in RunIds : q # r => db'.run[q] = db.run[q]
      /\ db'.run[r] \in {"none", "completed", "failed"}
      /\ db.run[r] = "none" => db'.run[r] = "none"
    BY <1>0 DEF Finish, updateCoordinatorRun, Database
<1>2. \A q \in RunIds : q # r => coord'[q] = coord[q]
    BY <1>0 DEF Finish
<1>3. coord'[r].pc = "done"
    BY <1>0 DEF Finish, Coordinator
<1>4. \A q \in RunIds : q > db'.nRun => db'.run[q] = "none"
    BY <1>1 DEF Coordinated
<1>5. \A p, q \in RunIds : db'.run[p] = "running" /\ db'.run[q] = "running" => p = q
    BY <1>1 DEF Coordinated
<1>6. \A q \in RunIds : coord'[q].pc \notin {"none", "done"} => db'.run[q] = "running"
    BY <1>1, <1>2, <1>3 DEF Coordinated
<1> QED BY <1>4, <1>5, <1>6 DEF Coordinated

\* Any other step leaves the runs alone and starts no loop.
LEMMA OtherCoordinated ==
    ASSUME Unmeddled, TypeOK, Coordinated, Next, SameRuns(db, db'),
           \A q \in RunIds : coord'[q].pc \notin {"none", "done"} =>
              coord[q].pc \notin {"none", "done"}
    PROVE  Coordinated'
<1>1. turn'.by = "tick" => turn'.run \in RunIds /\ coord'[turn'.run].pc = "tick"
    BY NextTicking DEF Coordinated
<1> QED BY <1>1 DEF Coordinated, SameRuns

LEMMA NextCoordinated ==
    ASSUME Alone, BoardInv, Next
    PROVE  Coordinated'
<1>0. /\ TypeOK /\ CallsInProgress /\ Told /\ Coordinated
      /\ db \in Database /\ coord \in [RunIds -> Coordinator]
    BY DEF BoardInv, TypeOK
<1>1. Run \/ (\E r \in RunIds : Finish(r)) => turn'.by # "tick"
    BY DEF Run, Finish, Free
<1>2. CASE Run
    BY <1>0, <1>1, <1>2, RunCoordinated
<1>3. ASSUME NEW r \in RunIds, Finish(r) PROVE Coordinated'
    BY <1>0, <1>1, <1>3, FinishCoordinated
<1>4. ASSUME SameRuns(db, db'),
             \A q \in RunIds : coord'[q].pc \notin {"none", "done"} =>
                coord[q].pc \notin {"none", "done"}
      PROVE  Coordinated'
    BY <1>0, <1>4, OtherCoordinated DEF Alone
<1>5. ASSUME NEW r \in RunIds, Dispatched(r) PROVE Coordinated'
  <2>1. \A q \in RunIds : q # r => coord'[q] = coord[q]
      BY <1>0, <1>5 DEF Dispatched
  <2> QED BY <1>4, <1>5, <2>1 DEF Dispatched
<1>6. ASSUME NEW r \in RunIds, TickEnd(r), Modest PROVE Coordinated'
  <2>1. coord[r].pc = "tick" /\ \A q \in RunIds : q # r => coord'[q] = coord[q]
      BY <1>0, <1>6, TickEndCoord DEF Coordinated
  <2> QED BY <1>4, <1>6, <2>1 DEF Modest
<1>7. CASE Modest /\ ~Run /\ \A r \in RunIds : ~TickEnd(r)
  <2>1. \A q \in RunIds : Tame(coord[q], coord'[q])
      BY <1>7, MinorTame DEF Modest
  <2> QED BY <1>4, <1>7, <2>1 DEF Tame, Modest
<1> QED BY <1>2, <1>3, <1>5, <1>6, <1>7, Steps

LEMMA NextTold ==
    ASSUME Alone, BoardInv, Next
    PROVE  Told'
<1>0. /\ TypeOK /\ CallsInProgress /\ Told /\ Coordinated /\ Regular(db)
      /\ db \in Database /\ coord \in [RunIds -> Coordinator] /\ told \subseteq DispatchIds
    BY DEF BoardInv, TypeOK
<1>1. \/ told' = told
      \/ \E r \in RunIds : /\ Prompted(r) /\ told' = told \cup {coord[r].disp}
                           /\ coord'[r].pc = "assigning"
                           /\ \A q \in RunIds : q # r => coord'[q] = coord[q]
  <2>1. ASSUME NEW r \in RunIds, Prompted(r), told' # told
        PROVE  /\ told' = told \cup {coord[r].disp} /\ coord'[r].pc = "assigning"
               /\ \A q \in RunIds : q # r => coord'[q] = coord[q]
    <3>1. coord' = [coord EXCEPT ![r] = Return(coord[r])] /\ told' = told \cup {coord[r].disp}
        BY <2>1 DEF Prompted
    <3>2. coord[r] \in Coordinator
        BY <1>0
    <3>3. Return(coord[r]).pc = "assigning"
        BY <3>2 DEF Return, Coordinator
    <3> HIDE DEF Return
    <3> QED BY <1>0, <3>1, <3>3
  <2>2. ASSUME NEW r \in RunIds, CoordinatorStep(r), ~Prompted(r) PROVE told' = told
      BY <2>2 DEF CoordinatorStep, LoopTest, TickEnd, ListTerminals, CreateTerminal, AssignNext,
                  DispatchTask, CheckConvergence, Wake, Finish
  <2>3. ASSUME NEW m \in MessageIds, HandleMessage(m) PROVE told' = told
      BY <2>3 DEF HandleMessage
  <2>4. ASSUME NEW c \in Clients PROVE FALSE
      BY <2>4 DEF Alone, Unmeddled
  <2>5. CASE \/ \E deps \in DepChoices : TaskCreate(deps)
             \/ \E t \in TaskIds, s \in ManualStatuses : TaskUpdate(t, s)
             \/ \E t \in TaskIds : GateCreate(t)
             \/ \E g \in GateIds : GateResolve(g)
             \/ \E scope \in ResetScopes : Reset(scope)
             \/ AgentSend
             \/ \E types \in CheckFilters : CheckBegin(types)
             \/ CheckEnd \/ Run \/ RunStop \/ Crash
             \/ \E h \in Handles : TerminalExit(h)
      BY <2>5 DEF TaskCreate, TaskUpdate, GateCreate, GateResolve, Reset, AgentSend,
                  SendLifecycle, SendAboutTask, Send, CheckBegin, CheckEnd, TerminalExit,
                  Run, RunStop, Crash
  <2> QED BY <2>1, <2>2, <2>3, <2>4, <2>5 DEF Next
<1>2. told \subseteq told'
    BY <1>1
<1>3. db'.nDisp = db.nDisp \/ \E r \in RunIds : Dispatched(r) /\ db'.nDisp = db.nDisp + 1
    BY <1>0, Steps, RunsModest DEF Modest, Minor, Untouched, Posted, Struck, Done, Dispatched, Taken
<1>4. db.nDisp \in Nat /\ \A d \in DispatchIds : d \in Nat
    BY <1>0, Numbers
<1>5. \A d \in told' : d <= db'.nDisp
  <2>1. \A d \in told : d <= db.nDisp /\ d \in Nat
      BY <1>0, <1>4 DEF Told
  <2>2. ASSUME NEW r \in RunIds, Prompted(r), told' = told \cup {coord[r].disp}
        PROVE  \A d \in told' : d <= db.nDisp /\ d \in Nat
    <3>1. coord[r].disp = db.nDisp
        BY <1>0, <2>2 DEF Prompted, Told
    <3>2. db.nDisp <= db.nDisp
        BY <1>4
    <3> QED BY <1>4, <2>1, <2>2, <3>1, <3>2
  <2>3. \A d \in told' : d <= db.nDisp /\ d \in Nat
      BY <1>1, <2>1, <2>2
  <2>4. \A d \in Nat : d <= db.nDisp => d <= db.nDisp + 1
      BY <1>4
  <2> QED BY <1>3, <2>3, <2>4
<1>6. \A m \in MessageIds : db'.msg[m].disp \in {0} \cup told'
    BY <1>0, <1>2, Steps, RunsModest DEF Modest, Dispatched
<1>7. \A d \in DispatchIds : db'.disp[d].status = "completed" => d \in told'
  <2>1. ASSUME Minor(db, db', told), NEW d \in DispatchIds, db'.disp[d].status = "completed"
        PROVE  d \in told
    <3>1. CASE Untouched(db, db') \/ \E t \in TaskIds, ds \in SUBSET TaskIds : Posted(db, db', t, ds)
        BY <1>0, <2>1, <3>1 DEF Untouched, Posted, DispSame, Told
    <3>2. ASSUME NEW t \in TaskIds, NEW e \in DispatchIds, Struck(db, db', t, e)
          PROVE  d \in told
        BY <1>0, <2>1, <3>2 DEF Struck, DispSame, Told
    <3>3. ASSUME NEW t \in TaskIds, NEW e \in told, Done(db, db', t, e)
          PROVE  d \in told
        BY <1>0, <2>1, <3>3 DEF Done, DispSame, Told
    <3> QED BY <2>1, <3>1, <3>2, <3>3 DEF Minor
  <2>2. ASSUME NEW r \in RunIds, Dispatched(r), NEW d \in DispatchIds,
               db'.disp[d].status = "completed"
        PROVE  d \in told
      BY <1>0, <2>2 DEF Dispatched, Taken, DispSame, Told
  <2> QED BY <1>0, <1>2, <2>1, <2>2, Steps, RunsModest DEF Modest
<1>8. ASSUME NEW r \in RunIds, coord'[r].pc = "prompting"
      PROVE  coord'[r].disp = db'.nDisp /\ coord'[r].disp \notin told'
  <2>1. ASSUME NEW q \in RunIds, Dispatched(q) PROVE coord'[r].disp = db'.nDisp /\ coord'[r].disp \notin told'
    <3>1. coord[q].pc = "probing" /\ coord[q] \in Coordinator
        BY <1>0, <2>1 DEF Dispatched
    <3>2. r = q
      <4>1. r # q => coord'[r] = coord[r]
          BY <1>0, <2>1 DEF Dispatched
      <4>2. r # q => coord[r].pc = "prompting"
          BY <1>8, <4>1
      <4> QED BY <1>0, <3>1, <4>2 DEF Coordinated
    <3>3. coord'[r].disp = db.nDisp + 1 /\ db'.nDisp = db.nDisp + 1 /\ told' = told
        BY <1>0, <2>1, <3>1, <3>2 DEF Dispatched, Coordinator, Taken
    <3>4. db.nDisp + 1 \notin told
        BY <1>0, <1>4 DEF Told
    <3> QED BY <3>3, <3>4
  <2>2. CASE \A q \in RunIds : ~Dispatched(q)
    <3>1. coord[r].pc = "prompting" /\ coord'[r].disp = coord[r].disp
      <4>1. ASSUME NEW q \in RunIds, TickEnd(q) PROVE coord'[r] = coord[r]
        <5>1. r # q => coord'[r] = coord[r]
            BY <1>0, <2>2, <4>1, TickEndCoord
        <5>2. coord'[q].pc # "prompting"
            BY <1>0, <4>1, TickEndCoord
        <5> QED BY <1>8, <5>1, <5>2
      <4> QED BY <1>8, <2>2, <4>1, NextCoord DEF Tame
    <3>2. coord[r].disp = db.nDisp /\ coord[r].disp \notin told /\ db'.nDisp = db.nDisp
        BY <1>0, <1>3, <2>2, <3>1 DEF Told
    <3>3. told' = told
      <4>1. ASSUME NEW q \in RunIds, Prompted(q), coord'[q].pc = "assigning",
                   \A p \in RunIds : p # q => coord'[p] = coord[p]
            PROVE  FALSE
        <5>1. r # q
            BY <1>8, <4>1
        <5>2. coord[q].pc = "prompting"
            BY <4>1 DEF Prompted
        <5> QED BY <1>0, <3>1, <5>1, <5>2 DEF Coordinated
      <4> QED BY <1>1, <4>1
    <3> QED BY <3>1, <3>2, <3>3
  <2> QED BY <2>1, <2>2
<1> QED BY <1>5, <1>6, <1>7, <1>8 DEF Told

LEMMA NextBooked ==
    ASSUME Alone, BoardInv, Next
    PROVE  Booked'
<1>0. /\ TypeOK /\ CallsInProgress /\ Told /\ Coordinated /\ Booked
      /\ db \in Database /\ coord \in [RunIds -> Coordinator]
    BY DEF BoardInv, TypeOK
<1>1. Running(db) \in Nat /\ Running(db') \in Nat /\ MaxConcurrent \in Nat
    BY RunningNumber, EnvironmentAssumption
<1>2. Minor(db, db', told) => Running(db') <= Running(db) /\ Running(db') <= MaxConcurrent
  <2>1. Minor(db, db', told) => Running(db') <= Running(db)
      BY MinorRunning
  <2> QED BY <1>0, <1>1, <2>1 DEF Booked
<1>3. \A r \in RunIds : /\ coord[r].slots \in Int /\ Claim(coord[r]) \in Int
                        /\ coord'[r].slots \in Int /\ Claim(coord'[r]) \in Int
  <2>1. coord' \in [RunIds -> Coordinator]
      BY <1>0, NextKeepsTypes DEF TypeOK
  <2> QED BY <1>0, <2>1 DEF Coordinator, Claim
<1>4. ASSUME Minor(db, db', told), NEW r \in RunIds, coord'[r].pc \in Working,
             Tame(coord[r], coord'[r])
      PROVE  coord'[r].slots >= 0 /\ Running(db') + Claim(coord'[r]) <= MaxConcurrent
  <2>1. coord[r].slots >= 0 /\ Running(db) + Claim(coord[r]) <= MaxConcurrent
      BY <1>0, <1>4 DEF Booked, Tame
  <2>2. coord'[r].slots >= 0 /\ Claim(coord'[r]) <= Claim(coord[r])
      BY <1>4, <2>1 DEF Tame
  <2> QED BY <1>1, <1>2, <1>3, <1>4, <2>1, <2>2
<1>5. ASSUME NEW r \in RunIds, Dispatched(r) PROVE Booked'
  <2>1. coord[r].pc = "probing" /\ coord[r] \in Coordinator
      BY <1>0, <1>5 DEF Dispatched
  <2>2. /\ coord'[r].pc = "prompting" /\ coord'[r].slots = coord[r].slots
        /\ \A q \in RunIds : q # r => coord'[q] = coord[q]
      BY <1>0, <1>5, <2>1 DEF Dispatched, Coordinator
  <2>3. coord[r].slots >= 0 /\ Running(db) + (coord[r].slots + 1) <= MaxConcurrent
      BY <1>0, <2>1 DEF Booked, Working, Claim
  <2>4. Running(db') <= Running(db) + 1
      BY <1>5, TakenRunning DEF Dispatched
  <2>5. Running(db') <= MaxConcurrent /\ Running(db') + coord'[r].slots <= MaxConcurrent
      BY <1>1, <1>3, <2>2, <2>3, <2>4
  <2>6. \A q \in RunIds : q # r => coord'[q].pc \notin Working
    <3>1. \A q \in RunIds : q # r => coord[q].pc \in {"none", "done"}
        BY <1>0, <2>1 DEF Coordinated
    <3> QED BY <2>2, <3>1 DEF Working
  <2>7. Claim(coord'[r]) = coord'[r].slots
      BY <2>2 DEF Claim
  <2> QED BY <2>2, <2>3, <2>5, <2>6, <2>7 DEF Booked
<1>6. ASSUME NEW r \in RunIds, TickEnd(r), Modest PROVE Booked'
  <2>1. /\ \A q \in RunIds : q # r => coord'[q] = coord[q]
        /\ \/ coord'[r].pc = "converging"
           \/ /\ coord'[r].pc = "listing"
              /\ coord'[r].slots = MaxConcurrent - Running(db') /\ coord'[r].slots > 0
      BY <1>0, <1>6, TickEndCoord
  <2>2. \A q \in RunIds : q # r => Tame(coord[q], coord'[q])
      BY <1>0, <2>1, TameSame
  <2>3. coord'[r].pc \in Working =>
           coord'[r].slots >= 0 /\ Running(db') + Claim(coord'[r]) <= MaxConcurrent
    <3>1. coord'[r].pc = "listing" => Claim(coord'[r]) = coord'[r].slots
        BY DEF Claim
    <3> QED BY <1>1, <1>3, <2>1, <3>1 DEF Working
  <2> QED BY <1>2, <1>4, <1>6, <2>2, <2>3 DEF Modest, Booked
<1>7. CASE \A q \in RunIds : coord'[q].pc \in {"prompting"} \cup Working => Tame(coord[q], coord'[q])
  <2>1. Minor(db, db', told) \/ \E r \in RunIds : Dispatched(r)
      BY <1>0, Steps, RunsModest DEF Modest
  <2> QED BY <1>2, <1>4, <1>5, <1>7, <2>1 DEF Booked
<1> QED BY <1>5, <1>6, <1>7, NextCoord

LEMMA NextBoard == Alone /\ BoardInv /\ [Next]_vars => BoardInv'
<1>1. ASSUME Alone, BoardInv, Next PROVE BoardInv'
  <2>1. TypeOK' /\ CallsInProgress'
      BY <1>1, NextKeepsTypes DEF BoardInv
  <2> QED BY <1>1, <2>1, NextRegular, NextCoordinated, NextTold, NextBooked DEF BoardInv
<1>2. ASSUME BoardInv, UNCHANGED vars PROVE BoardInv'
  <2>1. TypeOK' /\ CallsInProgress'
      BY <1>2, StutterKeeps DEF BoardInv
  <2> QED BY <1>2, <2>1 DEF BoardInv, vars, Coordinated, Told, Booked
<1> QED BY <1>1, <1>2

-----------------------------------------------------------------------------
(* The theorems.                                                           *)

LEMMA BoardInvHolds == Alone => (Spec => []BoardInv)
<1> SUFFICES ASSUME Alone PROVE Spec => []BoardInv
    OBVIOUS
<1>1. BoardInv /\ [Next]_vars => BoardInv'
    BY NextBoard
<1> QED BY <1>1, InitBoard, PTL DEF Spec

\* An active dispatch is its task's newest, so two agents never work on one
\* task, however many prompts fail, agents exit or processes crash in between.
THEOREM OneAgentPerTask == Alone => (Spec => []OneActiveDispatchPerTask)
<1> SUFFICES ASSUME Alone PROVE Spec => []OneActiveDispatchPerTask
    OBVIOUS
<1>1. ASSUME BoardInv PROVE OneActiveDispatchPerTask
  <2>1. SUFFICES ASSUME NEW d \in ActiveDispatches(db), NEW e \in ActiveDispatches(db),
                        db.disp[d].task = db.disp[e].task
                 PROVE  d = e
      BY DEF OneActiveDispatchPerTask
  <2>2. /\ d \in DispatchIds /\ db.disp[d].status \in {"pending", "dispatched"}
        /\ e \in DispatchIds /\ db.disp[e].status \in {"pending", "dispatched"}
      BY DEF ActiveDispatches, ActiveStatuses
  <2>3. Newest(db, d) /\ Newest(db, e)
      BY <1>1, <2>2 DEF BoardInv, Regular, Matched
  <2>4. d <= e /\ e <= d
      BY <2>1, <2>2, <2>3 DEF Newest
  <2>5. d \in Nat /\ e \in Nat
      BY <1>1, <2>2, Numbers DEF BoardInv, TypeOK
  <2> QED BY <2>4, <2>5
<1> QED BY <1>1, BoardInvHolds, PTL

\* The DAG order: a task that is ready, dispatched or completed has only
\* completed dependencies, whatever fails and is retried.
THEOREM DagOrder == Alone => (Spec => []DependenciesFirst)
<1> SUFFICES ASSUME Alone PROVE Spec => []DependenciesFirst
    OBVIOUS
<1>1. BoardInv => DependenciesFirst
    BY DEF BoardInv, Regular, Ordered, DependenciesFirst
<1> QED BY <1>1, BoardInvHolds, PTL

\* A task whose circuit breaker has tripped stays failed and is not worked on:
\* late escalations, exits and prompts that fail do not give it back.
THEOREM BreakerHolds == Alone => (Spec => []BreakerIsFinal)
<1> SUFFICES ASSUME Alone PROVE Spec => []BreakerIsFinal
    OBVIOUS
<1>1. ASSUME BoardInv PROVE BreakerIsFinal
  <2>1. SUFFICES ASSUME NEW d \in DispatchIds, db.disp[d].status = "circuit_broken"
                 PROVE  /\ db.task[db.disp[d].task].status = "failed"
                        /\ DispatchesOf(db, db.disp[d].task) \cap ActiveDispatches(db) = {}
      BY DEF BreakerIsFinal
  <2>2. db.task[db.disp[d].task].status = "failed"
      BY <1>1, <2>1 DEF BoardInv, Regular, Matched, Outcome
  <2>3. ASSUME NEW e \in DispatchesOf(db, db.disp[d].task) \cap ActiveDispatches(db)
        PROVE  FALSE
    <3>1. /\ e \in DispatchIds /\ db.disp[e].status \in {"pending", "dispatched"}
          /\ db.disp[e].task = db.disp[d].task
        BY <2>3 DEF DispatchesOf, ActiveDispatches, ActiveStatuses
    <3> QED BY <1>1, <2>2, <3>1 DEF BoardInv, Regular, Matched, Outcome
  <2> QED BY <2>2, <2>3
<1> QED BY <1>1, BoardInvHolds, PTL

\* The slots that a tick counts before its awaits are still there after them:
\* never more than MaxConcurrent tasks are dispatched, although the terminals
\* are listed and created, the base is probed and the prompt is sent in between
\* and a stopped run's loop may still be in the middle of a tick.
THEOREM SlotsSuffice == Alone => (Spec => []ConcurrencyBound)
<1> SUFFICES ASSUME Alone PROVE Spec => []ConcurrencyBound
    OBVIOUS
<1>1. BoardInv => ConcurrencyBound
    BY DEF BoardInv, Booked, Running, ConcurrencyBound
<1> QED BY <1>1, BoardInvHolds, PTL

LEMMA CompletedStays ==
    ASSUME Alone, BoardInv, [Next]_vars, NEW t \in TaskIds, db.task[t].status = "completed"
    PROVE  db'.task[t].status = "completed"
<1>1. Regular(db) /\ db \in Database /\ TypeOK /\ Told /\ told \subseteq DispatchIds
    BY DEF BoardInv, TypeOK
<1>2. CASE UNCHANGED vars
    BY <1>2 DEF vars
<1>3. ASSUME Minor(db, db', told) PROVE db'.task[t].status = "completed"
  <2>1. CASE Untouched(db, db')
      BY <2>1 DEF Untouched, TaskSame
  <2>2. ASSUME NEW u \in TaskIds, NEW ds, Posted(db, db', u, ds)
        PROVE  db'.task[t].status = "completed"
    <3>1. ~(u <= db.nTask)
        BY <1>1, <2>2, Numbers DEF Posted
    <3>2. t <= db.nTask
        BY <1>1 DEF Regular, Rows
    <3> QED BY <2>2, <3>1, <3>2 DEF Posted, TaskSame
  <2>3. ASSUME NEW u \in TaskIds, NEW d \in DispatchIds, Struck(db, db', u, d)
        PROVE  db'.task[t].status = "completed"
    <3>1. db.task[u].status # "completed"
        BY <1>1, <2>3 DEF Struck, Regular, Matched, Outcome
    <3> QED BY <2>3, <3>1 DEF Struck, TaskSame
  <2>4. ASSUME NEW u \in TaskIds, NEW d \in DispatchIds, Done(db, db', u, d)
        PROVE  db'.task[t].status = "completed"
      BY <2>4 DEF Done, WaitsFor
  <2> QED BY <1>1, <1>3, <2>1, <2>2, <2>3, <2>4 DEF Minor
<1>4. ASSUME NEW r \in RunIds, Dispatched(r) PROVE db'.task[t].status = "completed"
    BY <1>4 DEF Dispatched, Taken, TaskSame
<1> QED BY <1>1, <1>2, <1>3, <1>4, Steps, RunsModest DEF Modest

\* Done is done: no late failure, escalation, exit or report re-opens a task.
THEOREM CompletedIsForGood == Alone => (Spec => CompletedIsFinal)
<1> SUFFICES ASSUME Alone PROVE Spec => CompletedIsFinal
    OBVIOUS
<1>1. BoardInv /\ [Next]_vars =>
         [\A t \in TaskIds : db.task[t].status = "completed" => db'.task[t].status = "completed"]_vars
    BY CompletedStays
<1>2. Spec => [][Next]_vars
    BY DEF Spec
<1> QED BY <1>1, <1>2, BoardInvHolds, PTL DEF CompletedIsFinal

\* The board sees the refinement mapping's tables.
LEMMA BoardVariables ==
    /\ StageOfTasks = Stages(db) /\ DepsOfTasks = Waits(db)
    /\ HoldersOfTasks = Holders(db) /\ FailuresOfTasks = Strikes(db)
BY DEF Stages, Waits, Holders, Strikes, HoldersOf, HoldersIn, FailuresOf, FailuresIn,
       StageOfTasks, DepsOfTasks, HoldersOfTasks, FailuresOfTasks

LEMMA BoardInit == Init => Board!Init
<1> SUFFICES ASSUME Init PROVE Board!Init
    OBVIOUS
<1>1. /\ \A t \in TaskIds : db.task[t].status = "none" /\ db.task[t].deps = {}
      /\ \A d \in DispatchIds : db.disp[d].status = "none"
    BY DEF Init, EmptyDb
<1>2. \A t : DispatchesOf(db, t) = {}
    BY <1>1 DEF DispatchesOf
<1>3. Stages(db) = [t \in TaskIds |-> "none"] /\ Waits(db) = [t \in TaskIds |-> {}]
    BY <1>1, StageNames DEF Stages, Waits
<1>4. Holders(db) = [t \in TaskIds |-> {}]
    BY <1>2 DEF Holders, HoldersIn
<1>5. Strikes(db) = [t \in TaskIds |-> 0]
  <2>1. \A t : IsPriorFailures(db, t, 0)
      BY <1>2 DEF IsPriorFailures
  <2>2. \A d \in DispatchIds : db.disp[d].failures \in Nat
      BY InitBoard DEF BoardInv, TypeOK, Database, DispatchRow
  <2>3. \A t : FailuresIn(db, t) = 0
      BY <2>1, <2>2, PriorIsCounted
  <2> QED BY <2>3 DEF Strikes
<1> QED BY <1>3, <1>4, <1>5, BoardVariables DEF Board!Init

LEMMA BoardStep ==
    ASSUME Alone, BoardInv, BoardInv', [Next]_vars
    PROVE  [Board!Next]_(Board!board)
<1>1. Regular(db) /\ db \in Database /\ db' \in Database /\ TypeOK /\ Told /\ told \subseteq DispatchIds
    BY DEF BoardInv, TypeOK
<1>2. /\ StageOfTasks' = Stages(db') /\ DepsOfTasks' = Waits(db')
      /\ HoldersOfTasks' = Holders(db') /\ FailuresOfTasks' = Strikes(db')
    BY DEF Stages, Waits, Holders, Strikes, HoldersOf, HoldersIn, FailuresOf, FailuresIn,
           StageOfTasks, DepsOfTasks, HoldersOfTasks, FailuresOfTasks
<1>3. ASSUME Stages(db') = Stages(db), Waits(db') = Waits(db),
             Holders(db') = Holders(db), Strikes(db') = Strikes(db)
      PROVE  UNCHANGED Board!board
    BY <1>2, <1>3, BoardVariables DEF Board!board
<1>4. ASSUME NEW t \in TaskIds, NEW ds \in SUBSET TaskIds, Posted(db, db', t, ds)
      PROVE  Board!Post(t)
    BY <1>1, <1>2, <1>4, PostedBoard, BoardVariables DEF Board!Post
<1>5. ASSUME NEW t, NEW h \in Handles, Taken(db, db', t, db.nDisp + 1, h)
      PROVE  t \in TaskIds /\ Board!Take(t)
  <2>1. t \in TaskIds
      BY <1>5 DEF Taken
  <2>2. /\ Stages(db)[t] = "open" /\ Stages(db') = [Stages(db) EXCEPT ![t] = "taken"]
        /\ \A u \in TaskIds : h \notin Holders(db)[u]
        /\ Holders(db') = [Holders(db) EXCEPT ![t] = {h}]
        /\ Waits(db') = Waits(db) /\ Strikes(db') = Strikes(db)
      BY <1>1, <1>5, TakenBoard
  <2> QED BY <1>2, <1>5, <2>1, <2>2, BoardVariables DEF Board!Take
<1>6. ASSUME NEW t \in TaskIds, NEW d \in DispatchIds, Struck(db, db', t, d)
      PROVE  Board!Strike(t) \/ UNCHANGED Board!board
    BY <1>1, <1>2, <1>3, <1>6, StruckBoard, BoardVariables DEF Board!Strike
<1>7. ASSUME NEW t \in TaskIds, NEW d \in DispatchIds, Done(db, db', t, d)
      PROVE  Board!Finish(t)
    BY <1>1, <1>2, <1>7, DoneBoard, BoardVariables DEF Board!Finish
<1>8. CASE UNCHANGED vars
  <2>1. db' = db
      BY <1>8 DEF vars
  <2> QED BY <1>3, <2>1
<1>9. Untouched(db, db') => UNCHANGED Board!board
    BY <1>3, UntouchedBoard
<1>10. \A r \in RunIds : coord[r].handle \in Handles
    BY <1>1 DEF TypeOK, Coordinator
<1>11. Minor(db, db', told) => Board!Next \/ UNCHANGED Board!board
    BY <1>1, <1>4, <1>6, <1>7, <1>9 DEF Minor, Board!Next
<1>12. \A r \in RunIds : Dispatched(r) => Board!Next
    BY <1>5, <1>10 DEF Dispatched, Board!Next
<1> QED BY <1>1, <1>8, <1>11, <1>12, Steps, RunsModest DEF Modest

\* The refinement: seen through the mapping, whatever the database, the
\* coordinators' loops, the agents' mail and their exits do is a step of the
\* board (a task put up, taken, finished, or struck) or leaves it alone.
THEOREM BoardIsImplemented == Alone => (Spec => ImplementsBoard)
<1> SUFFICES ASSUME Alone PROVE Spec => ImplementsBoard
    OBVIOUS
<1>1. BoardInv /\ BoardInv' /\ [Next]_vars => [Board!Next]_(Board!board)
    BY BoardStep
<1>2. Spec => Init /\ [][Next]_vars
    BY DEF Spec
<1> QED BY <1>1, <1>2, BoardInit, BoardInvHolds, PTL DEF ImplementsBoard, Board!Spec
-----------------------------------------------------------------------------
(* Decision gates.                                                         *)

\* No task has been asked for more than one gate.
OneGateIn(D) ==
    \A g, h \in GateIds :
        /\ D.gate[g].status # "none" /\ D.gate[h].status # "none"
        /\ D.gate[g].task = D.gate[h].task
        => g = h
OneGateEach == OneGateIn(db)

\* A gate of task t has been resolved: since then its decision is open no more.
Settled(D, t) ==
    \E g \in GateIds : D.gate[g].status \notin {"none", "pending"} /\ D.gate[g].task = t

\* An agent at work on t has the newest dispatch, and t is shown as dispatched.
Lone(D, t) ==
    \A d \in DispatchIds : D.disp[d].status \in ActiveStatuses /\ D.disp[d].task = t =>
        D.task[t].status = "dispatched" /\ Newest(D, d)

\* A gate takes its task off the board; only a failure puts it back before the
\* next tick blocks it again.
Held(D, t) == HasPendingGate(D, t) => D.task[t].status \in {"blocked", "ready", "failed"}

\* Both hold of a task until its gate is resolved.
Sheltered(D, t) == ~Settled(D, t) => Lone(D, t) /\ Held(D, t)

GateRows(D) ==
    \A g \in GateIds : D.gate[g].status # "none" =>
        g <= D.nGate /\ D.gate[g].task \in TaskIds /\ D.gate[g].task <= D.nTask
MailRows(D) == \A m \in MessageIds : D.msg[m].task # 0 => D.msg[m].task <= D.nTask

Gated(D) == Rows(D) /\ GateRows(D) /\ MailRows(D) /\ \A t \in TaskIds : Sheltered(D, t)

\* The state in which a dispatch of t would pass its gate.
Open(D, t) == HasPendingGate(D, t) /\ D.task[t].status = "ready"

\* Only tasks of T come into that state.
WakesOnly(D, E, T) == \A t \in TaskIds \ T : Open(E, t) => Open(D, t)

LEMMA PendingIsNotSettled ==
    ASSUME NEW D, OneGateIn(D), NEW t, HasPendingGate(D, t)
    PROVE  ~Settled(D, t)
BY DEF OneGateIn, HasPendingGate, Settled

LEMMA SameGatesSame ==
    ASSUME NEW D, NEW E, SameGates(D, E)
    PROVE  \A t : /\ Settled(E, t) <=> Settled(D, t)
                  /\ HasPendingGate(E, t) <=> HasPendingGate(D, t)
BY DEF SameGates, Settled, HasPendingGate

\* The task stays what it is, and no dispatch of it is new or active again.
Still(D, E, t) ==
    /\ E.task[t].status = D.task[t].status
    /\ \A d \in DispatchIds : E.disp[d].status # "none" /\ E.disp[d].task = t =>
          /\ D.disp[d].status # "none" /\ D.disp[d].task = t
          /\ E.disp[d].status \in ActiveStatuses => D.disp[d].status \in ActiveStatuses

LEMMA StillSheltered ==
    ASSUME NEW D, NEW E, NEW t, Sheltered(D, t), Still(D, E, t),
           Settled(E, t) <=> Settled(D, t), HasPendingGate(E, t) <=> HasPendingGate(D, t)
    PROVE  Sheltered(E, t) /\ (Open(E, t) => Open(D, t))
<1>1. Lone(D, t) => Lone(E, t)
    BY DEF Lone, Newest, Still, ActiveStatuses
<1>2. Held(D, t) => Held(E, t)
    BY DEF Held, Still
<1>3. Open(E, t) => Open(D, t)
    BY DEF Open, Still
<1> QED BY <1>1, <1>2, <1>3 DEF Sheltered

\* An active dispatch of a task that was never gated is the newest of it.
LEMMA ActiveIsNewest ==
    ASSUME NEW D, NEW t, Lone(D, t), NEW d \in DispatchIds, NEW e \in DispatchIds,
           D.disp[d].task = t, D.disp[d].status \in ActiveStatuses,
           D.disp[e].task = t, D.disp[e].status # "none",
           D.disp[e].status \in ActiveStatuses \/ Newest(D, e)
    PROVE  d = e
<1>1. Newest(D, d) /\ D.disp[d].status # "none"
    BY DEF Lone, ActiveStatuses
<1>2. Newest(D, e)
    BY DEF Lone
<1>3. d <= e /\ e <= d
    BY <1>1, <1>2 DEF Newest
<1>4. d \in Int /\ e \in Int
    BY DEF DispatchIds
<1> QED BY <1>3, <1>4

-----------------------------------------------------------------------------
(* The writes keep it.                                                     *)

LEMMA UntouchedGated ==
    ASSUME NEW D, NEW E, Untouched(D, E), SameGates(D, E), MailRows(E), Gated(D)
    PROVE  Gated(E) /\ WakesOnly(D, E, {})
<1>1. ASSUME NEW t \in TaskIds PROVE Sheltered(E, t) /\ (Open(E, t) => Open(D, t))
  <2>1. Still(D, E, t)
      BY DEF Still, Untouched, TaskSame, DispSame
  <2> QED BY <2>1, StillSheltered, SameGatesSame DEF Gated
<1>2. Rows(E) /\ GateRows(E)
    BY UntouchedRows DEF Gated, GateRows, SameGates, Untouched
<1> QED BY <1>1, <1>2 DEF Gated, WakesOnly

\* A new task has no gate.
LEMMA PostedGated ==
    ASSUME NEW D \in Database, NEW E, NEW t, NEW ds, Posted(D, E, t, ds), SameGates(D, E),
           SameMail(D, E), Gated(D)
    PROVE  Gated(E) /\ WakesOnly(D, E, {})
<1>0. /\ D.nTask \in Nat /\ t = D.nTask + 1 /\ E.nTask = t /\ t \in TaskIds
      /\ \A u \in TaskIds : u \in Nat
    BY Numbers DEF Posted
<1>1. ~HasPendingGate(D, t) /\ ~Settled(D, t)
  <2>1. \A g \in GateIds : D.gate[g].status # "none" => D.gate[g].task # t
      BY <1>0 DEF Gated, GateRows
  <2> QED BY <2>1 DEF HasPendingGate, Settled
<1>2. Sheltered(E, t) /\ ~Open(E, t)
  <2>1. D.task[t].status = "none"
      BY <1>0 DEF Gated, Rows
  <2>2. Lone(E, t)
      BY <1>0, <1>1, <2>1 DEF Gated, Sheltered, Lone, Posted, DispSame
  <2> QED BY <1>1, <2>2, SameGatesSame DEF Sheltered, Held, Open
<1>3. ASSUME NEW u \in TaskIds, u # t PROVE Sheltered(E, u) /\ (Open(E, u) => Open(D, u))
  <2>1. Still(D, E, u)
      BY <1>3 DEF Still, Posted, TaskSame, DispSame
  <2> QED BY <2>1, StillSheltered, SameGatesSame DEF Gated
<1>4. \A u \in Nat : u <= D.nTask => u <= E.nTask
    BY <1>0
<1>5. Rows(E) /\ GateRows(E)
    BY <1>0, <1>4, PostedRows DEF Gated, GateRows, SameGates
<1>6. MailRows(E)
  <2>1. \A m \in MessageIds : D.msg[m].task \in {0} \cup TaskIds
      BY DEF Database, MessageRow
  <2> QED BY <1>0, <1>4, <2>1 DEF Gated, MailRows, SameMail
<1> QED BY <1>2, <1>3, <1>5, <1>6 DEF Gated, WakesOnly

\* A dispatch that passes no gate.
LEMMA TakenGated ==
    ASSUME NEW D \in Database, NEW E, NEW t, NEW k, NEW h, Taken(D, E, t, k, h), SameGates(D, E),
           SameMail(D, E), Gated(D), ~Open(D, t)
    PROVE  Gated(E) /\ WakesOnly(D, E, {})
<1>1. t \in TaskIds /\ k \in DispatchIds /\ E.task[t].status = "dispatched"
    BY DEF Taken
<1>2. ~HasPendingGate(E, t)
    BY SameGatesSame DEF Open, Taken
<1>3. Rows(E) /\ GateRows(E) /\ MailRows(E)
    BY TakenRows DEF Gated, GateRows, SameGates, MailRows, SameMail, Taken
<1>4. Newest(E, k)
  <2>1. \A d \in DispatchIds : E.disp[d].status # "none" => d <= k
      BY <1>3 DEF Rows, Taken
  <2> QED BY <2>1 DEF Newest
<1>5. Sheltered(E, t) /\ ~Open(E, t)
  <2>1. ASSUME ~Settled(D, t) PROVE Lone(E, t)
    <3>1. \A d \in DispatchIds : d # k => ~(D.disp[d].status \in ActiveStatuses /\ D.disp[d].task = t)
        BY <1>1, <2>1 DEF Gated, Sheltered, Lone, Taken
    <3> QED BY <1>1, <1>4, <3>1 DEF Lone, Taken, DispSame
  <2> QED BY <1>2, <2>1, SameGatesSame DEF Sheltered, Held, Open
<1>6. ASSUME NEW u \in TaskIds, u # t PROVE Sheltered(E, u) /\ (Open(E, u) => Open(D, u))
  <2>1. Still(D, E, u)
      BY <1>6 DEF Still, Taken, TaskSame, DispSame
  <2> QED BY <2>1, StillSheltered, SameGatesSame DEF Gated
<1> QED BY <1>3, <1>5, <1>6 DEF Gated, WakesOnly

\* A report completes a task that has no gate, and promotes others that have none.
LEMMA DoneGated ==
    ASSUME NEW D \in Database, NEW E, NEW t, NEW d, Done(D, E, t, d), SameGates(D, E), MailRows(E),
           Gated(D), OneGateIn(D)
    PROVE  Gated(E) /\ WakesOnly(D, E, {})
<1>1. /\ t \in TaskIds /\ d \in DispatchIds /\ D.disp[d].task = t /\ D.disp[d].status = "dispatched"
      /\ Newest(D, d) /\ E.task[t].status = "completed" /\ D.task[t].status = "dispatched"
      /\ E.disp[d].status = "completed" /\ E.disp[d].task = t
      /\ \A e \in DispatchIds : e # d => DispSame(D, E, e)
    BY DEF Done
<1>2. Rows(E) /\ GateRows(E)
    BY DoneRows DEF Gated, GateRows, SameGates, Done
<1>3. Sheltered(E, t) /\ ~Open(E, t)
  <2>1. ASSUME ~Settled(D, t) PROVE Lone(E, t) /\ ~HasPendingGate(D, t)
    <3>1. Lone(D, t) /\ Held(D, t)
        BY <1>1, <2>1 DEF Gated, Sheltered
    <3>2. \A e \in DispatchIds : D.disp[e].status \in ActiveStatuses /\ D.disp[e].task = t => e = d
        BY <1>1, <3>1, ActiveIsNewest
    <3>3. Lone(E, t)
        BY <1>1, <3>2 DEF Lone, DispSame, ActiveStatuses
    <3> QED BY <1>1, <3>1, <3>3 DEF Held
  <2> QED BY <1>1, <2>1, SameGatesSame DEF Sheltered, Held, Open
<1>4. ASSUME NEW u \in TaskIds, u # t, WaitsFor(D, u, t)
      PROVE  Sheltered(E, u) /\ ~Open(E, u)
  <2>1. ~HasPendingGate(D, u)
    <3>1. D.task[u].status = "pending"
        BY <1>4 DEF WaitsFor
    <3> QED BY <3>1, PendingIsNotSettled DEF Gated, Sheltered, Held
  <2>2. ASSUME ~Settled(D, u) PROVE Lone(E, u)
      BY <1>1, <1>4, <2>2 DEF Gated, Sheltered, Lone, WaitsFor, DispSame
  <2> QED BY <2>1, <2>2, SameGatesSame DEF Sheltered, Held, Open
<1>5. ASSUME NEW u \in TaskIds, u # t, ~WaitsFor(D, u, t)
      PROVE  Sheltered(E, u) /\ (Open(E, u) => Open(D, u))
  <2>1. Still(D, E, u)
      BY <1>1, <1>5 DEF Still, Done, DispSame
  <2> QED BY <2>1, StillSheltered, SameGatesSame DEF Gated
<1> QED BY <1>2, <1>3, <1>4, <1>5 DEF Gated, WakesOnly

\* The failure of a task's newest dispatch, or of one that is still running.
\* Only the newest of a gated task can be failed, and that one is over.
LEMMA FailGated ==
    ASSUME NEW D \in Database, NEW d \in DispatchIds, D.disp[d].status # "none", Gated(D),
           OneGateIn(D), Newest(D, d) \/ D.disp[d].status \in ActiveStatuses
    PROVE  LET E == failDispatch(D, d)
           IN  /\ Gated(E) /\ WakesOnly(D, E, {D.disp[d].task})
               /\ D.disp[d].status \in ActiveStatuses => WakesOnly(D, E, {})
<1> DEFINE E == failDispatch(D, d)
           t == D.disp[d].task
           trips == D.disp[d].failures + 1 >= 3
<1>1. t \in TaskIds /\ t <= D.nTask
    BY DEF Gated, Rows
<1>2. /\ SameRest(D, E) /\ E.disp[d].task = t
      /\ E.disp[d].status = IF trips THEN "circuit_broken" ELSE "failed"
      /\ \A e \in DispatchIds : e # d => E.disp[e] = D.disp[e]
      /\ \A u \in TaskIds : u # t => E.task[u] = D.task[u]
      /\ E.task[t].status = IF D.task[t].status = "none" THEN "none"
                            ELSE IF trips THEN "failed" ELSE "ready"
    BY <1>1, FailRows
<1> HIDE DEF E, t, trips
<1>3. D.task[t].status # "none"
    BY <1>1 DEF Gated, Rows
<1>4. E.task[t].status \in {"ready", "failed"} /\ E.disp[d].status \notin ActiveStatuses \cup {"none"}
    BY <1>2, <1>3 DEF ActiveStatuses
<1>5. SameGates(D, E)
    BY <1>2 DEF SameRest
<1>6. Rows(E) /\ GateRows(E) /\ MailRows(E)
  <2>1. \A u \in TaskIds : E.task[u].status # "none" <=> D.task[u].status # "none"
      BY <1>2, <1>3, <1>4
  <2>2. \A e \in DispatchIds : /\ E.disp[e].status # "none" <=> D.disp[e].status # "none"
                               /\ E.disp[e].task = D.disp[e].task
      BY <1>2, <1>4 DEF t
  <2> QED BY <1>2, <2>1, <2>2
          DEF Gated, Rows, GateRows, MailRows, SameRest, SameGates, SameMail, SameIds
<1>7. ASSUME ~Settled(D, t)
      PROVE  /\ Lone(E, t)
             /\ D.disp[d].status \in ActiveStatuses => ~HasPendingGate(D, t)
  <2>1. Lone(D, t) /\ Held(D, t)
      BY <1>1, <1>7 DEF Gated, Sheltered
  <2>2. \A e \in DispatchIds : D.disp[e].status \in ActiveStatuses /\ D.disp[e].task = t => e = d
      BY <2>1, ActiveIsNewest DEF t
  <2>3. Lone(E, t)
      BY <1>2, <1>4, <2>2 DEF Lone
  <2> QED BY <2>1, <2>3 DEF Held, Lone, t
<1>8. Sheltered(E, t) /\ (D.disp[d].status \in ActiveStatuses => ~Open(E, t))
    BY <1>4, <1>5, <1>7, SameGatesSame, PendingIsNotSettled DEF Sheltered, Held, Open
<1>9. ASSUME NEW u \in TaskIds, u # t PROVE Sheltered(E, u) /\ (Open(E, u) => Open(D, u))
  <2>1. Still(D, E, u)
      BY <1>2, <1>9 DEF Still
  <2> QED BY <1>5, <2>1, StillSheltered, SameGatesSame DEF Gated
<1> QED BY <1>6, <1>8, <1>9 DEF Gated, WakesOnly, E, t

\* The task's first gate: whoever works on it is done, and it is blocked.
LEMMA CreateGateGated ==
    ASSUME NEW D \in Database, D.nGate < MaxGates, NEW t \in TaskIds, t <= D.nTask, Gated(D),
           OneGateIn(createGate(D, t))
    PROVE  LET E == createGate(D, t)
           IN  /\ Gated(E) /\ WakesOnly(D, E, {}) /\ SameRuns(D, E) /\ SameIds(D, E)
               /\ \A d \in DispatchIds : E.disp[d].task = D.disp[d].task
<1> DEFINE n == D.nGate + 1
           G == [D EXCEPT !.gate[n] = [status |-> "pending", task |-> t], !.nGate = @ + 1]
           C == completeActiveDispatchForTask(G, t)
           E == SetTaskStatus(C, t, "blocked")
<1>1. E = createGate(D, t)
    BY DEF createGate
<1>2. G \in Database
    BY CreateGateRowType
<1>3. /\ n \in GateIds /\ D.nGate \in Nat /\ \A g \in GateIds : g \in Nat
    BY BoundsAssumption DEF Database, GateIds
<1>4. /\ G.task = D.task /\ G.disp = D.disp /\ SameMail(D, G) /\ SameRuns(D, G) /\ SameIds(D, G)
      /\ G.nGate = n
      /\ G.gate[n].status = "pending" /\ G.gate[n].task = t
      /\ \A g \in GateIds : g # n => G.gate[g] = D.gate[g]
    BY <1>3 DEF Database, SameMail, SameRuns, SameIds
<1> HIDE DEF G
<1>5. /\ C \in Database /\ SameRest(G, C) /\ C.task = D.task
      /\ \A d \in DispatchIds :
            /\ C.disp[d].task = D.disp[d].task
            /\ C.disp[d].status = IF IsLatestActiveDispatch(G, t, d)
                                  THEN "completed" ELSE D.disp[d].status
    BY <1>2, <1>4, CompleteActiveWrites, CompleteActiveRows DEF Writes
<1>6. \A d : IsLatestActiveDispatch(G, t, d) <=> IsLatestActiveDispatch(D, t, d)
    BY <1>4 DEF IsLatestActiveDispatch, DispatchesOf, ActiveDispatches
<1> HIDE DEF C
<1>7. D.task[t].status # "none"
    BY DEF Gated, Rows
<1>8. /\ SameRest(C, E) /\ E.disp = C.disp
      /\ \A u \in TaskIds : E.task[u].status = IF u = t THEN "blocked" ELSE D.task[u].status
    BY <1>5, <1>7, SetTaskStatusRows DEF TaskExists
<1> HIDE DEF E
<1>9. /\ SameMail(D, E) /\ SameRuns(D, E) /\ SameIds(D, E) /\ E.gate = G.gate /\ E.nGate = n
      /\ \A d \in DispatchIds :
            /\ E.disp[d].task = D.disp[d].task
            /\ E.disp[d].status = IF IsLatestActiveDispatch(D, t, d)
                                  THEN "completed" ELSE D.disp[d].status
    BY <1>4, <1>5, <1>6, <1>8 DEF SameRest, SameMail, SameGates, SameRuns, SameIds
<1>10. D.gate[n].status = "none"
    BY <1>3 DEF Gated, GateRows
<1>11. \A g \in GateIds : D.gate[g].status # "none" => D.gate[g].task # t
  <2>1. \A g \in GateIds : E.gate[g].status # "none" /\ E.gate[g].task = t => g = n
      BY <1>1, <1>3, <1>4, <1>9 DEF OneGateIn
  <2> QED BY <1>4, <1>9, <1>10, <2>1
<1>12. \A d \in DispatchIds : IsLatestActiveDispatch(D, t, d) =>
          D.disp[d].task = t /\ D.disp[d].status \in ActiveStatuses
    BY DEF IsLatestActiveDispatch, DispatchesOf, ActiveDispatches
<1>13. Rows(E) /\ GateRows(E) /\ MailRows(E)
  <2>1. \A d \in DispatchIds : E.disp[d].status # "none" <=> D.disp[d].status # "none"
      BY <1>9, <1>12 DEF ActiveStatuses
  <2>2. Rows(E)
      BY <1>7, <1>8, <1>9, <2>1 DEF Gated, Rows, SameIds
  <2>3. \A g \in Nat : g <= D.nGate => g <= n
      BY <1>3
  <2>4. n <= n
      BY <1>3
  <2>5. GateRows(E)
      BY <1>3, <1>4, <1>9, <2>3, <2>4 DEF Gated, GateRows, SameIds
  <2> QED BY <1>9, <2>2, <2>5 DEF Gated, MailRows, SameMail, SameIds
<1>14. Sheltered(E, t) /\ ~Open(E, t)
  <2>1. Lone(D, t)
      BY <1>11 DEF Gated, Sheltered, Settled
  <2>2. ASSUME NEW d \in DispatchIds, D.disp[d].status \in ActiveStatuses, D.disp[d].task = t
        PROVE  IsLatestActiveDispatch(D, t, d)
      BY <2>1, <2>2 DEF Lone, Newest, IsLatestActiveDispatch, DispatchesOf, ActiveDispatches,
                        ActiveStatuses
  <2>3. \A d \in DispatchIds : ~(E.disp[d].status \in ActiveStatuses /\ E.disp[d].task = t)
      BY <1>9, <2>2 DEF ActiveStatuses
  <2> QED BY <1>8, <2>3 DEF Sheltered, Lone, Held, Open
<1>15. ASSUME NEW u \in TaskIds, u # t PROVE Sheltered(E, u) /\ (Open(E, u) => Open(D, u))
  <2>1. Still(D, E, u)
      BY <1>8, <1>9, <1>12, <1>15 DEF Still
  <2>2. /\ Settled(E, u) <=> Settled(D, u)
        /\ HasPendingGate(E, u) <=> HasPendingGate(D, u)
      BY <1>4, <1>9, <1>10, <1>15 DEF Settled, HasPendingGate
  <2> QED BY <2>1, <2>2, StillSheltered DEF Gated
<1>16. Gated(E) /\ WakesOnly(D, E, {})
    BY <1>13, <1>14, <1>15 DEF Gated, WakesOnly
<1> QED BY <1>1, <1>9, <1>16

\* A resolved gate offers its task again, and nothing else holds it.
LEMMA ResolveGateGated ==
    ASSUME NEW D \in Database, NEW g \in GateIds, D.gate[g].status # "none", Gated(D),
           OneGateIn(resolveGate(D, g))
    PROVE  LET E == resolveGate(D, g)
           IN  /\ Gated(E) /\ WakesOnly(D, E, {}) /\ SameRuns(D, E) /\ SameIds(D, E)
               /\ E.disp = D.disp
<1> DEFINE t == D.gate[g].task
           G == [D EXCEPT !.gate[g].status = "resolved"]
           E == SetTaskStatus(G, t, "ready")
<1>1. E = resolveGate(D, g)
    BY DEF resolveGate
<1>2. D.gate \in [GateIds -> GateRow] /\ t \in TaskIds /\ t <= D.nTask
    BY DEF Database, Gated, GateRows
<1>3. G \in Database
  <2>1. [D.gate[g] EXCEPT !.status = "resolved"] \in GateRow
      BY <1>2 DEF GateRow, GateStatuses
  <2>2. [D.gate EXCEPT ![g] = [D.gate[g] EXCEPT !.status = "resolved"]] \in [GateIds -> GateRow]
      BY <1>2, <2>1
  <2> QED BY <2>2, SetGates DEF Writes
<1>4. /\ G.task = D.task /\ G.disp = D.disp /\ SameMail(D, G) /\ SameRuns(D, G) /\ SameIds(D, G)
      /\ G.nGate = D.nGate
      /\ G.gate[g].status = "resolved" /\ G.gate[g].task = t
      /\ \A h \in GateIds : h # g => G.gate[h] = D.gate[h]
    BY <1>2 DEF Database, GateRow, SameMail, SameRuns, SameIds
<1> HIDE DEF G, t
<1>5. D.task[t].status # "none"
    BY <1>2 DEF Gated, Rows
<1>6. /\ SameRest(G, E) /\ E.disp = D.disp
      /\ \A u \in TaskIds : E.task[u].status = IF u = t THEN "ready" ELSE D.task[u].status
    BY <1>2, <1>3, <1>4, <1>5, SetTaskStatusRows DEF TaskExists
<1> HIDE DEF E
<1>7. SameMail(D, E) /\ SameRuns(D, E) /\ SameIds(D, E) /\ E.gate = G.gate /\ E.nGate = D.nGate
    BY <1>4, <1>6 DEF SameRest, SameMail, SameGates, SameRuns, SameIds
<1>8. Rows(E)
    BY <1>5, <1>6, <1>7 DEF Gated, Rows, SameIds
<1>9. GateRows(E) /\ MailRows(E)
    BY <1>4, <1>7 DEF Gated, GateRows, MailRows, SameMail, SameIds, t
<1>10. Settled(E, t)
    BY <1>4, <1>7 DEF Settled
<1>11. ~HasPendingGate(E, t)
    BY <1>1, <1>10, PendingIsNotSettled
<1>12. Sheltered(E, t) /\ ~Open(E, t)
    BY <1>10, <1>11 DEF Sheltered, Open
<1>13. ASSUME NEW u \in TaskIds, u # t PROVE Sheltered(E, u) /\ (Open(E, u) => Open(D, u))
  <2>1. Still(D, E, u)
      BY <1>6, <1>13 DEF Still
  <2>2. /\ Settled(E, u) <=> Settled(D, u)
        /\ HasPendingGate(E, u) <=> HasPendingGate(D, u)
      BY <1>4, <1>7, <1>13 DEF Settled, HasPendingGate, t
  <2> QED BY <2>1, <2>2, StillSheltered DEF Gated
<1>14. Gated(E) /\ WakesOnly(D, E, {})
    BY <1>8, <1>9, <1>12, <1>13 DEF Gated, WakesOnly
<1> QED BY <1>1, <1>6, <1>7, <1>14

\* A tick takes every gated task off the board before it looks for ready ones.
LEMMA RestoreGated ==
    ASSUME NEW D \in Database, Gated(D), OneGateIn(D)
    PROVE  LET E == restorePendingGateTaskStatuses(D)
           IN  Gated(E) /\ \A t \in TaskIds : ~Open(E, t)
<1> DEFINE E == restorePendingGateTaskStatuses(D)
<1>1. /\ SameRest(D, E) /\ E.disp = D.disp
      /\ \A t \in TaskIds : E.task[t].status = IF TaskExists(D, t) /\ HasPendingGate(D, t)
                                               THEN "blocked" ELSE D.task[t].status
    BY RestoreRows
<1> HIDE DEF E
<1>2. SameGates(D, E)
    BY <1>1 DEF SameRest
<1>3. \A t \in TaskIds : HasPendingGate(D, t) => TaskExists(D, t)
    BY DEF Gated, GateRows, Rows, HasPendingGate, TaskExists
<1>4. Rows(E) /\ GateRows(E) /\ MailRows(E)
    BY <1>1 DEF Gated, Rows, GateRows, MailRows, SameRest, SameGates, SameMail, SameIds, TaskExists
<1>5. ASSUME NEW t \in TaskIds PROVE Sheltered(E, t) /\ ~Open(E, t)
  <2>1. CASE HasPendingGate(D, t)
    <3>1. Lone(D, t) /\ Held(D, t)
        BY <2>1, PendingIsNotSettled DEF Gated, Sheltered
    <3>2. E.task[t].status = "blocked"
        BY <1>1, <1>3, <2>1
    <3>3. Lone(E, t)
        BY <1>1, <2>1, <3>1 DEF Lone, Held
    <3> QED BY <3>2, <3>3 DEF Sheltered, Held, Open
  <2>2. CASE ~HasPendingGate(D, t)
    <3>1. Still(D, E, t)
        BY <1>1, <2>2 DEF Still
    <3> QED BY <1>2, <2>2, <3>1, StillSheltered, SameGatesSame DEF Gated, Open
  <2> QED BY <2>1, <2>2
<1> QED BY <1>4, <1>5 DEF Gated, E

-----------------------------------------------------------------------------
(* What the actions do to gates and gated tasks.                           *)

\* A step without a dispatch, after which only tasks of T may pass their gate.
Gentle(T) ==
    /\ Gated(db') /\ SameRuns(db, db') /\ WakesOnly(db, db', T)
    /\ db'.nDisp = db.nDisp /\ \A d \in DispatchIds : db'.disp[d].task = db.disp[d].task

LEMMA RowsGated ==
    ASSUME NEW D, NEW E, Gated(D), E.task = D.task, E.disp = D.disp, SameIds(D, E),
           SameGates(D, E), SameIdsOfMail(D, E)
    PROVE  Gated(E) /\ WakesOnly(D, E, {})
<1>1. MailRows(E)
    BY DEF Gated, MailRows, SameIdsOfMail, SameIds
<1> QED BY <1>1, RowsUntouched, UntouchedGated

LEMMA RowsGentle ==
    ASSUME Gated(db), db'.task = db.task, db'.disp = db.disp, SameIds(db, db'),
           SameRuns(db, db'), SameGates(db, db'), SameIdsOfMail(db, db')
    PROVE  Gentle({})
BY RowsGated DEF Gentle, SameIds

LEMMA IdleGentle ==
    ASSUME Gated(db), UNCHANGED db
    PROVE  Gentle({})
BY RowsGentle DEF SameIds, SameRuns, SameGates, SameIdsOfMail

LEMMA MarkAsReadGentle ==
    ASSUME TypeOK, Gated(db), NEW ids, db' = markAsRead(db, ids)
    PROVE  Gentle({})
BY MarkAsReadRows, RowsGentle DEF TypeOK, SameIdsOfMail

LEMMA WakesOnlyTransitive ==
    ASSUME NEW D, NEW E, NEW F, NEW T, WakesOnly(D, E, T), WakesOnly(E, F, {})
    PROVE  WakesOnly(D, F, T)
BY DEF WakesOnly

\* A message that names a task of the board.
LEMMA InsertGated ==
    ASSUME NEW D \in Database, Gated(D), NEW row, row.task = 0 \/ row.task <= D.nTask
    PROVE  LET E == insertMessage(D, row)
           IN  /\ Gated(E) /\ WakesOnly(D, E, {}) /\ SameGates(D, E) /\ SameRuns(D, E)
               /\ SameIds(D, E) /\ E.disp = D.disp
<1> DEFINE E == insertMessage(D, row)
<1>1. /\ E.task = D.task /\ E.disp = D.disp /\ SameIds(D, E) /\ SameGates(D, E)
      /\ SameRuns(D, E)
      /\ \A m \in MessageIds : E.msg[m] = IF m = D.nMsg + 1 THEN row ELSE D.msg[m]
    BY InsertRows
<1> HIDE DEF E
<1>2. MailRows(E)
    BY <1>1 DEF Gated, MailRows, SameIds
<1> QED BY <1>1, <1>2, RowsUntouched, UntouchedGated DEF E

\* A report, whoever reads it.
LEMMA ReconcileGated ==
    ASSUME NEW D \in Database, Gated(D), OneGateIn(D), NEW m \in MessageIds
    PROVE  LET E == reconcileLifecycleMessage(D, m)
           IN  /\ Gated(E) /\ WakesOnly(D, E, {}) /\ SameRuns(D, E) /\ E.nDisp = D.nDisp
               /\ \A d \in DispatchIds : E.disp[d].task = D.disp[d].task
<1> DEFINE E == reconcileLifecycleMessage(D, m)
<1>1. /\ Untouched(D, E) \/ \E t \in TaskIds, d \in DispatchIds : Done(D, E, t, d)
      /\ SameRuns(D, E) /\ SameGates(D, E) /\ SameIdsOfMail(D, E)
  <2>1. D.msg[m].disp \in {0} \cup DispatchIds
      BY Numbers
  <2> QED BY <2>1, ReconcileRows
<1> HIDE DEF E
<1>2. MailRows(E)
  <2>1. E.nTask = D.nTask
      BY <1>1 DEF Untouched, Done
  <2> QED BY <1>1, <2>1 DEF Gated, MailRows, SameIdsOfMail
<1>3. Gated(E) /\ WakesOnly(D, E, {})
    BY <1>1, <1>2, UntouchedGated, DoneGated
<1>4. E.nDisp = D.nDisp /\ \A d \in DispatchIds : E.disp[d].task = D.disp[d].task
    BY <1>1 DEF Untouched, Done, DispSame
<1> QED BY <1>1, <1>3, <1>4 DEF E

LEMMA SendGentle ==
    ASSUME TypeOK, Gated(db), OneGateIn(db), NEW from \in Handles, NEW type \in MessageTypes,
           NEW t \in 0..db.nTask, NEW d \in {0} \cup DispatchIds, Send(from, type, t, d)
    PROVE  Gentle({})
<1> DEFINE n == db.nMsg + 1
           row == NewMessage(from, type, t, d)
           D == insertMessage(db, row)
<1>1. db \in Database /\ db.nMsg < MaxMessages
    BY DEF TypeOK, Send
<1>2. n \in MessageIds
    BY <1>1, BoundsAssumption DEF Database, MessageIds
<1>3. row \in MessageRow /\ row.task = t
  <2>1. t \in {0} \cup TaskIds
      BY <1>1, BoundsAssumption DEF Database, TaskIds
  <2>2. row \in MessageRow
      BY <2>1, NewMessageType
  <2> QED BY <2>2 DEF NewMessage
<1>4. db' = reconcileLifecycleMessage(D, n)
    BY DEF Send
<1>5. row.task <= db.nTask
    BY <1>3
<1> HIDE DEF row
<1>6. D \in Database
    BY <1>1, <1>3, InsertMessageWrites DEF Writes
<1>7. /\ Gated(D) /\ WakesOnly(db, D, {}) /\ SameGates(db, D) /\ SameRuns(db, D)
      /\ SameIds(db, D) /\ D.disp = db.disp
    BY <1>1, <1>5, InsertGated
<1> HIDE DEF D, n
<1>8. OneGateIn(D)
    BY <1>7 DEF OneGateIn, SameGates
<1>9. /\ Gated(db') /\ WakesOnly(D, db', {}) /\ SameRuns(D, db') /\ db'.nDisp = D.nDisp
      /\ \A e \in DispatchIds : db'.disp[e].task = D.disp[e].task
    BY <1>2, <1>4, <1>6, <1>7, <1>8, ReconcileGated
<1>10. WakesOnly(db, db', {})
    BY <1>7, <1>9, WakesOnlyTransitive
<1> QED BY <1>7, <1>9, <1>10 DEF Gentle, SameRuns, SameIds

LEMMA HandlersGentle ==
    ASSUME Unmeddled, TypeOK, Gated(db), OneGateIn(db), OneGateIn(db'),
           \/ \E deps \in DepChoices : TaskCreate(deps)
           \/ \E t \in TaskIds, s \in ManualStatuses : TaskUpdate(t, s)
           \/ \E t \in TaskIds : GateCreate(t)
           \/ \E g \in GateIds : GateResolve(g)
           \/ \E scope \in ResetScopes : Reset(scope)
           \/ AgentSend
    PROVE  Gentle({})
<1>0. db \in Database
    BY DEF TypeOK
<1>1. ASSUME NEW deps \in DepChoices, TaskCreate(deps) PROVE Gentle({})
  <2>1. db' = createTask(db, deps) /\ deps \subseteq 1..db.nTask /\ db.nTask < MaxTasks
      BY <1>1 DEF TaskCreate
  <2>2. PICK t \in TaskIds, es \in SUBSET TaskIds : Posted(db, db', t, es)
      BY <1>0, <2>1, CreateTaskPosts
  <2>3. SameMail(db, db') /\ SameGates(db, db') /\ SameRuns(db, db')
      BY <1>0, <2>1, CreateTaskRows
  <2>4. Gated(db') /\ WakesOnly(db, db', {})
      BY <1>0, <2>2, <2>3, PostedGated
  <2> QED BY <2>2, <2>3, <2>4 DEF Gentle, Posted, DispSame
<1>2. ASSUME NEW t \in TaskIds, NEW s \in ManualStatuses, TaskUpdate(t, s) PROVE Gentle({})
    BY DEF Unmeddled
<1>3. ASSUME NEW t \in TaskIds, GateCreate(t) PROVE Gentle({})
  <2>1. db.nGate < MaxGates /\ t <= db.nTask /\ db' = createGate(db, t)
      BY <1>3 DEF GateCreate
  <2> QED BY <1>0, <2>1, CreateGateGated DEF Gentle, SameIds
<1>4. ASSUME NEW g \in GateIds, GateResolve(g) PROVE Gentle({})
  <2>1. db.gate[g].status # "none" /\ db' = resolveGate(db, g)
      BY <1>4 DEF GateResolve
  <2> QED BY <1>0, <2>1, ResolveGateGated DEF Gentle, SameIds
<1>5. ASSUME NEW scope \in ResetScopes, Reset(scope) PROVE Gentle({})
  <2>1. db' = resetMessages(db)
      BY <1>5 DEF Unmeddled, Reset
  <2> QED BY <1>0, <2>1, ResetMessagesRows, RowsGentle
<1>6. CASE AgentSend
  <2>1. PICK from \in Senders, type \in SentTypes :
           SendLifecycle(from, type) \/ SendAboutTask(from, type)
      BY <1>6 DEF AgentSend
  <2>2. from \in Handles /\ type \in MessageTypes
      BY EnvironmentAssumption
  <2>3. 1..db.nTask \subseteq 0..db.nTask /\ told \subseteq DispatchIds
      BY DEF TypeOK
  <2>4. \E t \in 0..db.nTask, d \in {0} \cup DispatchIds : Send(from, type, t, d)
      BY <2>1, <2>3 DEF SendLifecycle, SendAboutTask
  <2> QED BY <2>2, <2>4, SendGentle
<1> QED BY <1>1, <1>2, <1>3, <1>4, <1>5, <1>6

\* Only an escalation can put a gated task back, and it is read by a tick.
LEMMA HandleMessageGentle ==
    ASSUME TypeOK, Gated(db), OneGateIn(db), OneGateIn(db'), NEW m \in MessageIds, HandleMessage(m)
    PROVE  Gentle({}) \/ (turn.by = "tick" /\ Gentle(TaskIds))
<1>0. db \in Database
    BY DEF TypeOK
<1>1. CASE HandleLifecycle(m)
  <2>1. db' = reconcileLifecycleMessage(db, m)
      BY <1>1 DEF HandleLifecycle
  <2> QED BY <1>0, <2>1, ReconcileGated DEF Gentle
<1>2. CASE HandleEscalation(m)
  <2> DEFINE t == db.msg[m].task
  <2>1. ASSUME NEW d \in DispatchIds, EscalationFails(t, d),
               IF failDispatch(db, d).disp[d].status = "circuit_broken"
               THEN db' = updateTaskStatus(failDispatch(db, d), t, "failed", m)
               ELSE db' = failDispatch(db, d)
        PROVE  Gentle(TaskIds)
    <3> DEFINE E == failDispatch(db, d)
    <3>1. /\ db.disp[d].task = t /\ db.disp[d].status # "none" /\ Newest(db, d) /\ t \in TaskIds
          /\ db.task[t].status # "none"
        BY <2>1 DEF EscalationFails, IsLatestDispatch, DispatchesOf, Newest, TaskExists
    <3>2. Gated(E) /\ E \in Database
        BY <1>0, <3>1, FailGated, FailDispatchWrites DEF Writes
    <3>3. /\ SameRest(db, E)
          /\ E.disp[d].status = "circuit_broken" => E.task[t].status = "failed"
          /\ \A e \in DispatchIds : E.disp[e].task = db.disp[e].task
      <4>1. /\ E.disp[d].task = db.disp[d].task
            /\ \A e \in DispatchIds : e # d => E.disp[e] = db.disp[e]
          BY <1>0, <3>1, FailRows
      <4> QED BY <1>0, <3>1, <4>1, FailRows
    <3>4. IF E.disp[d].status = "circuit_broken"
          THEN db' = updateTaskStatus(E, t, "failed", m) ELSE db' = E
        BY <2>1
    <3> HIDE DEF E, t
    <3>5. CASE E.disp[d].status = "circuit_broken"
      <4>1. /\ "failed" \in TaskStatuses /\ "failed" # "completed" /\ m \in {0} \cup MessageIds
            /\ db' = updateTaskStatus(E, t, "failed", m)
          BY <3>4, <3>5 DEF TaskStatuses
      <4>2. /\ SameRest(E, db') /\ db'.disp = E.disp
            /\ db'.task[t].status = "failed" /\ db'.task[t].deps = E.task[t].deps
            /\ \A u \in TaskIds : u # t => db'.task[u] = E.task[u]
          BY <3>1, <3>2, <4>1, UpdateRows
      <4>3. Untouched(E, db')
          BY <3>3, <3>5, <4>2 DEF Untouched, TaskSame, DispSame, SameRest, SameIds
      <4>4. MailRows(db')
          BY <3>2, <4>2 DEF Gated, MailRows, SameRest, SameMail, SameIds
      <4>5. Gated(db')
          BY <3>2, <4>2, <4>3, <4>4, UntouchedGated DEF SameRest
      <4> QED BY <3>3, <4>2, <4>5 DEF Gentle, WakesOnly, SameRest, SameRuns, SameIds
    <3>6. CASE E.disp[d].status # "circuit_broken"
        BY <3>2, <3>3, <3>4, <3>6 DEF Gentle, WakesOnly, SameRest, SameIds
    <3> QED BY <3>5, <3>6
  <2>2. UNCHANGED db => Gentle({})
      BY IdleGentle
  <2> QED BY <1>2, <2>1, <2>2 DEF HandleEscalation
<1>3. CASE HandleDecisionGate(m)
  <2>1. CASE UNCHANGED db
      BY <2>1, IdleGentle
  <2>2. CASE db.msg[m].task # 0
    <3>1. db.nGate < MaxGates /\ db' = createGate(db, db.msg[m].task)
        BY <1>3, <2>2 DEF HandleDecisionGate
    <3>2. db.msg[m].task \in TaskIds /\ db.msg[m].task <= db.nTask
        BY <1>0, <2>2 DEF Gated, MailRows, Database, MessageRow
    <3> QED BY <1>0, <3>1, <3>2, CreateGateGated DEF Gentle, SameIds
  <2> QED BY <1>3, <2>1, <2>2 DEF HandleDecisionGate
<1>4. CASE HandleOther(m)
    BY <1>4, IdleGentle DEF HandleOther
<1> QED BY <1>1, <1>2, <1>3, <1>4 DEF HandleMessage

\* The agent that exits had no open gate, or it would not have been at work.
LEMMA ExitGentle ==
    ASSUME TypeOK, Gated(db), OneGateIn(db), NEW h \in Handles, TerminalExit(h)
    PROVE  Gentle({})
<1>0. db \in Database
    BY DEF TypeOK
<1>1. ASSUME NEW d \in DispatchIds, d \in ActiveDispatches(db),
             \/ db' = insertMessage(failDispatch(db, d),
                         [NewMessage(h, "escalation", db.disp[d].task, 0) EXCEPT !.pane = NoPane])
             \/ db' = failDispatch(db, d)
      PROVE  Gentle({})
  <2> DEFINE E == failDispatch(db, d)
             t == db.disp[d].task
             row == [NewMessage(h, "escalation", t, 0) EXCEPT !.pane = NoPane]
  <2>1. db.disp[d].status # "none" /\ db.disp[d].status \in ActiveStatuses
      BY <1>1 DEF ActiveDispatches, ActiveStatuses
  <2>2. Gated(E) /\ WakesOnly(db, E, {}) /\ E \in Database
      BY <1>0, <2>1, FailGated, FailDispatchWrites DEF Writes
  <2>3. SameRest(db, E) /\ \A e \in DispatchIds : E.disp[e].task = db.disp[e].task
    <3>1. /\ E.disp[d].task = db.disp[d].task
          /\ \A e \in DispatchIds : e # d => E.disp[e] = db.disp[e]
        BY <1>0, <2>1, FailRows
    <3> QED BY <1>0, <2>1, <3>1, FailRows
  <2>4. row.task = t /\ t <= db.nTask
      BY <2>1 DEF NewMessage, Gated, Rows
  <2>5. db' = insertMessage(E, row) \/ db' = E
      BY <1>1
  <2> HIDE DEF E, t, row
  <2>6. CASE db' = insertMessage(E, row)
    <3>1. row.task <= E.nTask
        BY <2>3, <2>4 DEF SameRest, SameIds
    <3>2. /\ Gated(db') /\ WakesOnly(E, db', {}) /\ SameRuns(E, db') /\ SameIds(E, db')
          /\ db'.disp = E.disp
        BY <2>2, <2>6, <3>1, InsertGated
    <3>3. WakesOnly(db, db', {})
        BY <2>2, <3>2, WakesOnlyTransitive
    <3> QED BY <2>3, <3>2, <3>3 DEF Gentle, SameRest, SameRuns, SameIds
  <2>7. CASE db' = E
      BY <2>2, <2>3, <2>7 DEF Gentle, SameRest, SameIds
  <2> QED BY <2>5, <2>6, <2>7
<1> QED BY <1>1, IdleGentle DEF TerminalExit

\* After the tick's mail no gated task is ready.
LEMMA TickEndGentle ==
    ASSUME TypeOK, Gated(db), OneGateIn(db), NEW r, TickEnd(r)
    PROVE  Gentle({}) /\ \A t \in TaskIds : ~Open(db', t)
<1> DEFINE E == markAsRead(db, turn.batch)
<1>1. db \in Database /\ E \in Database
    BY MarkAsReadWrites DEF TypeOK, Writes
<1>2. /\ E.task = db.task /\ E.disp = db.disp /\ SameIds(db, E) /\ SameRuns(db, E)
      /\ SameGates(db, E) /\ SameIdsOfMail(db, E)
    BY <1>1, MarkAsReadRows DEF SameIdsOfMail
<1>3. db' = restorePendingGateTaskStatuses(E)
    BY DEF TickEnd
<1> HIDE DEF E
<1>4. Gated(E) /\ OneGateIn(E)
    BY <1>2, RowsGated DEF OneGateIn, SameGates
<1>5. Gated(db') /\ \A t \in TaskIds : ~Open(db', t)
    BY <1>1, <1>3, <1>4, RestoreGated
<1>6. SameRest(E, db') /\ db'.disp = E.disp
    BY <1>1, <1>3, RestoreRows
<1> QED BY <1>2, <1>5, <1>6 DEF Gentle, WakesOnly, SameRest, SameRuns, SameIds

\* A prompt that fails gives back the task of the newest dispatch of all.
LEMMA PromptedGentle ==
    ASSUME TypeOK, Gated(db), OneGateIn(db), NEW r \in RunIds, Prompted(r),
           coord[r].disp \in DispatchIds, coord[r].disp = db.nDisp,
           db.disp[coord[r].disp].task = coord[r].task
    PROVE  Gentle({coord[r].task})
<1> DEFINE d == coord[r].disp
<1>0. db \in Database
    BY DEF TypeOK
<1>1. CASE db' = failDispatch(db, d) /\ db.disp[d].status # "none"
  <2>1. Newest(db, d)
      BY DEF Newest, Gated, Rows
  <2>2. /\ SameRest(db, db') /\ db'.disp[d].task = db.disp[d].task
        /\ \A e \in DispatchIds : e # d => db'.disp[e] = db.disp[e]
      BY <1>0, <1>1, FailRows
  <2>3. Gated(db') /\ WakesOnly(db, db', {coord[r].task})
      BY <1>0, <1>1, <2>1, FailGated
  <2> QED BY <2>2, <2>3 DEF Gentle, SameRest, SameIds
<1>2. CASE UNCHANGED db
    BY <1>2, IdleGentle DEF Gentle, WakesOnly
<1>3. UNCHANGED db \/ db' = failDispatch(db, d)
    BY DEF Prompted
<1>4. db.disp[d].status = "none" => failDispatch(db, d) = db
    BY DEF failDispatch
<1> QED BY <1>1, <1>2, <1>3, <1>4

LEMMA DispatchGated ==
    ASSUME TypeOK, Gated(db), NEW t, NEW h \in Handles, Dispatches(t, h, db.nDisp + 1), ~Open(db, t)
    PROVE  /\ Gated(db') /\ SameRuns(db, db') /\ WakesOnly(db, db', {})
           /\ db'.nDisp = db.nDisp + 1 /\ db'.disp[db.nDisp + 1].task = t
<1>0. db \in Database
    BY DEF TypeOK
<1>1. PICK n : db' = createDispatchContext(db, t, h, PaneOf[h], n)
    BY DEF Dispatches
<1>2. SameMail(db, db') /\ SameGates(db, db')
    BY <1>0, <1>1, DispatchRows DEF Dispatches, CanDispatch, TaskExists
<1>3. Taken(db, db', t, db.nDisp + 1, h) /\ SameRuns(db, db')
    BY DispatchTaken
<1>4. Gated(db') /\ WakesOnly(db, db', {})
    BY <1>0, <1>2, <1>3, TakenGated
<1> QED BY <1>3, <1>4 DEF Taken

LEMMA RunsGated ==
    ASSUME TypeOK, Gated(db), Run \/ \E r \in RunIds : Finish(r)
    PROVE  /\ Gated(db') /\ WakesOnly(db, db', {})
           /\ db'.nDisp = db.nDisp /\ db'.disp = db.disp
<1>1. /\ db'.task = db.task /\ db'.disp = db.disp /\ SameIds(db, db') /\ db'.msg = db.msg
      /\ SameGates(db, db')
    BY DEF TypeOK, Database, Run, Finish, createCoordinatorRun, updateCoordinatorRun, SameIds,
           SameGates
<1> QED BY <1>1, RowsGated DEF SameIdsOfMail, SameIds

-----------------------------------------------------------------------------
(* The coordinators.                                                       *)

\* What a coordinator still has to dispatch is not blocked by a gate, and the
\* one it prompts for is the newest dispatch of all.
Watched ==
    \A r \in RunIds :
        /\ \A t \in Owes(coord[r]) : ~Open(db, t)
        /\ Apart(coord[r])
        /\ coord[r].pc = "prompting" =>
              /\ coord[r].disp = db.nDisp
              /\ db.disp[coord[r].disp].task = coord[r].task

\* The inductive invariant of the gates.
GateInv == TypeOK /\ CallsInProgress /\ Coordinated /\ Gated(db) /\ Watched

LEMMA InitGate == Init => GateInv
<1> SUFFICES ASSUME Init PROVE GateInv
    OBVIOUS
<1>1. TypeOK /\ CallsInProgress
    BY InitTypes
<1>2. /\ \A t \in TaskIds : EmptyDb.task[t].status = "none"
      /\ \A d \in DispatchIds : EmptyDb.disp[d].status = "none"
      /\ \A m \in MessageIds : EmptyDb.msg[m].task = 0
      /\ \A g \in GateIds : EmptyDb.gate[g].status = "none"
      /\ \A r \in RunIds : EmptyDb.run[r] = "none"
      /\ EmptyDb.nTask = 0 /\ EmptyDb.nDisp = 0
    BY DEF EmptyDb
<1>3. Coordinated
    BY <1>2 DEF Init, Coordinated, NewCoordinator, FreeTurn
<1>4. Gated(EmptyDb)
  <2>1. Rows(EmptyDb)
      BY <1>2, EmptyDbType, Numbers DEF Rows
  <2>2. GateRows(EmptyDb) /\ MailRows(EmptyDb)
      BY <1>2 DEF GateRows, MailRows
  <2>3. \A t \in TaskIds : Sheltered(EmptyDb, t)
      BY <1>2 DEF Sheltered, Lone, Held, HasPendingGate, ActiveStatuses
  <2> QED BY <2>1, <2>2, <2>3 DEF Gated
<1>5. Watched
    BY DEF Init, Watched, Owes, Apart, NewCoordinator, Working
<1> QED BY <1>1, <1>3, <1>4, <1>5 DEF GateInv, Init

\* There is one loop at work, and it is not at work while it reads its mail.
LEMMA OneLoop ==
    ASSUME Coordinated
    PROVE  /\ \A q, r \in RunIds : coord[q].pc \notin {"none", "done"}
                                   /\ coord[r].pc \notin {"none", "done"} => q = r
           /\ turn.by = "tick" => \A q \in RunIds : coord[q].pc \notin Working
<1>1. \A q, r \in RunIds : coord[q].pc \notin {"none", "done"}
                           /\ coord[r].pc \notin {"none", "done"} => q = r
    BY DEF Coordinated
<1>2. ASSUME turn.by = "tick", NEW q \in RunIds, coord[q].pc \in Working PROVE FALSE
  <2>1. turn.run \in RunIds /\ coord[turn.run].pc = "tick"
      BY <1>2 DEF Coordinated
  <2>2. q = turn.run
      BY <1>1, <1>2, <2>1 DEF Working
  <2> QED BY <1>2, <2>1, <2>2 DEF Working
<1> QED BY <1>1, <1>2

\* A dispatch by the loop of run r.
Claimed(r) ==
    /\ DispatchTask(r) /\ Dispatches(coord[r].task, coord[r].handle, db.nDisp + 1)
    /\ coord' = [coord EXCEPT ![r].disp = db.nDisp + 1, ![r].pc = "prompting"]

\* The kinds of step.
LEMMA GateSteps ==
    ASSUME Unmeddled, GateInv, OneGateIn(db), OneGateIn(db'), Next
    PROVE  \/ Gentle({})
           \/ \E r \in RunIds : Claimed(r) \/ TickEnd(r) \/ Finish(r)
           \/ Run
           \/ \E m \in MessageIds : turn.by = "tick" /\ HandleMessage(m) /\ Gentle(TaskIds)
           \/ \E r \in RunIds : Prompted(r) /\ Gentle({coord[r].task})
<1>0. TypeOK /\ CallsInProgress /\ Gated(db)
    BY DEF GateInv
<1>1. CASE CheckEnd
    BY <1>0, <1>1, MarkAsReadGentle DEF CheckEnd
<1>2. CASE RunStop \/ Crash \/ \E types \in CheckFilters : CheckBegin(types)
    BY <1>0, <1>2, IdleGentle DEF CheckBegin, RunStop, Crash
<1>3. ASSUME NEW m \in MessageIds, HandleMessage(m)
      PROVE  Gentle({}) \/ (turn.by = "tick" /\ Gentle(TaskIds))
    BY <1>0, <1>3, HandleMessageGentle
<1>4. ASSUME NEW r \in RunIds, CoordinatorStep(r), ~TickEnd(r), ~Finish(r)
      PROVE  Gentle({}) \/ Claimed(r) \/ (Prompted(r) /\ Gentle({coord[r].task}))
  <2>1. CASE DispatchTask(r)
      BY <1>0, <2>1, IdleGentle DEF DispatchTask, Claimed
  <2>2. CASE Prompted(r)
    <3>1. /\ coord[r].disp \in DispatchIds /\ coord[r].disp = db.nDisp
          /\ db.disp[coord[r].disp].task = coord[r].task
        BY <2>2 DEF Prompted, GateInv, CallsInProgress, Watched
    <3> QED BY <1>0, <2>2, <3>1, PromptedGentle
  <2>3. CASE LoopTest(r) \/ ListTerminals(r) \/ CreateTerminal(r) \/ AssignNext(r)
             \/ CheckConvergence(r) \/ Wake(r)
    <3>1. UNCHANGED db
        BY <2>3 DEF LoopTest, ListTerminals, CreateTerminal, AssignNext, CheckConvergence, Wake
    <3> QED BY <1>0, <3>1, IdleGentle
  <2> QED BY <1>4, <2>1, <2>2, <2>3 DEF CoordinatorStep
<1>5. ASSUME NEW c \in Clients PROVE FALSE
    BY <1>5 DEF Unmeddled
<1>6. ASSUME NEW h \in Handles, TerminalExit(h) PROVE Gentle({})
    BY <1>0, <1>6, ExitGentle
<1> QED BY <1>0, <1>1, <1>2, <1>3, <1>4, <1>5, <1>6, HandlersGentle DEF Next

\* A step without a dispatch leaves every coordinator claiming no more.
LEMMA GentleTame ==
    ASSUME Unmeddled, GateInv, Next, db'.nDisp = db.nDisp, ~Run, \A r \in RunIds : ~TickEnd(r)
    PROVE  \A q \in RunIds : Tame(coord[q], coord'[q])
<1>0. TypeOK /\ CallsInProgress /\ db \in Database
    BY DEF GateInv, TypeOK
<1>1. ASSUME NEW t \in TaskIds, NEW h \in Handles, Dispatches(t, h, db.nDisp + 1)
      PROVE  FALSE
  <2>1. db'.nDisp = db.nDisp + 1
      BY <1>0, <1>1, DispatchTaken DEF Taken
  <2> QED BY <1>0, <2>1, Numbers
<1> QED BY <1>0, <1>1, NextTame

\* Coordinators that claim no more stay watched, where no gated task comes back.
LEMMA WatchedTame ==
    ASSUME Watched, \A q \in RunIds : Tame(coord[q], coord'[q]), db'.nDisp = db.nDisp,
           \A d \in DispatchIds : db'.disp[d].task = db.disp[d].task, CallsInProgress,
           \A q \in RunIds : \A t \in Owes(coord'[q]) : Open(db', t) => Open(db, t)
    PROVE  Watched'
<1>1. ASSUME NEW q \in RunIds, NEW t \in Owes(coord'[q]) PROVE ~Open(db', t)
  <2>1. t \in Owes(coord[q])
      BY <1>1 DEF Tame
  <2> QED BY <1>1, <2>1 DEF Watched
<1>2. ASSUME NEW q \in RunIds, coord'[q].pc = "prompting"
      PROVE  /\ coord'[q].disp = db'.nDisp
             /\ db'.disp[coord'[q].disp].task = coord'[q].task
  <2>1. /\ coord[q].pc = "prompting" /\ coord'[q].disp = coord[q].disp
        /\ coord'[q].task = coord[q].task /\ coord[q].disp \in DispatchIds
      BY <1>2 DEF Tame, CallsInProgress
  <2> QED BY <2>1 DEF Watched
<1>3. \A q \in RunIds : Apart(coord'[q])
    BY DEF Watched, Tame
<1> QED BY <1>1, <1>2, <1>3 DEF Watched, Apart

LEMMA ClaimedWatched ==
    ASSUME GateInv, NEW r \in RunIds, Claimed(r)
    PROVE  Watched' /\ Gated(db') /\ SameRuns(db, db')
<1> DEFINE c == coord[r]
           k == db.nDisp + 1
           e == [c EXCEPT !.disp = k, !.pc = "prompting"]
<1>0. /\ TypeOK /\ Gated(db) /\ c \in Coordinator /\ coord \in [RunIds -> Coordinator]
      /\ c.handle \in Handles /\ c.pc = "probing"
    BY DEF GateInv, TypeOK, Coordinator, Claimed, DispatchTask
<1>1. Owes(c) = c.ready \cup {c.task} /\ c.task \notin c.ready
    BY <1>0 DEF GateInv, Watched, Apart, Owes, Working
<1>2. ~Open(db, c.task)
    BY <1>1 DEF GateInv, Watched
<1>3. Dispatches(c.task, c.handle, k)
    BY DEF Claimed
<1>4. /\ Gated(db') /\ SameRuns(db, db') /\ WakesOnly(db, db', {})
      /\ db'.nDisp = k /\ db'.disp[k].task = c.task
    BY <1>0, <1>2, <1>3, DispatchGated
<1>5. /\ e.pc = "prompting" /\ e.ready = c.ready /\ e.task = c.task /\ e.disp = k
      /\ coord' = [coord EXCEPT ![r] = e]
    BY <1>0 DEF Claimed, Coordinator
<1> HIDE DEF c, e
<1>6. coord'[r] = e /\ \A q \in RunIds : q # r => coord'[q] = coord[q]
    BY <1>0, <1>5
<1>7. \A q \in RunIds : q # r => coord'[q].pc \notin {"prompting"} \cup Working
    BY <1>0, <1>6, OneLoop DEF GateInv, Working, c
<1>8. Owes(e) = c.ready /\ Apart(e)
    BY <1>1, <1>5 DEF Owes, Working, Apart
<1>9. \A t \in c.ready : ~Open(db', t)
  <2>1. c.ready \subseteq TaskIds /\ \A t \in c.ready : ~Open(db, t)
      BY <1>0, <1>1 DEF GateInv, Watched, Coordinator, c
  <2> QED BY <1>4, <2>1 DEF WakesOnly
<1>10. ASSUME NEW q \in RunIds, q # r
       PROVE  Owes(coord'[q]) = {} /\ Apart(coord'[q])
    BY <1>7, <1>10 DEF Owes, Apart, Working
<1> QED BY <1>4, <1>5, <1>6, <1>7, <1>8, <1>9, <1>10 DEF Watched, Apart

\* After the tick's mail no task to dispatch has an open gate.
LEMMA TickEndWatched ==
    ASSUME GateInv, OneGateIn(db), NEW r \in RunIds, TickEnd(r)
    PROVE  Watched' /\ Gated(db') /\ SameRuns(db, db') /\ coord[r].pc = "tick"
<1>1. TypeOK /\ Gated(db) /\ coord \in [RunIds -> Coordinator]
    BY DEF GateInv, TypeOK
<1>2. Gentle({}) /\ \A t \in TaskIds : ~Open(db', t)
    BY <1>1, TickEndGentle
<1>3. /\ coord[r].pc = "tick" /\ turn.by = "tick"
      /\ \A q \in RunIds : q # r => coord'[q] = coord[q]
      /\ coord'[r].pc \in {"converging", "listing"}
    BY <1>1, TickEndCoord DEF GateInv, Coordinated
<1>4. \A q \in RunIds : q # r => coord'[q].pc \notin Working
    BY <1>3, OneLoop DEF GateInv
<1>5. \A q \in RunIds : coord'[q].pc \notin {"probing", "prompting"}
    BY <1>3, <1>4 DEF Working
<1>6. TypeOK'
    BY <1>1, TickEndStep
<1>7. \A q \in RunIds : Owes(coord'[q]) \subseteq TaskIds
    BY <1>5, <1>6 DEF TypeOK, Coordinator, Owes
<1>8. ASSUME NEW q \in RunIds, NEW t \in Owes(coord'[q]) PROVE ~Open(db', t)
    BY <1>2, <1>7, <1>8
<1>9. \A q \in RunIds : Apart(coord'[q])
    BY <1>5 DEF Apart
<1> QED BY <1>2, <1>3, <1>5, <1>8, <1>9 DEF Watched, Apart, Gentle

\* A new loop owes nothing, and there is no other.
LEMMA RunWatched ==
    ASSUME GateInv, Run
    PROVE  Watched' /\ Gated(db') /\ Coordinated'
<1>1. TypeOK /\ Gated(db) /\ coord \in [RunIds -> Coordinator]
    BY DEF GateInv, TypeOK
<1>2. Gated(db')
    BY <1>1, RunsGated
<1>3. turn'.by # "tick"
    BY DEF Run, Free
<1>4. Coordinated'
    BY <1>1, <1>3, RunCoordinated DEF GateInv
<1>5. ASSUME NEW q \in RunIds PROVE coord'[q].pc \notin {"prompting"} \cup Working
  <2>1. CASE q = db.nRun + 1
      BY <1>1, <2>1 DEF Run, Working, Coordinator
  <2>2. CASE q # db.nRun + 1
    <3>1. coord'[q] = coord[q]
        BY <1>1, <2>2 DEF Run
    <3>2. coord[q].pc \in {"none", "done"}
        BY DEF GateInv, Coordinated, Run, HasActiveRun
    <3> QED BY <3>1, <3>2 DEF Working
  <2> QED BY <2>1, <2>2
<1>6. Watched'
  <2>1. \A q \in RunIds : Owes(coord'[q]) = {} /\ Apart(coord'[q])
      BY <1>5 DEF Owes, Apart, Working
  <2> QED BY <1>5, <2>1 DEF Watched, Apart
<1> QED BY <1>2, <1>4, <1>6

\* Any other step.
LEMMA GentleWatched ==
    ASSUME Unmeddled, GateInv, Next, ~Run, \A r \in RunIds : ~TickEnd(r) /\ ~Finish(r),
           NEW T, Gentle(T), TypeOK', CallsInProgress',
           \A q \in RunIds : \A t \in Owes(coord'[q]) : t \notin T
    PROVE  Watched' /\ Gated(db') /\ Coordinated'
<1>1. TypeOK /\ CallsInProgress /\ Coordinated /\ Watched
    BY DEF GateInv
<1>2. \A q \in RunIds : Tame(coord[q], coord'[q])
    BY GentleTame DEF Gentle
<1>3. ASSUME NEW q \in RunIds, NEW t \in Owes(coord'[q]) PROVE Open(db', t) => Open(db, t)
  <2>1. coord'[q] \in Coordinator
      BY DEF TypeOK
  <2>2. t \in TaskIds
      BY <1>3, <2>1 DEF Coordinator, Owes, CallsInProgress
  <2> QED BY <1>3, <2>2 DEF Gentle, WakesOnly
<1>4. Watched'
    BY <1>1, <1>2, <1>3, WatchedTame DEF Gentle
<1>5. Coordinated'
    BY <1>1, <1>2, OtherCoordinated DEF Gentle, Tame
<1> QED BY <1>4, <1>5 DEF Gentle

LEMMA NextGate ==
    ASSUME Unmeddled, GateInv, OneGateIn(db), OneGateIn(db'), Next
    PROVE  GateInv'
<1>0. /\ TypeOK /\ CallsInProgress /\ Coordinated /\ Gated(db) /\ Watched
      /\ coord \in [RunIds -> Coordinator]
    BY DEF GateInv, TypeOK
<1>1. TypeOK' /\ CallsInProgress'
    BY <1>0, NextKeepsTypes
<1> SUFFICES Watched' /\ Gated(db') /\ Coordinated'
    BY <1>1 DEF GateInv
<1>2. CASE Run
    BY <1>2, RunWatched
<1>3. ASSUME NEW r \in RunIds, Finish(r) PROVE Watched' /\ Gated(db') /\ Coordinated'
  <2>1. Gated(db') /\ WakesOnly(db, db', {}) /\ db'.nDisp = db.nDisp /\ db'.disp = db.disp
      BY <1>0, <1>3, RunsGated
  <2>2. ~Run /\ \A q \in RunIds : ~TickEnd(q)
    <3>1. turn.by = "free"
        BY <1>3 DEF Finish, Free
    <3>2. db.run[r] = "running" /\ coord[r].pc \in {"finishing", "failing"}
        BY <1>0, <1>3 DEF Finish, Coordinated
    <3>3. ~Run
        BY <3>2 DEF Run, HasActiveRun
    <3> QED BY <3>1, <3>3 DEF TickEnd
  <2>3. \A q \in RunIds : Tame(coord[q], coord'[q])
      BY <2>1, <2>2, GentleTame
  <2>4. ASSUME NEW q \in RunIds, NEW t \in Owes(coord'[q]) PROVE Open(db', t) => Open(db, t)
    <3>1. coord'[q] \in Coordinator
        BY <1>1 DEF TypeOK
    <3>2. t \in TaskIds
        BY <1>1, <2>4, <3>1 DEF Coordinator, Owes, CallsInProgress
    <3> QED BY <2>1, <3>2 DEF WakesOnly
  <2>5. Watched'
      BY <1>0, <2>1, <2>3, <2>4, WatchedTame
  <2>6. turn'.by # "tick"
      BY <1>3 DEF Finish, Free
  <2> QED BY <1>0, <1>3, <2>1, <2>5, <2>6, FinishCoordinated
<1>4. ASSUME NEW r \in RunIds, TickEnd(r) PROVE Watched' /\ Gated(db') /\ Coordinated'
  <2>1. Watched' /\ Gated(db') /\ SameRuns(db, db') /\ coord[r].pc = "tick"
      BY <1>4, TickEndWatched
  <2>2. \A q \in RunIds : q # r => coord'[q] = coord[q]
      BY <1>0, <1>4, TickEndCoord
  <2> QED BY <1>0, <2>1, <2>2, OtherCoordinated
<1>5. ASSUME NEW r \in RunIds, Claimed(r) PROVE Watched' /\ Gated(db') /\ Coordinated'
  <2>1. Watched' /\ Gated(db') /\ SameRuns(db, db')
      BY <1>5, ClaimedWatched
  <2>2. coord[r].pc = "probing" /\ \A q \in RunIds : q # r => coord'[q] = coord[q]
      BY <1>0, <1>5 DEF Claimed, DispatchTask
  <2> QED BY <1>0, <2>1, <2>2, OtherCoordinated
<1> DEFINE Quiet == ~Run /\ \A r \in RunIds : ~TickEnd(r) /\ ~Finish(r)
<1>6. CASE Quiet /\ Gentle({})
    BY <1>1, <1>6, GentleWatched
<1>7. ASSUME Quiet, turn.by = "tick", NEW m \in MessageIds, HandleMessage(m), Gentle(TaskIds)
      PROVE  Watched' /\ Gated(db') /\ Coordinated'
  <2>1. \A q \in RunIds : coord'[q].pc \notin Working
      BY <1>0, <1>7, OneLoop, HandleMessageTame
  <2>2. \A q \in RunIds : Owes(coord'[q]) = {}
      BY <2>1 DEF Owes
  <2> QED BY <1>1, <1>7, <2>2, GentleWatched
<1>8. ASSUME Quiet, NEW r \in RunIds, Prompted(r), Gentle({coord[r].task})
      PROVE  Watched' /\ Gated(db') /\ Coordinated'
  <2>1. \A q \in RunIds : Tame(coord[q], coord'[q])
      BY <1>8, GentleTame DEF Gentle
  <2>2. coord[r].pc = "prompting" /\ coord[r].task \notin coord[r].ready
      BY <1>0, <1>8 DEF Prompted, Watched, Apart
  <2>3. ASSUME NEW q \in RunIds, NEW t \in Owes(coord'[q]) PROVE t \notin {coord[r].task}
    <3>1. t \in Owes(coord[q])
        BY <2>1, <2>3 DEF Tame
    <3>2. q = r
        BY <1>0, <2>2, <3>1, OneLoop DEF Owes, Working
    <3> QED BY <2>2, <3>1, <3>2 DEF Owes
  <2> QED BY <1>1, <1>8, <2>3, GentleWatched
<1> QED BY <1>2, <1>3, <1>4, <1>5, <1>6, <1>7, <1>8, GateSteps

-----------------------------------------------------------------------------
(* A gate that was asked for stays on record, so what holds as long as no  *)
(* task has a second gate holds until then.                                *)

GateOrder(D) == \A g \in GateIds : D.gate[g].status # "none" => g <= D.nGate

\* No gate is lost between D and E.
Records(D, E) == GateOrder(E) /\ (OneGateIn(E) => OneGateIn(D))

LEMMA SameGatesRecords ==
    ASSUME NEW D, NEW E, SameGates(D, E), GateOrder(D)
    PROVE  Records(D, E)
BY DEF Records, GateOrder, SameGates, OneGateIn

LEMMA CreateGateRecords ==
    ASSUME NEW D \in Database, D.nGate < MaxGates, NEW t \in TaskIds, GateOrder(D)
    PROVE  Records(D, createGate(D, t))
<1> DEFINE n == D.nGate + 1
           G == [D EXCEPT !.gate[n] = [status |-> "pending", task |-> t], !.nGate = @ + 1]
           C == completeActiveDispatchForTask(G, t)
           E == SetTaskStatus(C, t, "blocked")
<1>1. E = createGate(D, t)
    BY DEF createGate
<1>2. G \in Database
    BY CreateGateRowType
<1>3. /\ n \in GateIds /\ D.nGate \in Nat /\ \A g \in GateIds : g \in Nat
    BY BoundsAssumption DEF Database, GateIds
<1>4. /\ G.nGate = n /\ G.gate[n].status = "pending"
      /\ \A g \in GateIds : g # n => G.gate[g] = D.gate[g]
    BY <1>3 DEF Database
<1> HIDE DEF G
<1>5. SameGates(G, C) /\ C \in Database
    BY <1>2, CompleteActiveWrites, CompleteActiveRows DEF Writes, SameRest
<1> HIDE DEF C
<1>6. SameGates(C, E)
    BY DEF SetTaskStatus, SameGates, Database
<1> HIDE DEF E
<1>7. E.gate = G.gate /\ E.nGate = n
    BY <1>4, <1>5, <1>6 DEF SameGates
<1>8. GateOrder(E)
  <2>1. \A g \in Nat : g <= D.nGate => g <= n
      BY <1>3
  <2> QED BY <1>3, <1>4, <1>7, <2>1 DEF GateOrder
<1>9. \A g \in GateIds : D.gate[g].status # "none" => E.gate[g] = D.gate[g]
  <2>1. D.gate[n].status = "none"
      BY <1>3 DEF GateOrder
  <2> QED BY <1>4, <1>7, <2>1
<1> QED BY <1>1, <1>8, <1>9 DEF Records, OneGateIn

LEMMA ResolveGateRecords ==
    ASSUME NEW D \in Database, NEW g \in GateIds, D.gate[g].status # "none", GateOrder(D)
    PROVE  Records(D, resolveGate(D, g))
<1> DEFINE G == [D EXCEPT !.gate[g].status = "resolved"]
           E == SetTaskStatus(G, D.gate[g].task, "ready")
<1>1. E = resolveGate(D, g)
    BY DEF resolveGate
<1>2. /\ G.nGate = D.nGate
      /\ G.gate[g].status = "resolved" /\ G.gate[g].task = D.gate[g].task
      /\ \A h \in GateIds : h # g => G.gate[h] = D.gate[h]
    BY DEF Database, GateRow
<1>3. SameGates(G, E)
    BY DEF SetTaskStatus, SameGates, Database
<1> HIDE DEF G, E
<1>4. Records(D, E)
    BY <1>2, <1>3 DEF Records, GateOrder, OneGateIn, SameGates
<1> QED BY <1>1, <1>4

LEMMA FailSameGates ==
    ASSUME NEW D \in Database, NEW d \in DispatchIds
    PROVE  SameGates(D, failDispatch(D, d)) /\ failDispatch(D, d) \in Database
<1>1. failDispatch(D, d) \in Database
    BY FailDispatchWrites DEF Writes
<1>2. SameGates(D, failDispatch(D, d))
    BY FailRows DEF failDispatch, SameRest, SameGates
<1> QED BY <1>1, <1>2

LEMMA HandlersRecord ==
    ASSUME Unmeddled, TypeOK, GateOrder(db),
           \/ \E deps \in DepChoices : TaskCreate(deps)
           \/ \E t \in TaskIds, s \in ManualStatuses : TaskUpdate(t, s)
           \/ \E t \in TaskIds : GateCreate(t)
           \/ \E g \in GateIds : GateResolve(g)
           \/ \E scope \in ResetScopes : Reset(scope)
           \/ AgentSend
    PROVE  Records(db, db')
<1>0. db \in Database
    BY DEF TypeOK
<1>1. ASSUME NEW deps \in DepChoices, TaskCreate(deps) PROVE Records(db, db')
    BY <1>0, <1>1, CreateTaskRows, SameGatesRecords DEF TaskCreate
<1>2. ASSUME NEW t \in TaskIds, NEW s \in ManualStatuses, TaskUpdate(t, s) PROVE FALSE
    BY DEF Unmeddled
<1>3. ASSUME NEW t \in TaskIds, GateCreate(t) PROVE Records(db, db')
    BY <1>0, <1>3, CreateGateRecords DEF GateCreate
<1>4. ASSUME NEW g \in GateIds, GateResolve(g) PROVE Records(db, db')
    BY <1>0, <1>4, ResolveGateRecords DEF GateResolve
<1>5. ASSUME NEW scope \in ResetScopes, Reset(scope) PROVE Records(db, db')
  <2>1. db' = resetMessages(db)
      BY <1>5 DEF Unmeddled, Reset
  <2> QED BY <1>0, <2>1, ResetMessagesRows, SameGatesRecords
<1>6. CASE AgentSend
  <2>1. PICK from \in Senders, type \in SentTypes :
           SendLifecycle(from, type) \/ SendAboutTask(from, type)
      BY <1>6 DEF AgentSend
  <2>2. PICK t \in 0..db.nTask, d \in {0} \cup DispatchIds : Send(from, type, t, d)
    <3>1. 1..db.nTask \subseteq 0..db.nTask /\ told \subseteq DispatchIds
        BY DEF TypeOK
    <3> QED BY <2>1, <3>1 DEF SendLifecycle, SendAboutTask
  <2> DEFINE row == NewMessage(from, type, t, d)
             D == insertMessage(db, row)
  <2>3. db' = reconcileLifecycleMessage(D, db.nMsg + 1) /\ db.nMsg + 1 \in MessageIds
      BY <1>0, <2>2, BoundsAssumption DEF Send, Database, MessageIds
  <2>4. row \in MessageRow
    <3>1. /\ from \in Handles /\ type \in MessageTypes /\ t \in {0} \cup TaskIds
          BY <1>0, EnvironmentAssumption, BoundsAssumption DEF Database, TaskIds
    <3> QED BY <3>1, NewMessageType
  <2>5. D \in Database
    <3>1. db.nMsg < MaxMessages
        BY <2>2 DEF Send
    <3> HIDE DEF row
    <3> QED BY <1>0, <2>4, <3>1, InsertMessageWrites DEF Writes
  <2>6. SameGates(db, D)
      BY <1>0, InsertRows
  <2> HIDE DEF D
  <2>7. SameGates(D, db')
    <3>1. D.msg[db.nMsg + 1].disp \in {0} \cup DispatchIds
        BY <2>3, <2>5 DEF Database, MessageRow
    <3> QED BY <2>3, <2>5, <3>1, ReconcileRows
  <2> QED BY <2>6, <2>7, SameGatesRecords DEF SameGates
<1> QED BY <1>1, <1>2, <1>3, <1>4, <1>5, <1>6

LEMMA HandleMessageRecords ==
    ASSUME TypeOK, GateOrder(db), NEW m \in MessageIds, HandleMessage(m)
    PROVE  Records(db, db')
<1>0. db \in Database
    BY DEF TypeOK
<1>1. CASE HandleLifecycle(m)
  <2>1. db' = reconcileLifecycleMessage(db, m) /\ db.msg[m].disp \in {0} \cup DispatchIds
      BY <1>0, <1>1 DEF HandleLifecycle, Database, MessageRow
  <2> QED BY <1>0, <2>1, ReconcileRows, SameGatesRecords
<1>2. CASE HandleEscalation(m)
  <2>1. ASSUME NEW t, NEW d \in DispatchIds, t \in TaskIds,
               IF failDispatch(db, d).disp[d].status = "circuit_broken"
               THEN db' = updateTaskStatus(failDispatch(db, d), t, "failed", m)
               ELSE db' = failDispatch(db, d)
        PROVE  Records(db, db')
    <3> DEFINE E == failDispatch(db, d)
    <3>1. SameGates(db, E) /\ E \in Database
        BY <1>0, FailSameGates
    <3>2. db' = updateTaskStatus(E, t, "failed", m) \/ db' = E
        BY <2>1
    <3> HIDE DEF E
    <3>3. SameGates(E, updateTaskStatus(E, t, "failed", m))
      <4>1. "failed" \in TaskStatuses /\ m \in {0} \cup MessageIds
          BY DEF TaskStatuses
      <4> QED BY <2>1, <3>1, <4>1, UpdateRows DEF SameRest
    <3> QED BY <3>1, <3>2, <3>3, SameGatesRecords DEF SameGates
  <2>2. db' = db => Records(db, db')
      BY SameGatesRecords DEF SameGates
  <2> QED BY <1>2, <2>1, <2>2 DEF HandleEscalation, EscalationFails, TaskExists
<1>3. CASE HandleDecisionGate(m)
  <2>1. CASE db.msg[m].task = 0
      BY <1>3, <2>1, SameGatesRecords DEF HandleDecisionGate, SameGates
  <2>2. CASE db.msg[m].task # 0
    <3>1. db.nGate < MaxGates /\ db' = createGate(db, db.msg[m].task)
        BY <1>3, <2>2 DEF HandleDecisionGate
    <3>2. db.msg[m].task \in TaskIds
        BY <1>0, <2>2 DEF Database, MessageRow
    <3> QED BY <1>0, <3>1, <3>2, CreateGateRecords
  <2> QED BY <2>1, <2>2
<1>4. CASE HandleOther(m)
    BY <1>4, SameGatesRecords DEF HandleOther, SameGates
<1> QED BY <1>1, <1>2, <1>3, <1>4 DEF HandleMessage

LEMMA NextRecords ==
    ASSUME Unmeddled, TypeOK, CallsInProgress, GateOrder(db), Next
    PROVE  Records(db, db')
<1>0. db \in Database
    BY DEF TypeOK
<1> DEFINE Goal == Records(db, db')
<1>1. SameGates(db, db') => Goal
    BY SameGatesRecords
<1> SUFFICES Goal
    OBVIOUS
<1> HIDE DEF Goal
<1>2. CASE RunStop \/ Crash \/ \E types \in CheckFilters : CheckBegin(types)
    BY <1>1, <1>2 DEF CheckBegin, RunStop, Crash, SameGates
<1>3. CASE CheckEnd
    BY <1>0, <1>1, <1>3, MarkAsReadRows DEF CheckEnd
<1>4. CASE Run \/ \E r \in RunIds : Finish(r)
    BY <1>0, <1>1, <1>4
       DEF Run, Finish, createCoordinatorRun, updateCoordinatorRun, Database, SameGates
<1>5. ASSUME NEW r \in RunIds, CoordinatorStep(r), ~Finish(r) PROVE Goal
  <2>1. CASE TickEnd(r)
    <3> DEFINE E == markAsRead(db, turn.batch)
    <3>1. E \in Database /\ SameGates(db, E)
        BY <1>0, MarkAsReadWrites, MarkAsReadRows DEF Writes
    <3>2. db' = restorePendingGateTaskStatuses(E)
        BY <2>1 DEF TickEnd
    <3> HIDE DEF E
    <3> QED BY <1>1, <3>1, <3>2, RestoreRows DEF SameRest, SameGates
  <2>2. CASE DispatchTask(r)
    <3>1. UNCHANGED db \/ \E t, h : Dispatches(t, h, db.nDisp + 1)
        BY <2>2 DEF DispatchTask
    <3>2. ASSUME NEW t, NEW h, Dispatches(t, h, db.nDisp + 1) PROVE SameGates(db, db')
      <4>1. PICK n : db' = createDispatchContext(db, t, h, PaneOf[h], n)
          BY <3>2 DEF Dispatches
      <4>2. t \in TaskIds /\ db.nDisp + 1 \in DispatchIds
          BY <3>2 DEF Dispatches, CanDispatch, TaskExists
      <4> QED BY <1>0, <4>1, <4>2, DispatchRows
    <3> QED BY <1>1, <3>1, <3>2 DEF SameGates
  <2>3. CASE Prompted(r)
    <3>1. UNCHANGED db \/ db' = failDispatch(db, coord[r].disp)
        BY <2>3 DEF Prompted
    <3>2. coord[r].disp \in DispatchIds
        BY <2>3 DEF Prompted, CallsInProgress
    <3> QED BY <1>0, <1>1, <3>1, <3>2, FailSameGates DEF SameGates
  <2>4. CASE LoopTest(r) \/ ListTerminals(r) \/ CreateTerminal(r) \/ AssignNext(r)
             \/ CheckConvergence(r) \/ Wake(r)
      BY <1>1, <2>4 DEF LoopTest, ListTerminals, CreateTerminal, AssignNext, CheckConvergence,
                        Wake, SameGates
  <2> QED BY <1>5, <2>1, <2>2, <2>3, <2>4 DEF CoordinatorStep
<1>6. ASSUME NEW c \in Clients PROVE FALSE
    BY <1>6 DEF Unmeddled
<1>7. ASSUME NEW h \in Handles, TerminalExit(h) PROVE Goal
  <2>1. ASSUME NEW d \in DispatchIds, NEW row,
               db' = insertMessage(failDispatch(db, d), row) \/ db' = failDispatch(db, d)
        PROVE  Goal
    <3> DEFINE E == failDispatch(db, d)
    <3>1. SameGates(db, E) /\ E \in Database /\ (db' = insertMessage(E, row) \/ db' = E)
        BY <1>0, <2>1, FailSameGates
    <3> HIDE DEF E
    <3> QED BY <1>1, <3>1, InsertRows DEF SameGates
  <2>2. db' = db => Goal
      BY <1>1 DEF SameGates
  <2> QED BY <1>7, <2>1, <2>2 DEF TerminalExit
<1>8. ASSUME NEW m \in MessageIds, HandleMessage(m) PROVE Goal
    BY <1>8, HandleMessageRecords DEF Goal
<1>9. CASE \/ \E deps \in DepChoices : TaskCreate(deps)
           \/ \E t \in TaskIds, s \in ManualStatuses : TaskUpdate(t, s)
           \/ \E t \in TaskIds : GateCreate(t)
           \/ \E g \in GateIds : GateResolve(g)
           \/ \E scope \in ResetScopes : Reset(scope)
           \/ AgentSend
    BY <1>9, HandlersRecord DEF Goal
<1> QED BY <1>2, <1>3, <1>4, <1>5, <1>6, <1>7, <1>8, <1>9 DEF Next, Goal
-----------------------------------------------------------------------------
(* The theorems.                                                           *)

\* GateInv holds until some task has been asked for a second gate.
LoneGateInv == TypeOK /\ CallsInProgress /\ GateOrder(db) /\ (OneGateEach => GateInv)

LEMMA NextLoneGate ==
    ASSUME Unmeddled, LoneGateInv, [Next]_vars
    PROVE  LoneGateInv'
<1>1. CASE Next
  <2>1. TypeOK' /\ CallsInProgress' /\ GateOrder(db') /\ (OneGateIn(db') => OneGateIn(db))
      BY <1>1, NextKeepsTypes, NextRecords DEF LoneGateInv, Records
  <2>2. ASSUME OneGateIn(db') PROVE GateInv'
      BY <1>1, <2>1, <2>2, NextGate DEF LoneGateInv, OneGateEach
  <2> QED BY <2>1, <2>2 DEF LoneGateInv, OneGateEach
<1>2. CASE UNCHANGED vars
  <2>1. TypeOK' /\ CallsInProgress'
      BY <1>2, StutterKeeps DEF LoneGateInv
  <2>2. GateInv => GateInv'
      BY <1>2, <2>1 DEF GateInv, vars, Coordinated, Watched
  <2> QED BY <1>2, <2>1, <2>2 DEF LoneGateInv, OneGateEach, vars
<1> QED BY <1>1, <1>2

LEMMA LoneGateInvHolds == Unmeddled => (Spec => []LoneGateInv)
<1> SUFFICES ASSUME Unmeddled PROVE Spec => []LoneGateInv
    OBVIOUS
<1>1. Init => LoneGateInv
  <2>1. GateOrder(EmptyDb)
      BY DEF GateOrder, EmptyDb
  <2> QED BY <2>1, InitGate DEF LoneGateInv, GateInv, Init
<1>2. LoneGateInv /\ [Next]_vars => LoneGateInv'
    BY NextLoneGate
<1> QED BY <1>1, <1>2, PTL DEF Spec

\* Until some task has been asked for a second gate, no task with an open gate
\* is dispatched: not by the list of ready tasks that a tick took before its
\* awaits, not after a prompt that failed, an exit or an escalation has put the
\* task back, and not across crashes and later runs.
THEOREM GateHoldsTask == Unmeddled => (Spec => [](OneGateEach => GateBlocks))
<1> SUFFICES ASSUME Unmeddled PROVE Spec => [](OneGateEach => GateBlocks)
    OBVIOUS
<1>1. ASSUME LoneGateInv PROVE OneGateEach => GateBlocks
  <2>1. ASSUME OneGateEach, NEW t \in TaskIds, HasPendingGate(db, t)
        PROVE  db.task[t].status # "dispatched"
    <3>1. Sheltered(db, t) /\ ~Settled(db, t)
        BY <1>1, <2>1, PendingIsNotSettled DEF LoneGateInv, GateInv, Gated, OneGateEach
    <3> QED BY <2>1, <3>1 DEF Sheltered, Held
  <2> QED BY <2>1 DEF GateBlocks
<1> QED BY <1>1, LoneGateInvHolds, PTL

\* So on a board with room for one gate an open gate always blocks its task.
THEOREM OneGateBlocks == Unmeddled /\ MaxGates = 1 => (Spec => []GateBlocks)
<1> SUFFICES ASSUME Unmeddled, MaxGates = 1 PROVE Spec => []GateBlocks
    OBVIOUS
<1>1. OneGateEach
    BY DEF OneGateEach, OneGateIn, GateIds
<1> QED BY <1>1, GateHoldsTask, PTL
=============================================================================
