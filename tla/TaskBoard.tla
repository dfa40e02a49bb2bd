------------------------------ MODULE TaskBoard ------------------------------
(***************************************************************************)
(* What orchestration promises the author of a DAG of tasks, without       *)
(* databases, messages, terminals or loops: a board of tasks that workers  *)
(* take, finish or are struck out of.                                      *)
(***************************************************************************)
EXTENDS Naturals

CONSTANTS Tasks, Workers,
          Strikes      \* how many failed attempts a task is given

VARIABLES
    stage,     \* for each task: none, waiting, open, taken, done or dropped
    deps,      \* the tasks it waits for
    by,        \* who has it: nobody or one worker
    failures   \* the failures counted against it

board == <<stage, deps, by, failures>>

Init ==
    /\ stage = [t \in Tasks |-> "none"]
    /\ deps = [t \in Tasks |-> {}]
    /\ by = [t \in Tasks |-> {}]
    /\ failures = [t \in Tasks |-> 0]

\* A task is put up; it waits if it depends on any.
Post(t) ==
    /\ stage[t] = "none"
    /\ \E ds \in SUBSET {d \in Tasks : stage[d] # "none"} :
          /\ stage' = [stage EXCEPT ![t] = IF ds = {} THEN "open" ELSE "waiting"]
          /\ deps' = [deps EXCEPT ![t] = ds]
    /\ UNCHANGED <<by, failures>>

\* A worker that has no task takes an open one.
Take(t) ==
    /\ stage[t] = "open"
    /\ stage' = [stage EXCEPT ![t] = "taken"]
    /\ \E w \in Workers :
          /\ \A u \in Tasks : w \notin by[u]
          /\ by' = [by EXCEPT ![t] = {w}]
    /\ UNCHANGED <<deps, failures>>

\* The task is done, and the tasks that only waited for it are open.
Finish(t) ==
    /\ stage[t] = "taken"
    /\ stage' = [u \in Tasks |->
          CASE u = t -> "done"
            [] /\ stage[u] = "waiting" /\ t \in deps[u]
               /\ \A d \in deps[u] : d = t \/ stage[d] = "done" -> "open"
            [] OTHER -> stage[u]]
    /\ by' = [by EXCEPT ![t] = {}]
    /\ UNCHANGED <<deps, failures>>

\* A failure of the task's worker is counted, once more perhaps after it was
\* taken off the task; the last one drops the task.
Strike(t) ==
    /\ stage[t] = "taken" \/ (stage[t] = "open" /\ failures[t] > 0)
    /\ failures' = [failures EXCEPT ![t] = @ + 1]
    /\ stage' = [stage EXCEPT ![t] = IF failures[t] + 1 = Strikes THEN "dropped" ELSE "open"]
    /\ by' = [by EXCEPT ![t] = {}]
    /\ UNCHANGED deps

Next == \E t \in Tasks : Post(t) \/ Take(t) \/ Finish(t) \/ Strike(t)

Spec == Init /\ [][Next]_board
=============================================================================
