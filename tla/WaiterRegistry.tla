--------------------------- MODULE WaiterRegistry ---------------------------
(***************************************************************************)
(* The bounded registry of long-poll waiters                               *)
(* (orchestration-message-waiter-registry.ts), as operators on a record:   *)
(* the waiters of each handle's bucket, waiterCount and                    *)
(* retainedHandleBytes, which the code keeps up to date incrementally.  A  *)
(* bucket is in the map exactly while it has waiters.  A waiter is named   *)
(* by the call that waits.                                                 *)
(***************************************************************************)
EXTENDS Integers, FiniteSets, FiniteSetsExt

CONSTANTS
    Handles,                \* terminal handles
    Calls,                  \* concurrent long-poll calls
    NoFilter,               \* a wait without a type filter
    HandleBytes,            \* the UTF-8 length of a handle
    maxWaiters, maxWaitersPerHandle, maxHandleBytes, maxRetainedHandleBytes

ASSUME RegistryAssumption ==
    /\ IsFiniteSet(Handles) /\ IsFiniteSet(Calls)
    /\ HandleBytes \in [Handles -> Nat]
    /\ maxWaiters \in Nat \ {0} /\ maxWaitersPerHandle \in Nat \ {0}
    /\ maxHandleBytes \in Nat \ {0} /\ maxRetainedHandleBytes \in Nat \ {0}

Registry == [waiters : [Handles -> SUBSET Calls], waiterCount : Nat, retainedHandleBytes : Nat]

EmptyRegistry ==
    [waiters |-> [h \in Handles |-> {}], waiterCount |-> 0, retainedHandleBytes |-> 0]

\* Mutant: a new handle is measured against the whole budget.
admits_WholeBudget(reg, h) ==
    /\ reg.waiterCount < maxWaiters
    /\ IF reg.waiters[h] # {}
       THEN Cardinality(reg.waiters[h]) < maxWaitersPerHandle
       ELSE HandleBytes[h] <= maxHandleBytes /\ HandleBytes[h] <= maxRetainedHandleBytes

\* admit() does not throw.
admits(reg, h) ==
    /\ reg.waiterCount < maxWaiters
    /\ IF reg.waiters[h] # {}
       THEN Cardinality(reg.waiters[h]) < maxWaitersPerHandle
       ELSE /\ HandleBytes[h] <= maxHandleBytes
            /\ HandleBytes[h] <= maxRetainedHandleBytes - reg.retainedHandleBytes

\* Mutant: the waiter is not counted.
retain_Uncounted(reg, h, c) ==
    [reg EXCEPT !.waiters[h] = @ \cup {c},
                !.retainedHandleBytes = IF reg.waiters[h] = {} THEN @ + HandleBytes[h] ELSE @]

retain(reg, h, c) ==
    [reg EXCEPT !.waiters[h] = @ \cup {c},
                !.waiterCount = @ + 1,
                !.retainedHandleBytes = IF reg.waiters[h] = {} THEN @ + HandleBytes[h] ELSE @]

BytesOf(handles) == MapThenSumSet(LAMBDA h : HandleBytes[h], handles)

Emptied(reg, calls) == {h \in Handles : reg.waiters[h] # {} /\ reg.waiters[h] \subseteq calls}

\* settle() of each of the calls that is still registered; for the others it
\* does nothing.
settle(reg, calls) ==
    [reg EXCEPT !.waiters = [h \in Handles |-> reg.waiters[h] \ calls],
                !.waiterCount = @ - Cardinality(calls \cap UNION {reg.waiters[h] : h \in Handles}),
                !.retainedHandleBytes = @ - BytesOf(Emptied(reg, calls))]

\* The waiter's side of a type filter: an empty list of types is a filter.
wakes(filter, type) == filter = NoFilter \/ type \in filter
=============================================================================
