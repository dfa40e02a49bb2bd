--------------------------- MODULE Orchestration ---------------------------
(***************************************************************************)
(* The orchestration subsystem of the Orca runtime as one system: the      *)
(* coordinator's polling loop (coordinator.ts), the orchestration.* RPC    *)
(* handlers (rpc/methods/orchestration.ts, orchestration-gates.ts), the    *)
(* runtime's reaction to an agent's exit (orca-runtime.ts) and the agents, *)
(* over the tables of OrchestrationDb.                                     *)
(*                                                                         *)
(* Everything runs in one JavaScript process: code between two awaits is   *)
(* atomic, and at every await the other actors may run.  A loop over       *)
(* messages is synchronous but is modelled one message per step; while it  *)
(* is in progress (turn.by # "free") no other actor takes a step, but the  *)
(* process may crash.                                                      *)
(***************************************************************************)
EXTENDS OrchestrationDb

CONSTANTS
    Coord,           \* the coordinator's terminal handle
    PaneOf,          \* the pane key the runtime knows for a handle, or NoPane
    InitialTerminals,\* the terminals that exist at the start
    MaxConcurrent,   \* orchestration.run --max-concurrent
    DepChoices,      \* the dependency sets that task-create may be called with
    SentTypes,       \* the message types agents send
    Senders,         \* the handles they send from
    CheckFilters,    \* the type filters orchestration.check is called with
    ManualStatuses,  \* the statuses task-update may be called with
    Clients,         \* callers of orchestration.dispatch that run concurrently
    ResetScopes,     \* the scopes reset may be called with
    PromptOutcomes,  \* how sendTerminalAgentPrompt may end on a live terminal
    DriftOutcomes,   \* what the worktree drift probe may find
    TerminalFaults,  \* whether listing and creating terminals may fail
    MaxExits,        \* bound on terminal exits
    MaxCrashes       \* bound on crashes of the runtime

ASSUME EnvironmentAssumption ==
    /\ Coord \in Handles
    /\ PaneOf \in [Handles -> Panes \cup {NoPane}]
    /\ InitialTerminals \subseteq Handles
    /\ MaxConcurrent \in Nat
    /\ DepChoices \subseteq SUBSET TaskIds
    /\ SentTypes \subseteq MessageTypes
    /\ Senders \subseteq Handles
    /\ CheckFilters \subseteq SUBSET MessageTypes
    /\ ManualStatuses \subseteq TaskStatuses
    /\ ResetScopes \subseteq {"tasks", "messages", "all"}
    /\ PromptOutcomes \subseteq {"ok", "error"}
    /\ DriftOutcomes \subseteq {"fresh", "stale"}
    /\ TerminalFaults \in BOOLEAN
    /\ MaxExits \in Nat /\ MaxCrashes \in Nat

VARIABLES
    db,       \* the SQLite database
    turn,     \* the message loop in progress, if any
    coord,    \* for each run, the Coordinator object that drives it
    active,   \* activeCoordinator: the run runStop would stop, or 0
    rpc,      \* for each client, its orchestration.dispatch call
    term,     \* the terminals
    told,     \* dispatches whose preamble has reached an agent
    exits, crashes

vars == <<db, turn, coord, active, rpc, term, told, exits, crashes>>

FreeTurn == [by |-> "free", run |-> 0, todo |-> {}, batch |-> {}]

NewCoordinator ==
    [pc |-> "none", stopped |-> FALSE, ready |-> {}, slots |-> 0, terminals |-> {},
     task |-> 0, handle |-> Coord, disp |-> 0, failedTasks |-> {}]

\* dispatchReadyTasks returns: its local variables are gone.
Leave(c) == [NewCoordinator EXCEPT !.pc = "converging", !.stopped = c.stopped,
                                   !.failedTasks = c.failedTasks]

\* dispatchTask returns to the for loop.
Return(c) == [c EXCEPT !.pc = "assigning", !.task = 0, !.handle = Coord, !.disp = 0]

IdleCall == [pc |-> "idle", task |-> 0, handle |-> Coord, disp |-> 0]

Init ==
    /\ db = EmptyDb
    /\ turn = FreeTurn
    /\ coord = [r \in RunIds |-> NewCoordinator]
    /\ active = 0
    /\ rpc = [c \in Clients |-> IdleCall]
    /\ term = [h \in Handles |-> IF h \in InitialTerminals THEN "live" ELSE "none"]
    /\ told = {}
    /\ exits = 0
    /\ crashes = 0

Free == turn.by = "free"

-----------------------------------------------------------------------------
(* orchestration.* handlers that are one synchronous step.                 *)

\* A caller can only name dependencies whose ids it was given before.
TaskCreate(deps) ==
    /\ Free
    /\ db.nTask < MaxTasks
    /\ deps \subseteq 1..db.nTask
    /\ db' = createTask(db, deps)
    /\ UNCHANGED <<turn, coord, active, rpc, term, told, exits, crashes>>

TaskUpdate(t, status) ==
    /\ Free
    /\ TaskExists(db, t)
    /\ db' = updateTaskStatus(db, t, status, 0)
    /\ UNCHANGED <<turn, coord, active, rpc, term, told, exits, crashes>>

\* Gates that unread decision_gate messages will still create.
GatesUnderWay ==
    {m \in UnreadMessages(db) : db.msg[m].type = "decision_gate" /\ db.msg[m].task # 0}

MayCreateGate == db.nGate + Cardinality(GatesUnderWay) < MaxGates

GateCreate(t) ==
    /\ Free
    /\ t \in 1..db.nTask
    /\ db.nGate < MaxGates
    /\ MayCreateGate
    /\ db' = createGate(db, t)
    /\ UNCHANGED <<turn, coord, active, rpc, term, told, exits, crashes>>

GateResolve(g) ==
    /\ Free
    /\ db.gate[g].status # "none"
    /\ db' = resolveGate(db, g)
    /\ UNCHANGED <<turn, coord, active, rpc, term, told, exits, crashes>>

Reset(scope) ==
    /\ Free
    /\ db' = CASE scope = "tasks"    -> resetTasks(db)
               [] scope = "messages" -> resetMessages(db)
               [] scope = "all"      -> resetAll(db)
    /\ UNCHANGED <<turn, coord, active, rpc, term, told, exits, crashes>>

NewMessage(from, type, t, d) ==
    [stored |-> TRUE, from |-> from, pane |-> PaneOf[from], type |-> type,
     task |-> t, disp |-> d, read |-> FALSE, rejected |-> FALSE]

\* orchestration.send to the coordinator.  A lifecycle message is reconciled
\* before the recipient is woken.
Send(from, type, t, d) ==
    /\ Free
    /\ term[from] = "live"
    /\ db.nMsg < MaxMessages
    /\ type = "decision_gate" /\ t # 0 => MayCreateGate
    /\ db' = reconcileLifecycleMessage(insertMessage(db, NewMessage(from, type, t, d)),
                                       db.nMsg + 1)
    /\ UNCHANGED <<turn, coord, active, rpc, term, told, exits, crashes>>

\* A worker reports on a dispatch it was told of; the task id in its payload
\* is free text and may be another task's.
SendLifecycle(from, type) ==
    \E d \in told, t \in 1..db.nTask : Send(from, type, t, d)

SendAboutTask(from, type) == \E t \in 0..db.nTask : Send(from, type, t, 0)

AgentSend ==
    \E from \in Senders, type \in SentTypes :
        IF type \in {"worker_done", "heartbeat"}
        THEN SendLifecycle(from, type)
        ELSE SendAboutTask(from, type)

\* orchestration.check without --peek or --all: the start of its read loop.
CheckBegin(types) ==
    LET unread == {m \in UnreadMessages(db) : db.msg[m].type \in types}
    IN  /\ Free
        /\ unread # {}
        /\ turn' = [by |-> "check", run |-> 0, todo |-> unread, batch |-> unread]
        /\ UNCHANGED <<db, coord, active, rpc, term, told, exits, crashes>>

CheckEnd ==
    /\ turn.by = "check" /\ turn.todo = {}
    /\ db' = markAsRead(db, turn.batch)
    /\ turn' = FreeTurn
    /\ UNCHANGED <<coord, active, rpc, term, told, exits, crashes>>

-----------------------------------------------------------------------------
(* orchestration.run and run-stop.  decompose() reads the task count before *)
(* its first await, in the same turn as run.                               *)

Run ==
    LET r == db.nRun + 1
    IN  /\ Free
        /\ r \in RunIds
        /\ ~HasActiveRun(db)
        /\ db' = createCoordinatorRun(db)
        /\ coord' = [coord EXCEPT ![r].pc =
                        IF \E t \in TaskIds : TaskExists(db, t) THEN "tick" ELSE "failing"]
        /\ active' = r
        /\ UNCHANGED <<turn, rpc, term, told, exits, crashes>>

RunStop ==
    /\ Free
    /\ HasActiveRun(db)
    /\ active # 0
    /\ coord' = [coord EXCEPT ![active].stopped = TRUE]
    /\ active' = 0
    /\ UNCHANGED <<db, turn, rpc, term, told, exits, crashes>>

-----------------------------------------------------------------------------
(* The coordinator's loop.                                                 *)

\* Mutant: the loop does not look at the flag.
ShouldStop_Never(c) == FALSE

ShouldStop(c) == c.stopped

\* while (!this.stopped): leave the loop, or start tick() by reading the mail.
LoopTest(r) ==
    /\ Free
    /\ coord[r].pc = "tick"
    /\ IF ShouldStop(coord[r])
       THEN /\ coord' = [coord EXCEPT ![r].pc = "finishing"]
            /\ UNCHANGED turn
       ELSE /\ turn' = [by |-> "tick", run |-> r,
                        todo |-> UnreadMessages(db), batch |-> UnreadMessages(db)]
            /\ UNCHANGED coord
    /\ UNCHANGED <<db, active, rpc, term, told, exits, crashes>>

IsNext(m) == m \in turn.todo /\ \A k \in turn.todo : m <= k

\* worker_done and heartbeat, for both readers.
HandleLifecycle(m) ==
    /\ IsNext(m)
    /\ db.msg[m].type \in {"worker_done", "heartbeat"}
    /\ db' = reconcileLifecycleMessage(db, m)
    /\ UNCHANGED coord

\* Mutant: finished tasks are not exempt.
EscalationFails_Finished(t, d) == TaskExists(db, t) /\ IsLatestDispatch(db, t, d)

\* An escalation fails the task's newest dispatch, active or not.
EscalationFails(t, d) ==
    /\ TaskExists(db, t)
    /\ db.task[t].status \notin {"completed", "failed"}
    /\ IsLatestDispatch(db, t, d)

HandleEscalation(m) ==
    LET t == db.msg[m].task
    IN  /\ IsNext(m)
        /\ turn.by = "tick"
        /\ db.msg[m].type = "escalation"
        /\ \/ /\ \A d \in DispatchIds : ~EscalationFails(t, d)
              /\ UNCHANGED <<db, coord>>
           \/ \E d \in DispatchIds :
                /\ EscalationFails(t, d)
                /\ LET failed == failDispatch(db, d)
                   IN  IF failed.disp[d].status = "circuit_broken"
                       THEN /\ db' = updateTaskStatus(failed, t, "failed", m)
                            /\ coord' = [coord EXCEPT ![turn.run].failedTasks = @ \cup {t}]
                       ELSE /\ db' = failed
                            /\ UNCHANGED coord

HandleDecisionGate(m) ==
    /\ IsNext(m)
    /\ turn.by = "tick"
    /\ db.msg[m].type = "decision_gate"
    /\ IF db.msg[m].task = 0
       THEN UNCHANGED db
       ELSE /\ db.nGate < MaxGates
            /\ db' = createGate(db, db.msg[m].task)
    /\ UNCHANGED coord

\* A message the reader only shows: status mail, and anything but a lifecycle
\* message when the reader is orchestration.check.
HandleOther(m) ==
    /\ IsNext(m)
    /\ \/ db.msg[m].type = "status"
       \/ turn.by = "check" /\ db.msg[m].type \in {"escalation", "decision_gate"}
    /\ UNCHANGED <<db, coord>>

HandleMessage(m) ==
    /\ ~Free
    /\ \/ HandleLifecycle(m)
       \/ HandleEscalation(m)
       \/ HandleDecisionGate(m)
       \/ HandleOther(m)
    /\ turn' = [turn EXCEPT !.todo = @ \ {m}]
    /\ UNCHANGED <<active, rpc, term, told, exits, crashes>>

\* Mutant: tasks dispatched by earlier ticks take no slot.
slotsAvailable_PerTick(database) == MaxConcurrent

slotsAvailable(database) == MaxConcurrent - Cardinality(TasksIn(database, "dispatched"))

\* The rest of tick() up to its first real await: mark the mail read, put
\* gated tasks back to blocked, take the list of ready tasks and the slots.
TickEnd(r) ==
    LET settled == restorePendingGateTaskStatuses(markAsRead(db, turn.batch))
        ready   == TasksIn(settled, "ready")
        slots   == slotsAvailable(settled)
    IN  /\ turn.by = "tick" /\ turn.run = r /\ turn.todo = {}
        /\ db' = settled
        /\ turn' = FreeTurn
        /\ coord' = [coord EXCEPT ![r] =
                        IF ready = {} \/ slots <= 0 THEN Leave(@)
                        ELSE [@ EXCEPT !.pc = "listing", !.ready = ready, !.slots = slots]]
        /\ UNCHANGED <<active, rpc, term, told, exits, crashes>>

\* getAvailableTerminals: the listing may fail, which counts as an empty list.
ListTerminals(r) ==
    LET free == {h \in Handles \ {Coord} :
                    /\ term[h] = "live"
                    /\ ~\E d \in ActiveDispatches(db) : db.disp[d].handle = h}
    IN  /\ Free
        /\ coord[r].pc = "listing"
        /\ \E terminals \in {free} \cup {t \in {{}} : TerminalFaults} :
              coord' = [coord EXCEPT ![r].terminals = terminals,
                           ![r].pc = IF terminals = {} THEN "creating" ELSE "assigning"]
        /\ UNCHANGED <<db, turn, active, rpc, term, told, exits, crashes>>

\* At most one terminal is created per tick; a failure ends the dispatching.
CreateTerminal(r) ==
    /\ Free
    /\ coord[r].pc = "creating"
    /\ \/ \E h \in Handles \ {Coord} :
             /\ term[h] = "none"
             /\ term' = [term EXCEPT ![h] = "live"]
             /\ coord' = [coord EXCEPT ![r].terminals = {h}, ![r].pc = "assigning"]
       \/ /\ TerminalFaults \/ \A h \in Handles \ {Coord} : term[h] # "none"
          /\ coord' = [coord EXCEPT ![r] = Leave(@)]
          /\ UNCHANGED term
    /\ UNCHANGED <<db, turn, active, rpc, told, exits, crashes>>

\* The head of the for loop over the ready tasks taken at the tick's start.
AssignNext(r) ==
    LET c == coord[r]
    IN  /\ Free
        /\ c.pc = "assigning"
        /\ IF c.ready = {} \/ c.slots <= 0 \/ c.terminals = {}
           THEN coord' = [coord EXCEPT ![r] = Leave(c)]
           ELSE \E t \in c.ready, h \in c.terminals :
                   /\ \A u \in c.ready : t <= u
                   /\ coord' = [coord EXCEPT ![r] =
                                  [c EXCEPT !.ready = @ \ {t}, !.slots = @ - 1,
                                            !.terminals = @ \ {h},
                                            !.task = t, !.handle = h, !.pc = "probing"]]
        /\ UNCHANGED <<db, turn, active, rpc, term, told, exits, crashes>>

\* createDispatchContext succeeds for some caller with the row d.
Dispatches(t, h, d) ==
    /\ d = db.nDisp + 1
    /\ d \in DispatchIds
    /\ CanDispatch(db, t, h, PaneOf[h])
    /\ \E n \in FailureCounts(db) :
          /\ IsPriorFailures(db, t, n)
          /\ db' = createDispatchContext(db, t, h, PaneOf[h], n)

\* dispatchTask after the drift probe.  A stale base and an exception from
\* createDispatchContext both skip the task.
DispatchTask(r) ==
    LET t == coord[r].task
        h == coord[r].handle
        d == db.nDisp + 1
    IN  /\ Free
        /\ coord[r].pc = "probing"
        /\ \/ /\ "stale" \in DriftOutcomes \/ ~CanDispatch(db, t, h, PaneOf[h])
              /\ coord' = [coord EXCEPT ![r] = Return(@)]
              /\ UNCHANGED db
           \/ /\ "fresh" \in DriftOutcomes
              /\ Dispatches(t, h, d)
              /\ coord' = [coord EXCEPT ![r].disp = d, ![r].pc = "prompting"]
        /\ UNCHANGED <<turn, active, rpc, term, told, exits, crashes>>

\* sendTerminalAgentPrompt rejects: always possible on a terminal that is gone.
PromptMayFail(h) == term[h] # "live" \/ "error" \in PromptOutcomes

\* The prompt was submitted, or the dispatch is failed without looking at
\* what happened to it since.
Prompted(r) ==
    LET d    == coord[r].disp
        back == Return(coord[r])
    IN  /\ Free
        /\ coord[r].pc = "prompting"
        /\ \/ /\ term[coord[r].handle] = "live"
              /\ told' = told \cup {d}
              /\ coord' = [coord EXCEPT ![r] = back]
              /\ UNCHANGED db
           \/ /\ PromptMayFail(coord[r].handle)
              /\ db' = failDispatch(db, d)
              /\ coord' = [coord EXCEPT ![r] =
                              IF db'.disp[d].status = "circuit_broken"
                              THEN [back EXCEPT !.failedTasks = @ \cup {coord[r].task}]
                              ELSE back]
              /\ UNCHANGED told
        /\ UNCHANGED <<turn, active, rpc, term, exits, crashes>>

CheckConvergence(r) ==
    /\ Free
    /\ coord[r].pc = "converging"
    /\ coord' = [coord EXCEPT ![r].pc = IF AllTasksDone(db) THEN "finishing" ELSE "sleeping"]
    /\ UNCHANGED <<db, turn, active, rpc, term, told, exits, crashes>>

Wake(r) ==
    /\ Free
    /\ coord[r].pc = "sleeping"
    /\ coord' = [coord EXCEPT ![r].pc = "tick"]
    /\ UNCHANGED <<db, turn, active, rpc, term, told, exits, crashes>>

\* The run's final status, and the finally clause of orchestration.run.
Finish(r) ==
    LET clean == /\ coord[r].pc = "finishing"
                 /\ ~coord[r].stopped
                 /\ coord[r].failedTasks \cup TasksIn(db, "failed") = {}
                 /\ AllTasksDone(db)
    IN  /\ Free
        /\ coord[r].pc \in {"finishing", "failing"}
        /\ db' = updateCoordinatorRun(db, r, IF clean THEN "completed" ELSE "failed")
        /\ coord' = [coord EXCEPT ![r].pc = "done"]
        /\ active' = IF active = r THEN 0 ELSE active
        /\ UNCHANGED <<turn, rpc, term, told, exits, crashes>>

CoordinatorStep(r) ==
    \/ LoopTest(r) \/ TickEnd(r) \/ ListTerminals(r) \/ CreateTerminal(r)
    \/ AssignNext(r) \/ DispatchTask(r) \/ Prompted(r)
    \/ CheckConvergence(r) \/ Wake(r) \/ Finish(r)

-----------------------------------------------------------------------------
(* orchestration.dispatch, with and without --inject.                      *)

DispatchRequest(c, t, h) ==
    /\ Free
    /\ rpc[c].pc = "idle"
    /\ TaskExists(db, t) /\ db.task[t].status = "ready"
    /\ rpc' = [rpc EXCEPT ![c] = [pc |-> "checking", task |-> t, handle |-> h, disp |-> 0]]
    /\ UNCHANGED <<db, turn, coord, active, term, told, exits, crashes>>

\* Without --inject there is no await: the row is returned to the caller.
DispatchUninjected(c, t, h) ==
    /\ Free
    /\ rpc[c].pc = "idle"
    /\ Dispatches(t, h, db.nDisp + 1)
    /\ told' = told \cup {db.nDisp + 1}
    /\ UNCHANGED <<turn, coord, active, rpc, term, exits, crashes>>

\* isTerminalRunningAgent has answered; createDispatchContext checks again.
\* The call is rejected if no agent was detected or either check fails.
DispatchChecked(c) ==
    LET call == rpc[c]
        d    == db.nDisp + 1
    IN  /\ Free
        /\ call.pc = "checking"
        /\ \/ /\ rpc' = [rpc EXCEPT ![c] = IdleCall]
              /\ UNCHANGED db
           \/ /\ term[call.handle] = "live"
              /\ Dispatches(call.task, call.handle, d)
              /\ rpc' = [rpc EXCEPT ![c].disp = d, ![c].pc = "prompting"]
        /\ UNCHANGED <<turn, coord, active, term, told, exits, crashes>>

DispatchPrompted(c) ==
    LET call == rpc[c]
    IN  /\ Free
        /\ call.pc = "prompting"
        /\ \/ /\ term[call.handle] = "live"
              /\ told' = told \cup {call.disp}
              /\ UNCHANGED db
           \/ /\ PromptMayFail(call.handle)
              /\ db' = failDispatch(db, call.disp)
              /\ UNCHANGED told
        /\ rpc' = [rpc EXCEPT ![c] = IdleCall]
        /\ UNCHANGED <<turn, coord, active, term, exits, crashes>>

DispatchCall(c) ==
    \/ \E t \in TaskIds, h \in Handles : DispatchRequest(c, t, h) \/ DispatchUninjected(c, t, h)
    \/ DispatchChecked(c)
    \/ DispatchPrompted(c)

-----------------------------------------------------------------------------
(* The runtime.                                                            *)

\* failActiveDispatchOnExit: the active dispatch of the handle is failed, and
\* if a run is active the coordinator is also sent an escalation.
TerminalExit(h) ==
    /\ Free
    /\ term[h] = "live"
    /\ exits < MaxExits
    /\ exits' = exits + 1
    /\ term' = [term EXCEPT ![h] = "dead"]
    /\ LET held(d) == d \in ActiveDispatches(db) /\ db.disp[d].handle = h
       IN  \/ /\ \A d \in DispatchIds : ~held(d)
              /\ UNCHANGED db
           \/ \E d \in DispatchIds :
                /\ held(d)
                /\ LET failed == failDispatch(db, d)
                   IN  IF HasActiveRun(db)
                       THEN /\ db.nMsg < MaxMessages
                            /\ db' = insertMessage(failed,
                                        [NewMessage(h, "escalation", db.disp[d].task, 0)
                                            EXCEPT !.pane = NoPane])
                       ELSE db' = failed
    /\ UNCHANGED <<turn, coord, active, rpc, told, crashes>>

\* The process dies, possibly inside a message loop, and is started again:
\* the database and the terminals (which the daemon owns) survive, Coordinator
\* objects, pending calls and activeCoordinator do not.
Crash ==
    /\ crashes < MaxCrashes
    /\ crashes' = crashes + 1
    /\ turn' = FreeTurn
    /\ coord' = [r \in RunIds |-> IF coord[r].pc = "none" THEN coord[r]
                                  ELSE [NewCoordinator EXCEPT !.pc = "done"]]
    /\ active' = 0
    /\ rpc' = [c \in Clients |-> IdleCall]
    /\ UNCHANGED <<db, term, told, exits>>

-----------------------------------------------------------------------------
Next ==
    \/ \E deps \in DepChoices : TaskCreate(deps)
    \/ \E t \in TaskIds, s \in ManualStatuses : TaskUpdate(t, s)
    \/ \E t \in TaskIds : GateCreate(t)
    \/ \E g \in GateIds : GateResolve(g)
    \/ \E scope \in ResetScopes : Reset(scope)
    \/ AgentSend
    \/ \E types \in CheckFilters : CheckBegin(types)
    \/ CheckEnd
    \/ Run
    \/ RunStop
    \/ \E m \in MessageIds : HandleMessage(m)
    \/ \E r \in RunIds : CoordinatorStep(r)
    \/ \E c \in Clients : DispatchCall(c)
    \/ \E h \in Handles : TerminalExit(h)
    \/ Crash

Spec == Init /\ [][Next]_vars

(***************************************************************************)
(* Fairness.  The loop's awaits are promises that settle and a timer, so a *)
(* coordinator that can take a step eventually does, and a synchronous     *)
(* loop over messages runs to its end.  WorkersReport is an assumption on  *)
(* the agents: the assignee of a running dispatch that was told of it      *)
(* eventually reports that it is done.  It is strong because a request     *)
(* that arrives while a turn is in progress is served after that turn.     *)
(***************************************************************************)
WorkerDone(d) ==
    /\ d \in told
    /\ db.disp[d].status = "dispatched"
    /\ Send(db.disp[d].handle, "worker_done", db.disp[d].task, d)

LoopFairness ==
    /\ \A r \in RunIds : WF_vars(CoordinatorStep(r))
    /\ WF_vars(\E m \in MessageIds : HandleMessage(m))
    /\ WF_vars(CheckEnd)

WorkersReport == \A d \in DispatchIds : SF_vars(WorkerDone(d))

\* Not every prompt fails, and not every task is found stale, for ever.
FaultsEnd == \A r \in RunIds : SF_vars(DispatchTask(r) /\ coord'[r].pc = "prompting")

LoopSpec == Spec /\ LoopFairness

-----------------------------------------------------------------------------
(* Properties.                                                             *)

CoordinatorPcs == {"none", "failing", "tick", "listing", "creating", "assigning", "probing",
                   "prompting", "converging", "sleeping", "finishing", "done"}

Turn == [by : {"free", "tick", "check"}, run : {0} \cup RunIds,
         todo : SUBSET MessageIds, batch : SUBSET MessageIds]
Coordinator == [pc : CoordinatorPcs, stopped : BOOLEAN, ready : SUBSET TaskIds, slots : Int,
                terminals : SUBSET Handles, task : {0} \cup TaskIds, handle : Handles,
                disp : {0} \cup DispatchIds, failedTasks : SUBSET TaskIds]
DispatchCallState == [pc : {"idle", "checking", "prompting"}, task : {0} \cup TaskIds,
                      handle : Handles, disp : {0} \cup DispatchIds]

\* Type invariant: the tables, the Coordinator objects and the pending calls
\* keep their shapes.
TypeOK ==
    /\ db \in Database
    /\ turn \in Turn
    /\ coord \in [RunIds -> Coordinator]
    /\ active \in {0} \cup RunIds
    /\ rpc \in [Clients -> DispatchCallState]
    /\ term \in [Handles -> {"none", "live", "dead"}]
    /\ told \in SUBSET DispatchIds
    /\ exits \in 0..MaxExits
    /\ crashes \in 0..MaxCrashes

\* The dispatch lock of createDispatchContext: whatever the interleaving of
\* coordinators, manual dispatches, overrides and failures, no terminal has two
\* active dispatches, neither under one handle nor through a re-issued handle
\* or a moved tab of the same pane.
DispatchLock ==
    \A d, e \in ActiveDispatches(db) : d # e =>
        /\ db.disp[d].handle # db.disp[e].handle
        /\ db.disp[d].pane # NoPane /\ db.disp[e].pane # NoPane
              => ~isEquivalentPaneKey(db.disp[d].pane, db.disp[e].pane)

\* A task that is shown as dispatched is being worked on: its newest dispatch
\* is active.  Otherwise neither an exit nor a worker_done could ever move it on.
DispatchedIsAssigned ==
    \A t \in TaskIds : db.task[t].status = "dispatched" =>
        \E d \in DispatchIds : IsLatestDispatch(db, t, d) /\ db.disp[d].status = "dispatched"

\* Only the pane a dispatch was given to can complete it or keep it alive: a
\* completed task was completed by a worker_done that names it and one of its
\* dispatches and comes from that dispatch's pane (or handle, for a row without
\* a pane), and the same holds for the heartbeat that last refreshed a dispatch.
LifecycleAuthority ==
    /\ \A t \in TaskIds : db.task[t].status = "completed" =>
          \E m \in MessageIds :
             LET msg == db.msg[m]
             IN  /\ db.task[t].result = m
                 /\ msg.type = "worker_done" /\ ~msg.rejected
                 /\ msg.task = t /\ NamesDispatchOfTask(db, msg)
                 /\ hasLifecycleAuthority(db.disp[msg.disp], msg)
    /\ \A d \in DispatchIds : db.disp[d].beat # 0 =>
          LET msg == db.msg[db.disp[d].beat]
          IN  msg.type = "heartbeat" /\ msg.disp = d /\ hasLifecycleAuthority(db.disp[d], msg)

\* After a worker_done has completed its dispatch, no heartbeat of that dispatch
\* that was sent before it is still unread: the coordinator is never shown
\* liveness of finished work.
EarlierHeartbeatsAreRead ==
    \A t \in TaskIds : LET m == db.task[t].result IN
        m # 0 /\ db.msg[m].type = "worker_done" =>
            ~\E k \in UnreadMessages(db) :
                k < m /\ db.msg[k].type = "heartbeat" /\ db.msg[k].disp = db.msg[m].disp

\* Two agents never work on one task.
OneActiveDispatchPerTask ==
    \A d, e \in ActiveDispatches(db) : db.disp[d].task = db.disp[e].task => d = e

\* The DAG order: work on a task only starts, and stays started, when all its
\* dependencies are completed.
DependenciesFirst ==
    \A t \in TaskIds : db.task[t].status \in {"ready", "dispatched", "completed"} =>
        \A d \in db.task[t].deps : db.task[d].status = "completed"

\* The slots a tick computes before its awaits are never overrun after them.
ConcurrencyBound == Cardinality(TasksIn(db, "dispatched")) <= MaxConcurrent

\* Once the circuit breaker has tripped, the task is not tried again.
BreakerIsFinal ==
    \A d \in DispatchIds : db.disp[d].status = "circuit_broken" =>
        /\ db.task[db.disp[d].task].status = "failed"
        /\ DispatchesOf(db, db.disp[d].task) \cap ActiveDispatches(db) = {}

\* No late failure, escalation or message re-opens a completed task.
CompletedIsFinal ==
    [][\A t \in TaskIds : db.task[t].status = "completed" => db'.task[t].status = "completed"]_vars

\* skill-guides/orchestration.md: "a gate blocks progress until a coordinator or
\* user decision is recorded".  A task with an open gate is never dispatched.
GateBlocks ==
    \A t \in TaskIds : HasPendingGate(db, t) => db.task[t].status # "dispatched"

\* A pending task waits for something.  (createTask breaks it: a task whose
\* dependencies are completed already is pending, and nothing promotes it.)
NoStrandedChild ==
    \A t \in TaskIds : db.task[t].status = "pending" =>
        \E d \in db.task[t].deps : db.task[d].status # "completed"

\* What keeps a run going for ever with workers that report: a pending task that
\* nothing will promote (it came after its dependencies had completed, or one of
\* them has failed, which checkConvergence does not count as stuck), or a gate
\* that nobody resolves.
Stuck ==
    \/ ~NoStrandedChild
    \/ \E t \in TaskIds : /\ db.task[t].status = "pending"
                          /\ \E d \in db.task[t].deps : db.task[d].status = "failed"
    \/ \E t \in TaskIds : HasPendingGate(db, t)

\* What keeps it going in the model only: no row is left for a report or a retry.
BoundsUsedUp ==
    \/ /\ db.nMsg = MaxMessages /\ Free
       /\ UnreadMessages(db) = {} /\ ActiveDispatches(db) # {}
    \/ /\ db.nDisp = MaxDispatches
       /\ ActiveDispatches(db) = {} /\ TasksIn(db, "ready") # {}

\* A run whose workers report comes to an end, beside gates, escalations and
\* prompts that fail for a while.
RunEnds ==
    WorkersReport /\ FaultsEnd =>
        \A r \in RunIds : db.run[r] = "running" ~> db.run[r] # "running" \/ Stuck \/ BoundsUsedUp

\* run-stop is honoured whatever the coordinator is waiting for, even if no
\* worker ever reports.
StopIsHonoured == \A r \in RunIds : coord[r].stopped ~> coord[r].pc = "done"
=============================================================================
