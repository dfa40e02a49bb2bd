----------------------------- MODULE Automations -----------------------------
(***************************************************************************)
(* Scheduled automations: the scheduler and the dispatcher of the main     *)
(* process (automations/service.ts), the automations and runs in the store *)
(* (persistence.ts, shared/automation-run-retention.ts), and in a desktop  *)
(* the renderer's dispatch hook (useAutomationDispatchEvents.ts) and the   *)
(* automations page.  In serve mode there is no window and the process     *)
(* launches the agents itself.                                             *)
(*                                                                         *)
(* Code between two awaits is atomic.  Every write of the store is flushed *)
(* at once, so a restart loses the memory of the processes and no write.   *)
(***************************************************************************)
EXTENDS Integers, FiniteSets

CONSTANTS
    Occurrences,   \* for each schedule, the moments at which it is due
    Count,         \* how many automations may be created; their order is by name
    MaxRuns,       \* bound on the runs ever created
    MaxTime,       \* the last moment of the clock
    MaxUpsets,     \* bound on run now, edit and delete, on restarts of the main
                   \* process, and on windows closed or reloaded, together
    Grace,         \* missedRunGraceMinutes, in moments
    MaxKept        \* MAX_AUTOMATION_RUNS_PER_AUTOMATION

Ids == 1..Count
RunIds == 1..MaxRuns
Schedules == DOMAIN Occurrences
Never == MaxTime + 1

ASSUME ScheduleAssumption ==
    /\ Schedules # {}
    /\ \A s \in Schedules : Occurrences[s] \subseteq 0..MaxTime
ASSUME LimitAssumption ==
    /\ Count \in Nat /\ MaxRuns \in Nat /\ MaxTime \in Nat /\ Grace \in Nat
    /\ MaxUpsets \in Nat
    /\ MaxKept \in Nat \ {0}

Open == {"pending", "dispatching", "dispatched"}
\* "skipped" stands for the four skipped_... statuses, which differ in why.
Final == {"skipped", "completed", "dispatch_failed"}

VARIABLES
    now,
    serve,     \* whether this is orca serve
    auto,      \* the automations
    run,       \* the runs; a row that is gone keeps its last values
    nRun,      \* how many runs were ever created
    pass,      \* evaluateDueRuns, its locals, and the flag `evaluating`
    ready,     \* rendererReady, as the main process has it
    listening, \* whether the hook is mounted in the window
    job,       \* for each run, what drives it: a headless dispatch or the hook
    agent,     \* the agent launched for it
    collect,   \* usage collections that markDispatchResult awaits
    sent,      \* history: how often this process has dispatched each run
    edits, restarts, reloads \* how many of each

vars == <<now, serve, auto, run, nRun, pass, ready, listening, job, agent, collect,
          sent, edits, restarts, reloads>>

----------------------------------------------------------------------------
(* Schedules and the store.                                                *)

nextAutomationOccurrenceAfter(s, t) ==
    LET later == {o \in Occurrences[s] : o > t}
    IN  IF later = {} THEN Never ELSE CHOOSE o \in later : \A p \in later : o <= p

\* -1: null
latestAutomationOccurrenceAtOrBefore(s, t) ==
    LET past == {o \in Occurrences[s] : o <= t}
    IN  IF past = {} THEN -1 ELSE CHOOSE o \in past : \A p \in past : p <= o

Live(a) == auto[a].life = "live"
Due(a) == Live(a) /\ auto[a].enabled /\ auto[a].nextRunAt <= now
RunsOf(rows, a) == {r \in RunIds : rows[r].stored /\ rows[r].auto = a}

\* Mutant: every run may be evicted.
pruneAutomationRuns_AnyStatus(rows) ==
    [r \in RunIds |->
        IF Cardinality({q \in RunsOf(rows, rows[r].auto) : q > r}) >= MaxKept
        THEN [rows[r] EXCEPT !.stored = FALSE] ELSE rows[r]]

\* Per automation the newest MaxKept final runs stay, and all that are open.
pruneAutomationRuns(rows) ==
    LET ended(a) == {r \in RunsOf(rows, a) : rows[r].status \in Final}
    IN  [r \in RunIds |->
            IF r \in ended(rows[r].auto)
               /\ Cardinality({q \in ended(rows[r].auto) : q > r}) >= MaxKept
            THEN [rows[r] EXCEPT !.stored = FALSE] ELSE rows[r]]

nextAutomationRunNumber(a) ==
    LET known == {run[r].number : r \in RunsOf(run, a)} \cup {Cardinality(RunsOf(run, a))}
    IN  1 + CHOOSE n \in known : \A k \in known : k <= n

\* Mutant: a run is created whenever it is asked for.
ExistingRun_None(a, t) == {}

\* The runs of this automation for this moment.
ExistingRun(a, t) == {r \in RunsOf(run, a) : run[r].trigger = "scheduled" /\ run[r].scheduledFor = t}

\* Mutant: a run starts with a status of its own.
NewRun_Queued(a, t, trigger) ==
    [stored |-> TRUE, auto |-> a, status |-> "queued", trigger |-> trigger,
     scheduledFor |-> t, number |-> nextAutomationRunNumber(a), usage |-> FALSE]
NewRun(a, t, trigger) ==
    [stored |-> TRUE, auto |-> a, status |-> "pending", trigger |-> trigger,
     scheduledFor |-> t, number |-> nextAutomationRunNumber(a), usage |-> FALSE]

\* createAutomationRun: the run it returns, and the table afterwards.  A manual
\* run is the only one of its millisecond.
Finds(a, t, trigger) == trigger = "scheduled" /\ ExistingRun(a, t) # {}
RunFor(a, t, trigger) ==
    IF Finds(a, t, trigger) THEN CHOOSE r \in ExistingRun(a, t) : TRUE ELSE nRun + 1
RowsWith(a, t, trigger) ==
    IF Finds(a, t, trigger) THEN run
    ELSE pruneAutomationRuns([run EXCEPT ![nRun + 1] = NewRun(a, t, trigger)])
CountRun(a, t, trigger) ==
    /\ Finds(a, t, trigger) \/ nRun < MaxRuns
    /\ nRun' = IF Finds(a, t, trigger) THEN nRun ELSE nRun + 1

WithStatus(rows, r, status) == [rows EXCEPT ![r].status = status]

\* Mutant: the schedule is not moved on.
Advanced_Not(a) == auto

\* advanceAutomationNextRun: today's schedule, the clock of the pass.
Advanced(a) ==
    [auto EXCEPT ![a].nextRunAt =
        nextAutomationOccurrenceAfter(auto[a].schedule, pass.now)]

\* markDispatchResult up to its await: the status, and a usage collection for
\* a final one unless the row has its usage.  It throws when the row is gone.
MarkDispatchResult(r, status, by) ==
    IF run[r].stored
    THEN /\ run' = WithStatus(run, r, status)
         /\ collect' = IF status \in Final /\ ~run[r].usage
                       THEN collect \cup {[run |-> r, by |-> by, status |-> status]}
                       ELSE collect
    ELSE UNCHANGED <<run, collect>>

----------------------------------------------------------------------------
(* The scheduler.                                                          *)

AnySchedule == CHOOSE s \in Schedules : TRUE
IdlePass == [evaluating |-> FALSE, pc |-> "idle", now |-> 0, left |-> {},
             schedule |-> [a \in Ids |-> AnySchedule], auto |-> 0]
NoJob == [pc |-> "none", by |-> "hook", marked |-> FALSE]

SetJob(r, pc) ==
    job' = [job EXCEPT ![r] = IF pc = "none" THEN NoJob ELSE [@ EXCEPT !.pc = pc]]

\* The 60 s timer, or the renderer has reported ready: list the automations.
EvaluateDueRuns ==
    /\ ~pass.evaluating
    /\ \E a \in Ids : Due(a)
    /\ pass' = [evaluating |-> TRUE, pc |-> "next", now |-> now,
                left |-> {a \in Ids : Due(a)},
                schedule |-> [a \in Ids |-> auto[a].schedule], auto |-> 0]
    /\ UNCHANGED <<now, serve, auto, run, nRun, ready, listening, job, agent, collect,
                   sent, edits, restarts, reloads>>

\* Mutant: the flag is only cleared when the loop runs to its end.
Aborted_FlagStays == [IdlePass EXCEPT !.evaluating = TRUE]

\* An exception leaves the loop through `finally`.
Aborted == IdlePass

\* The tail of evaluateAutomation; it throws if the automation was deleted.
AdvanceThen(a) ==
    IF Live(a)
    THEN auto' = Advanced(a) /\ pass' = [pass EXCEPT !.pc = "next", !.left = @ \ {a}, !.auto = 0]
    ELSE pass' = Aborted /\ UNCHANGED auto

\* requestDispatch on the table `rows`.  The caller goes on at once, or in serve
\* mode waits for the headless dispatch.
RequestDispatch(r, rows, by, goesOn, waits) ==
    \/ /\ run' = WithStatus(rows, r, "skipped")
       /\ goesOn
       /\ UNCHANGED <<job, sent>>
    \/ /\ serve
       /\ run' = rows
       /\ job' = [job EXCEPT ![r] = [NoJob EXCEPT !.pc = "precheck", !.by = by]]
       /\ waits
       /\ UNCHANGED sent
    \/ /\ ~serve /\ ready
       /\ run' = WithStatus(rows, r, "dispatching")
       /\ sent' = [sent EXCEPT ![r] = @ + 1]
       /\ job' = IF listening THEN [job EXCEPT ![r] = [NoJob EXCEPT !.pc = "requested"]] ELSE job
       /\ goesOn

\* evaluateAutomation for the next automation of the list, as it was listed.
EvaluateAutomation ==
    /\ pass.pc = "next" /\ pass.left # {}
    /\ LET a == CHOOSE b \in pass.left : \A c \in pass.left : b <= c
           t == latestAutomationOccurrenceAtOrBefore(pass.schedule[a], pass.now)
           r == RunFor(a, t, "scheduled")
           rows == RowsWith(a, t, "scheduled")
           GoTo(pc) == pass' = [pass EXCEPT !.pc = pc, !.auto = a]
       IN  IF t = -1
           THEN AdvanceThen(a) /\ UNCHANGED <<run, nRun, job, sent>>
           ELSE /\ CountRun(a, t, "scheduled")
                /\ IF pass.now - t > Grace
                   THEN /\ run' = WithStatus(rows, r, "skipped")
                        /\ AdvanceThen(a)
                        /\ UNCHANGED <<job, sent>>
                   ELSE /\ RequestDispatch(r, rows, "pass", GoTo("advance"), GoTo("waiting"))
                        /\ UNCHANGED auto
    /\ UNCHANGED <<now, serve, ready, listening, agent, collect, edits, restarts, reloads>>

\* requestDispatch has resolved.
Advance ==
    /\ pass.pc = "advance"
    /\ AdvanceThen(pass.auto)
    /\ UNCHANGED <<now, serve, run, nRun, ready, listening, job, agent, collect,
                   sent, edits, restarts, reloads>>

PassEnds ==
    /\ pass.pc = "next" /\ pass.left = {}
    /\ pass' = IdlePass
    /\ UNCHANGED <<now, serve, auto, run, nRun, ready, listening, job, agent, collect,
                   sent, edits, restarts, reloads>>

----------------------------------------------------------------------------
(* Headless dispatch, in serve mode.                                       *)

\* The dispatch of r ends, for the pass or for a caller of runNow, with the
\* promise resolved or rejected; left says what still drives r.
HeadlessEnds(r, resolved, left) ==
    /\ job' = [job EXCEPT ![r] = [NoJob EXCEPT !.pc = left, !.by = "main"]]
    /\ pass' = IF job[r].by # "pass" THEN pass
               ELSE IF resolved THEN [pass EXCEPT !.pc = "advance"] ELSE Aborted

\* runPrecheck of a scheduled run throws if the automation or the run is gone.
HeadlessPrecheck(r) ==
    /\ serve /\ job[r].pc = "precheck"
    /\ \/ /\ SetJob(r, "launching")
          /\ sent' = [sent EXCEPT ![r] = @ + 1]
          /\ UNCHANGED <<run, pass>>
       \/ /\ run[r].trigger = "scheduled"
          /\ IF run[r].stored THEN run' = WithStatus(run, r, "skipped") ELSE UNCHANGED run
          /\ HeadlessEnds(r, run[r].stored, "none")
          /\ UNCHANGED sent
    /\ UNCHANGED <<now, serve, auto, nRun, ready, listening, agent, collect,
                   edits, restarts, reloads>>

\* The dispatcher's promise settles; without the row both updates throw.
HeadlessLaunch(r) ==
    /\ serve /\ job[r].pc = "launching"
    /\ \E ok \in BOOLEAN :
         /\ agent' = IF ok THEN [agent EXCEPT ![r] = "live"] ELSE agent
         /\ IF run[r].stored
            THEN run' = WithStatus(run, r, IF ok THEN "dispatched" ELSE "dispatch_failed")
            ELSE UNCHANGED run
         /\ HeadlessEnds(r, run[r].stored, IF ok /\ run[r].stored THEN "running" ELSE "none")
    /\ UNCHANGED <<now, serve, auto, nRun, ready, listening, collect, sent,
                   edits, restarts, reloads>>

\* The agent is at rest, or it is blocked or gone.
HeadlessCompletes(r) ==
    /\ serve /\ job[r].pc = "running" /\ agent[r] \in {"done", "failed"}
    /\ MarkDispatchResult(r, IF agent[r] = "done" THEN "completed" ELSE "dispatch_failed", "main")
    /\ SetJob(r, "none")
    /\ UNCHANGED <<now, serve, auto, nRun, pass, ready, listening, agent, sent,
                   edits, restarts, reloads>>

----------------------------------------------------------------------------
(* The renderer's hook, in a desktop.                                      *)

HookStep == UNCHANGED <<now, serve, auto, nRun, pass, ready, listening, sent,
                        edits, restarts, reloads>>

\* Mutant: a skip is reported and the launch goes on.
HookPrepares_GoesOn(r) ==
    /\ job[r].pc = "requested"
    /\ \E s \in {"skipped", "dispatch_failed"} : MarkDispatchResult(r, s, "hook") /\ SetJob(r, "launching")
    /\ HookStep /\ UNCHANGED agent

\* Project, SSH connection, workspace and precheck: each may end the dispatch.
HookPrepares(r) ==
    /\ job[r].pc = "requested"
    /\ \/ SetJob(r, "launching") /\ UNCHANGED <<run, collect>>
       \/ \E s \in {"skipped", "dispatch_failed"} : MarkDispatchResult(r, s, "hook") /\ SetJob(r, "none")
    /\ HookStep /\ UNCHANGED agent

\* Mutant: an exception is not reported.
HookFails_Silently(r) == SetJob(r, "none") /\ UNCHANGED <<run, collect>>

\* The catch clause.
HookFails(r) == MarkDispatchResult(r, "dispatch_failed", "hook") /\ SetJob(r, "none")

\* A new workspace or an existing one, a new session or a reused one.
HookLaunches(r) ==
    /\ job[r].pc = "launching" /\ ~serve
    /\ \/ HookFails(r) /\ UNCHANGED agent
       \/ /\ agent' = [agent EXCEPT ![r] = "live"]
          /\ SetJob(r, "running")
          /\ UNCHANGED <<run, collect>>
    /\ HookStep

\* The dispatch is reported, and dispatchMarked set.
HookMarks(r) ==
    /\ ~serve /\ job[r].pc \in {"running", "collecting"} /\ ~job[r].marked
    /\ IF run[r].stored
       THEN MarkDispatchResult(r, "dispatched", "hook") /\ job' = [job EXCEPT ![r].marked = TRUE]
       ELSE HookFails(r)
    /\ HookStep /\ UNCHANGED agent

\* Mutant: the agent's end is reported as soon as it is seen.
MayComplete_Early(r) == job[r].pc = "running"

\* The agent's end is held back until the dispatch has been reported.
MayComplete(r) == job[r].pc = "running" /\ job[r].marked

\* markCompletionResult or markExitResult.
HookCompletes(r) ==
    /\ ~serve /\ MayComplete(r) /\ agent[r] \in {"early", "done", "failed"}
    /\ MarkDispatchResult(r, IF agent[r] = "failed" THEN "dispatch_failed" ELSE "completed", "hook")
    /\ SetJob(r, IF agent[r] # "failed" /\ run[r].stored THEN "collecting" ELSE "none")
    /\ HookStep /\ UNCHANGED agent

\* The report has returned: a terminal that the run owned is retired, which is
\* written with the same status again.
HookRetires(r) ==
    /\ job[r].pc = "collecting"
    /\ ~\E c \in collect : c.run = r /\ c.by = "hook"
    /\ \/ UNCHANGED <<run, collect>>
       \/ MarkDispatchResult(r, "completed", "hook")
    /\ SetJob(r, "none")
    /\ HookStep /\ UNCHANGED agent

\* The page sees a run whose agent is done, in a list that may be out of date.
PageCompletes(r) ==
    /\ listening /\ agent[r] = "done"
    /\ run[r].stored /\ run[r].status \in {"dispatched", "completed", "dispatch_failed"}
    /\ ~\E c \in collect : c.run = r /\ c.by = "page"
    /\ MarkDispatchResult(r, "completed", "page")
    /\ HookStep /\ UNCHANGED <<agent, job>>

\* markDispatchResult after its await: the row may be gone, and the status that
\* is written is the one of before.
CollectEnds(c) ==
    /\ c \in collect
    /\ collect' = collect \ {c}
    /\ run' = IF run[c.run].stored
              THEN [run EXCEPT ![c.run].status = c.status, ![c.run].usage = TRUE]
              ELSE run
    /\ HookStep /\ UNCHANGED <<agent, job>>

----------------------------------------------------------------------------
(* The user, the agents, the windows and the clock.                        *)

Upsets == edits + restarts + reloads

Edit ==
    /\ Upsets < MaxUpsets /\ edits' = edits + 1
    /\ UNCHANGED <<now, serve, ready, listening, agent, collect, restarts, reloads>>

CreateAutomation(a, s) ==
    /\ auto[a].life = "new"
    /\ auto' = [auto EXCEPT ![a] = [life |-> "live", enabled |-> TRUE, schedule |-> s,
                                    nextRunAt |-> nextAutomationOccurrenceAfter(s, now)]]
    /\ UNCHANGED <<now, serve, run, nRun, pass, ready, listening, job, agent, collect,
                   sent, edits, restarts, reloads>>

UpdateSchedule(a, s) ==
    /\ Edit /\ Live(a)
    /\ auto' = [auto EXCEPT ![a].schedule = s,
                            ![a].nextRunAt = nextAutomationOccurrenceAfter(s, now)]
    /\ UNCHANGED <<run, nRun, pass, job, sent>>

UpdateEnabled(a) ==
    /\ Edit /\ Live(a)
    /\ auto' = [auto EXCEPT ![a].enabled = ~@]
    /\ UNCHANGED <<run, nRun, pass, job, sent>>

DeleteAutomation(a) ==
    /\ Edit /\ Live(a)
    /\ auto' = [auto EXCEPT ![a].life = "deleted"]
    /\ run' = [r \in RunIds |-> IF run[r].auto = a THEN [run[r] EXCEPT !.stored = FALSE] ELSE run[r]]
    /\ UNCHANGED <<nRun, pass, job, sent>>

RunNow(a) ==
    /\ Edit /\ Live(a)
    /\ CountRun(a, now, "manual")
    /\ RequestDispatch(nRun + 1, RowsWith(a, now, "manual"), "call", UNCHANGED pass, UNCHANGED pass)
    /\ UNCHANGED auto

\* The agent's last turn ends or its process fails; "early" is before the run
\* was marked as dispatched, which the page tells by the time.
AgentEnds(r) ==
    /\ agent[r] = "live"
    /\ \E e \in {"failed", IF run[r].status = "dispatched" THEN "done" ELSE "early"} :
          agent' = [agent EXCEPT ![r] = e]
    /\ HookStep /\ UNCHANGED <<run, job, collect>>

\* The hook is mounted: setRendererReady.
Mount ==
    /\ ~serve /\ ~listening
    /\ listening' = TRUE /\ ready' = TRUE
    /\ UNCHANGED <<now, serve, auto, run, nRun, pass, job, agent, collect,
                   sent, edits, restarts, reloads>>

\* The window is closed, or its page is loaded again, which the main process
\* does not notice; the hook's promises are gone.
Unmount ==
    /\ listening /\ Upsets < MaxUpsets
    /\ reloads' = reloads + 1
    /\ listening' = FALSE
    /\ ready' \in {FALSE, TRUE}
    /\ job' = [r \in RunIds |-> NoJob]
    /\ UNCHANGED <<now, serve, auto, run, nRun, pass, agent, collect, sent, edits, restarts>>

\* The main process ends and starts again; loading prunes the runs.
Restart ==
    /\ Upsets < MaxUpsets /\ restarts' = restarts + 1
    /\ run' = pruneAutomationRuns(run)
    /\ pass' = IdlePass
    /\ job' = [r \in RunIds |-> NoJob]
    /\ collect' = {}
    /\ sent' = [r \in RunIds |-> 0]
    /\ ready' = FALSE /\ listening' = FALSE
    /\ UNCHANGED <<now, serve, auto, nRun, agent, edits, reloads>>

Clock ==
    /\ now < MaxTime /\ now' = now + 1
    /\ UNCHANGED <<serve, auto, run, nRun, pass, ready, listening, job, agent, collect,
                   sent, edits, restarts, reloads>>

----------------------------------------------------------------------------
Init ==
    /\ now = 0 /\ serve \in BOOLEAN
    /\ auto = [a \in Ids |-> [life |-> "new", enabled |-> FALSE, schedule |-> AnySchedule,
                              nextRunAt |-> Never]]
    /\ run = [r \in RunIds |-> [stored |-> FALSE, auto |-> 0, status |-> "pending",
                                trigger |-> "manual", scheduledFor |-> 0, number |-> 0,
                                usage |-> FALSE]]
    /\ nRun = 0 /\ pass = IdlePass
    /\ ready = FALSE /\ listening = FALSE
    /\ job = [r \in RunIds |-> NoJob]
    /\ agent = [r \in RunIds |-> "none"]
    /\ collect = {}
    /\ sent = [r \in RunIds |-> 0]
    /\ edits = 0 /\ restarts = 0 /\ reloads = 0

Headless(r) == HeadlessPrecheck(r) \/ HeadlessLaunch(r) \/ HeadlessCompletes(r)
Hook(r) == \/ HookPrepares(r) \/ HookLaunches(r) \/ HookMarks(r)
           \/ HookCompletes(r) \/ HookRetires(r)
User == \E a \in Ids :
    \/ \E s \in Schedules : CreateAutomation(a, s) \/ UpdateSchedule(a, s)
    \/ UpdateEnabled(a) \/ DeleteAutomation(a) \/ RunNow(a)

\* A resolved promise is continued before anything else happens in the process.
Next ==
    \/ Advance \/ Restart
    \/ /\ pass.pc # "advance"
       /\ \/ EvaluateDueRuns \/ EvaluateAutomation \/ PassEnds
          \/ \E r \in RunIds : Headless(r) \/ Hook(r) \/ PageCompletes(r) \/ AgentEnds(r)
          \/ \E c \in collect : CollectEnds(c)
          \/ User \/ Mount \/ Unmount \/ Clock

Spec == Init /\ [][Next]_vars

\* The timer fires again and again, and what the code awaits settles: prechecks,
\* launches, usage scans and IPC calls.  Nothing is assumed of agents or users.
Fairness ==
    /\ WF_vars(EvaluateDueRuns) /\ WF_vars(EvaluateAutomation)
    /\ WF_vars(Advance) /\ WF_vars(PassEnds)
    /\ \A r \in RunIds : WF_vars(Headless(r)) /\ WF_vars(Hook(r))
    /\ WF_vars(\E c \in collect : CollectEnds(c))

FairSpec == Spec /\ Fairness

----------------------------------------------------------------------------
(* Properties.                                                             *)

Collections == [run: RunIds, by: {"hook", "page", "main"}, status: Final]

\* Types of the state.
TypeOK ==
    /\ now \in 0..MaxTime /\ serve \in BOOLEAN
    /\ ready \in BOOLEAN /\ listening \in BOOLEAN
    /\ auto \in [Ids -> [life: {"new", "live", "deleted"}, enabled: BOOLEAN,
                         schedule: Schedules, nextRunAt: 0..Never]]
    /\ run \in [RunIds -> [stored: BOOLEAN, auto: {0} \cup Ids, status: Open \cup Final,
                           trigger: {"scheduled", "manual"}, scheduledFor: 0..MaxTime,
                           number: Nat, usage: BOOLEAN]]
    /\ nRun \in 0..MaxRuns
    /\ pass \in [evaluating: BOOLEAN, pc: {"idle", "next", "waiting", "advance"},
                 now: 0..MaxTime, left: SUBSET Ids, schedule: [Ids -> Schedules],
                 auto: {0} \cup Ids]
    /\ job \in [RunIds -> [pc: {"none", "precheck", "requested", "launching", "running",
                                "collecting"},
                           by: {"pass", "call", "main", "hook"}, marked: BOOLEAN]]
    /\ agent \in [RunIds -> {"none", "live", "early", "done", "failed"}]
    /\ collect \subseteq Collections
    /\ sent \in [RunIds -> Nat]
    /\ edits \in Nat /\ restarts \in Nat /\ reloads \in Nat /\ Upsets <= MaxUpsets

\* createAutomationRun gives an occurrence one run, even if the process was
\* restarted, or a pass was aborted, between the run's creation and the advance
\* of the schedule.
OneRunPerOccurrence ==
    \A r, q \in RunIds :
        /\ run[r].stored /\ run[q].stored /\ run[r].auto = run[q].auto
        /\ run[r].trigger = "scheduled" /\ run[q].trigger = "scheduled"
        /\ run[r].scheduledFor = run[q].scheduledFor
        => r = q

\* Ticks that come while a launch is awaited, edits and aborted passes never make
\* the process dispatch one run twice.  (After a restart it may be dispatched
\* again: whether the launch had happened is not known.)
DispatchedOnce == \A r \in RunIds : sent[r] <= 1

\* shared/automation-run-retention.ts evicts final runs only: while something
\* still drives an open run, its row is there for the result, unless the
\* automation was deleted.
LateResultsLand ==
    \A r \in RunIds : job[r].pc # "none" /\ run[r].status \in Open /\ Live(run[r].auto)
        => run[r].stored

\* A run that is shown as skipped has started no agent.  (A restart between a
\* launch and the advance leaves an agent that the new process does not know.)
SkippedNeverRan ==
    restarts = 0 => \A r \in RunIds : run[r].status = "skipped" => agent[r] = "none"

\* shared/automations-types.ts: "Statuses a run can never leave".  The hook, the
\* page, headless completions and usage collections of one process never take a
\* run from a final status to an open one.
FinalIsKept ==
    [][\A r \in RunIds : run[r].stored /\ run[r].status \in Final /\ restarts = 0
            => run'[r].status \in Final]_vars

\* An automation that is due is evaluated, whatever becomes of the automations
\* before it in the list: an exception for one of them ends the pass, and the
\* flag `evaluating` does not outlive it.
DueIsServed ==
    \A a \in Ids : Due(a) ~> ~Due(a) \/ nRun = MaxRuns

\* A run that was handed to the renderer gets out of 'dispatching', unless the
\* window or the process went away with the hook that had it.
RequestSettles ==
    \A r \in RunIds : run[r].stored /\ run[r].status = "dispatching" ~>
        ~run[r].stored \/ run[r].status # "dispatching" \/ reloads + restarts > 0
=============================================================================
