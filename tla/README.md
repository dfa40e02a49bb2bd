# Orca: a TLA+ verification project

Orca is a desktop IDE that runs coding agents in terminals, on this machine and over
SSH. This project models four parts of it in which concurrent actors share state:
*orchestration*, by which one coordinator hands a DAG of tasks to many agents; the
*installation of the relay* on a remote host, which several clients do at once and
coordinate through its file system; *automations*, agents started by a schedule; and the
*phone's RPC client* with the browser screencasts it shows, over connections that break.
Paths below are relative to the repository root as seen from `src/`.

## 1. Inventory

| Component | Source | State | Operations | Interacts with |
|---|---|---|---|---|
| Orchestration database | `src/main/runtime/orchestration/db.ts`, `types.ts` | tables `messages`, `tasks`, `dispatch_contexts`, `decision_gates`, `coordinator_runs` | create/update task, promote, create/complete/fail dispatch, heartbeat, gates, runs, reset | called by everything below |
| Lifecycle reconciliation | `lifecycle-reconciliation.ts` | none | apply a `worker_done` or `heartbeat` | database |
| Coordinator loop | `coordinator.ts` | `stopped`, `failedTasks`, locals of a tick held across awaits | poll, handle mail, restore gates, dispatch, converge, sleep | database, terminals |
| RPC handlers | `rpc/methods/orchestration.ts`, `orchestration-gates.ts` | the reference `activeCoordinator` | send, check, task-create/-update, dispatch, gate-create/-resolve, run, run-stop, reset | database, coordinator |
| Runtime | `orca-runtime.ts` | terminals, each with the status its title shows; pending Enter keys | exit hook, prompt injection, push-on-idle delivery | database, terminals |
| Message waiters | `orchestration-message-waiter-registry.ts` | bounded waiter buckets and their counters | wait, notify, settle, close | `check --wait`, `ask` |
| Relay installation | `src/main/ssh/ssh-relay-deploy.ts`, `ssh-relay-install-lock.ts`, `ssh-relay-repair-lock.ts`, `ssh-relay-install-lock-commands.ts`, `ssh-relay-gc-claim.ts`, `ssh-relay-versioned-install.ts` | on the host: version directories with sentinel and socket, an install lock in each and a GC claim beside it; per client the position in deploy | install, repair, launch under a fence, steal a stale lock or claim, collect old versions | other clients, only through the host's file system |
| Automations | `src/main/automations/service.ts`, `src/main/persistence.ts` (its automation tables), `src/shared/automation-run-retention.ts`, the hook `useAutomationDispatchEvents.ts`, `AutomationsPage.tsx` | automations with `nextRunAt`, runs with a status, the flag `evaluating`, `rendererReady`; in the hook `dispatchMarked` | evaluate what is due, dispatch headless or to the window, mark results, retain, edit | the store, the renderer by IPC, terminals |
| Phone's RPC client | `mobile/src/transport/rpc-client.ts`, `mobile-direct-rpc-sender.ts` | connection state, the WebSocket, reconnect timer and attempt count, auth rejections, pending requests, stream listeners, the pending and the active screencast | dial, handshake, request, subscribe, dispose, replay, time out, reconnect, foreground, close | desktop, over a WebSocket |
| Mobile RPC server | `rpc/e2ee-channel.ts`, `rpc/mobile-socket-wiring.ts`, `rpc/dispatcher.ts`, `runtime-rpc.ts` | per connection the state of the handshake and what it dispatched | authenticate, dispatch, unpair, abort and clean up after a close | client, screencasts |
| Browser screencasts | `orca-runtime.ts` (`browserScreencast`), `orca-runtime-browser.ts`, `browser/browser-screencast-stream.ts`, `rpc/methods/browser-screencast.ts` | active casts by connection and by page, debugger sessions by page, subscription cleanups | start, cancel, stop, end, emit frames, reclaim | mobile RPC server, pages |
| Terminal daemon, SSH relay protocol and client, desktop relay service, agent hooks, relay transport of the phone, persistence, git, providers, the rest of browser, emulator and computer use, updater, renderer, CLI, speech | see `PROJECT.json` | | | |

What is hard here:

* **Interleaving at awaits.** Everything runs in one JavaScript process, so code
  between two awaits is atomic, but the loop holds a list of ready tasks and a slot
  count over four kinds of await (listing, creating, probing, prompting), and
  `dispatch --inject` over two. Other handlers, agents' mail and exits run in
  between.
* **Three actors report one failure.** An agent's exit is seen by the exit hook, by
  the prompt being written to it and by the escalation the hook mails.
* **Two readers of one mailbox.** `check` and the loop both consume the
  coordinator's mail; `send` reconciles lifecycle messages before either.
* **Identity.** A pane keeps its leaf id when its tab moves and its handle is
  re-issued; legacy pane keys and missing keys exist.
* **Two ways to a reader.** A message is read by `check` (column `read`) and pushed into
  an idle agent's terminal (column `delivered_at`); a long poll can be ended by a
  message, a timer or a disconnect, and a push is confirmed half a second after it is
  made.
* **Locks by mkdir.** The install lock and the GC claim are directories on a host that
  clients reach by single commands. A command can run and lose its reply, a holder can
  die while its `npm` goes on, a mark can be stolen when it is stale, and what is at a
  path need not be what was there one command ago.
* **A pass over a list.** `evaluateDueRuns` works through a list it took at its start,
  awaiting launches in between; users edit, windows reload and the process restarts
  meanwhile, and up to three places report the end of one run.
* **Two ends that notice at different times.** Phone and desktop learn of a broken
  connection by a close event, an error, a timer, a probe or a failing send, in any order
  and one without the other. A cast is started, cancelled and ended over five awaits, and
  frames of two casts are told apart by nothing but their order.
* **Crashes.** The database and the terminals survive the process, Coordinator
  objects do not; most multi-row writes are not transactions.

## 2. Modules

| Module | Models |
|---|---|
| `OrchestrationDb` | the tables as one record `db`; one operator per writing method of `OrchestrationDb`, and the reconciliation functions |
| `Orchestration` | the system: one action per handler, per section of the loop between two awaits, per handled message, for an agent's exit and a crash |
| `MCOrchestration` | constant values for TLC |
| `WaiterRegistry` | the waiter registry as operators on its record: admission, retention, settlement, the filter of `notify` |
| `MessageDelivery` | `send`, group sends, `reply`, `check --wait`, `ask`, push-on-idle delivery, over the registry and the `messages` table |
| `MCDelivery` | constant values for TLC |
| `TaskBoard` | abstract: what orchestration promises the author of a DAG |
| `OrchestrationBoard` | the refinement mapping from `Orchestration` to `TaskBoard` |
| `RelayInstall` | one version directory of the relay, the clients that deploy it and those that collect it, command by command |
| `MCRelay` | constant values for TLC |
| `Automations` | scheduler, headless dispatcher, renderer's hook, page, store and retention |
| `MCAutomations` | constant values for TLC |
| `ScreencastHost` | the desktop's casts: admission per connection, per page and per debugger session, cancellation, ends, frames |
| `MobileRpc` | the phone's client, the connections and the handshake, composed with `ScreencastHost` |
| `MCMobile` | constant values for TLC |
| `OrchestrationProofs` | type correctness, the dispatch lock, and that a dispatched task has a running newest dispatch, proved |
| `LifecycleProofs` | who may complete a task, and no stale heartbeat, proved |
| `BoardProofs` | the safety properties of one coordinator at work and the refinement of `TaskBoard`, proved |
| `DeliveryProofs` | the safety properties of `MessageDelivery`, proved, with the lemmas about `WaiterRegistry` they rest on |
| `AutomationProofs` | the safety properties of `Automations`, and that run numbers grow, proved |
| `MobileProofs` | one connection at a time, and that failed requests never ran unless the token was disowned, of `MobileRpc`, proved |
| `ScreencastProofs` | that frames reach their own listener and running casts have one, of `MobileRpc`, proved |
| `RelayProofs` | the safety properties of `RelayInstall`, proved |

### State

`db` is the database. An id is a number handed out once (the code draws random ids);
`nTask`, `nDisp`, ... count them. A row that does not exist has status `"none"`, and a
deleted message has `stored = FALSE`. `turn` is a synchronous loop over messages that
is in progress: it is taken one message per step, during which only a crash can
interfere. `coord[r]` is the Coordinator object of run `r` with its program counter and
the locals it holds over awaits; `active` is the module-level `activeCoordinator`;
`rpc[c]` is a pending `dispatch --inject`; `term` the terminals; `told` the dispatches
whose ids an agent knows.

### Actions and code

| Action | Code |
|---|---|
| `TaskCreate`, `TaskUpdate`, `GateCreate`, `GateResolve`, `Reset`, `Send` | the handlers of those names, each one synchronous step including reconciliation |
| `CheckBegin`, `HandleMessage`, `CheckEnd` | `orchestration.check` (consuming): read, reconcile each message, mark the batch read |
| `Run`, `RunStop` | `orchestration.run` up to the loop's first await; `runStop` |
| `LoopTest`, `HandleMessage`, `TickEnd` | `while (!stopped)`, `processMessages`, then mark read, restore gates, take ready tasks and slots |
| `ListTerminals`, `CreateTerminal`, `AssignNext`, `DispatchTask`, `Prompted` | `dispatchReadyTasks` and `dispatchTask`, split at their awaits |
| `CheckConvergence`, `Wake`, `Finish` | `checkConvergence`, `sleep`, the end of `executeLoop` and `run`'s `finally` |
| `DispatchRequest`, `DispatchChecked`, `DispatchPrompted`, `DispatchUninjected` | `orchestration.dispatch` with and without `--inject` |
| `TerminalExit` | `failActiveDispatchOnExit` |
| `Crash` | the runtime process dies and restarts |

`MessageDelivery` has state of its own: `msg` (the `messages` table with both columns),
`call` (the long polls in progress), `reg` (the registry), `agent` (idle, working or
gone), `enter` (the batches whose Enter key is due), and three history variables,
`shown`, `seen` and `excused`, that say which banners were written, which rows a client
got and which were consumed for another reason.

| Action | Code |
|---|---|
| `Send`, `GroupSend`, `Reply`, `ResetMessages` | `orchestration.send` to one handle and to a group, `reply`, `reset --messages`, with the push and the wake-up each makes |
| `CheckStart`, `CheckResume` | `orchestration.check --wait` up to its await, and after it |
| `Ask`, `AskResume` | `orchestration.ask` up to its first await, and one turn of its loop |
| `Timeout`, `Abort` | the waiter's timer; the client's socket closes |
| `BecomeIdle`, `BecomeBusy` | a terminal's title changes (`applyTrackedPtyTitle`), with the push on idle |
| `EnterKey` | the delayed Enter key of `deliverPendingMessages` |
| `Exit` | a terminal exits, with the hook's escalation |

`Orchestration` and `MessageDelivery` are two views of the `messages` table that keep
different columns. What the first computes exactly, the second allows: reconciliation
there may mark any heartbeat it could concern. What the second adds (waiting, pushing)
changes no task or dispatch. A restart of the process is not an action of
`MessageDelivery`: waiters and timers die with it and handles are drawn anew.

Abstractions: task specs, message texts, titles, timestamps, priorities, row-size and
row-count limits of queries, logging and the preamble are left out. In
`Orchestration` all messages are addressed to the one coordinator handle. The message types `dispatch`, `handoff` and
`merge_ready` change nothing anywhere and are represented by `status`. The drift
probe and `isTerminalRunningAgent` answer nondeterministically. A task's `result` and
a dispatch's `beat` hold the id of the message that wrote the column, which lets
properties speak about who wrote it.

### The task board

`TaskBoard` knows tasks, workers and strikes. `OrchestrationBoard` reads it off the database:
a task's stage is its status, who has it is the assignee of its active dispatch, its
strikes are the largest failure count among its dispatches. `ImplementsBoard` says that
whatever loop, agents and exit hook do is posting, taking, finishing or striking. Two
things in it are easy to get wrong: the count lives on dispatch rows and survives a
retry only because `createDispatchContext` carries it over, and one exit is counted by
several reporters, which the board allows (`Strike` of an open task) and which must still
never revive a task that is done or dropped. It holds for callers that leave gates,
status overrides, resets and manual dispatch calls alone; each of those is an operator's way
around the board.

### Relay installation

`dir` is the version directory (there or not, `.install-complete`, a daemon that answers),
`mark` the lock and the claim with maker, owner token and whether they are past their
limit, `steal` the `.steal.N` directories, `loc[p]` a client's position and locals,
`remote[p]` what it left running on the host. `loc[p].task` names the routine: `start`,
`install`, `repair`, `fence` (launch without a repair), `wait` (after a conflict), `scan`
and `gc` (collector before and with its claim). Every action is one remote command with
the code up to the next; `Outcomes` says whether it was answered, ran with its reply lost, or
never ran.

| Action | Code |
|---|---|
| `StealRead`, `StealCheck`, `StealMove`, `StealCreate` | the commands of `posixStealInstallLockCommand` |
| `AcquireClaim`, `WriteOwner`, `DropClaim`, `WaitClaim` | `tryAcquireRelayGcClaim`, `writeRelayGcClaimOwner`, `releaseRelayGcClaim`, a turn of `waitForRelayGcClaimRelease` |
| `Start`, `CreateParent`, `CreateLock`, `Recheck`, `BackOff`, `StaleCheck`, `Poll`, `GiveUp` | `deployAndLaunchRelayAttempt` up to the lock, and `acquireInstallLock` |
| `RepairProbe`, `Classify` | what is particular to `tryAcquireRelayRepairLock` |
| `Held`, `InstallDone`, `InstallFails`, `Abandon` | install or repair under the lock, `finalizeInstall`, `abandonInstall` |
| `Fenced`, `LaunchDone`, `LaunchFails` | `acquireRelayLaunchGcFence` and `launchRelay` |
| `GcLock`, `GcComplete`, `GcSocket`, `GcOwned`, `GcMove` | `isCandidateSafeToRemove`, asked twice, then `isRelayGcClaimOwned` and the `mv` of `gcOldRelayVersions` |
| `Crash`, `RemoteEnds`, `DaemonExits`, `Ages`, `Sleep` | clients, hosts and clocks |

Abstractions: POSIX hosts only (not the PowerShell scripts); one candidate directory;
legacy layouts and the removal of tombstones are left out; what is uploaded and built is one
step; a client runs once.

### Automations

`auto` and `run` are the two tables, `pass` the locals of `evaluateDueRuns` with its flag,
`job[r]` what drives a run (a headless dispatch or the hook, and `dispatchMarked`), `collect`
the usage collections that `markDispatchResult` awaits, `serve` the mode of the process.

| Action | Code |
|---|---|
| `EvaluateDueRuns`, `EvaluateAutomation`, `Advance`, `PassEnds` | `evaluateDueRuns` and `evaluateAutomation` with `createAutomationRun`, `requestDispatch`, `advanceAutomationNextRun` |
| `HeadlessPrecheck`, `HeadlessLaunch`, `HeadlessCompletes` | `requestHeadlessDispatch` and its completion callback |
| `HookPrepares`, `HookLaunches`, `HookMarks`, `HookCompletes`, `HookRetires` | `useAutomationDispatchEvents.ts` |
| `PageCompletes` | the completion effect of `AutomationsPage.tsx` |
| `CollectEnds` | `markDispatchResult` after its await |
| `CreateAutomation`, `UpdateSchedule`, `UpdateEnabled`, `DeleteAutomation`, `RunNow` | the store's methods and `runNow` |
| `Mount`, `Unmount`, `Restart`, `Clock`, `AgentEnds` | window, process, time, agent |

Abstractions: a recurrence rule is the set of its moments; the four `skipped_...` statuses
are one; a final status carries no reason; usage is a flag; dispatch tokens, the reuse of a session,
a failing flush of the store and a rejecting usage scan are left out; the hook's launch is
assumed to settle. Two manual runs in one millisecond, which would share a run, are
assumed away.

### Mobile client and screencasts

`cast[<<i, s>>]` is subscription `i` on connection `s`: where it is between the awaits of
`browserScreencast`, its page, the cast whose end it awaits, and marks for its flags
(`cancelled`, `stopped`, `ended`) and for the properties (`told`, `late`). The three tables
of the code (by connection, by page, debugger sessions by page) are the sets of places
`Registered`, `OnPage` and `OnDebugger`, because a cast is entered and removed at the awaits
that separate the places. `waiters` orders the casts in an await: those of one promise resume
in that order and before any other event (`Draining`). `up` and `down` are what is on its way;
`dead` connections carry nothing and neither end has been told. `client`, `stream` and `req` are
the client's locals, its `streamListeners` and its `pending` map; `ran` records what the desktop
executed.

| Action | Code |
|---|---|
| `ReconnectTimer`, `Foreground`, `OnOpen`, `ConnectFails`, `LinkTimeout` | `openConnection` with the connect timeout, `notifyForeground`, `ws.onopen`, handshake timeout and activity probe |
| `OnClose`, `LinkError` | `ws.onclose`, `ws.onerror`, with `handleSocketClosed`, `handleAuthRejection`, `scheduleReconnect` |
| `OnMessage` | `handleSocketMessage`: handshake, authentication with the replay of streams, `ready`, errors, replies, frames |
| `Subscribe`, `Dispose`, `CallRequest`, `RequestTimeout`, `Close` | the client's methods |
| `HostReceives`, `HostCloses` | `handleRawMessage` of the channel and what it dispatches; `abortWebSocketDispatches` and `cleanupSubscriptionsForConnection` |
| `RejectsToken` | `handleWebSocketMessage` of a connection that was let in, when `validateToken` does not find its device |
| `Resume`, `Resolved`, `Launched`, `LaunchFails`, `SessionDone` | `browserScreencast` from one await to the next; the loops `PageLoop`, `ConnectionLoop`, `SessionLoop` |
| `PageCloses`, `reclaimBrowserForDesktop`, `Frame` | the session ends by itself, the user takes the page back, a frame |
| `Break`, `Unpair` | the network; `revokeMobileDevice` |

`RejectsToken` is a fault. The client expects it ("a mid-session unauthorized may be transient",
`rpc-client.ts:512`, and `rpc-client.test.ts:929`), and the desktop can send it: between
`removeDevice` and `terminateDeviceConnections` of `revokeMobileDevice` (`runtime-rpc.ts:554`)
two calls may throw, and the connections of a device that is no longer known stay up. It may come
at any message. A request may be executed and answered later or never (`HostReceives`), as a slow
handler does; what the phone gets then is a timeout or one of the rejections. A request that is rejected with the token is
`"unauthorized"`, one rejected with the mark of unknown delivery `"unknown"`, any other `"failed"`.

Abstractions: a connection is dialled once; `closing` is closing or closed; of each cast at
most one frame is on its way; the desktop's own handshake timeout ends like the phone's;
calls on a client that was closed, memory budgets, probe bookkeeping, E2EE v2, the relay
transport and its supervisor, and streams other than screencasts are left out. After `Close`
no more faults happen. No listener of the connection state subscribes to a screencast while
`setState('connected')` calls it, before the streams are replayed: `rpc-client.ts:449` guards
against one that does, but the listeners there are (`mobile-endpoint-supervisor.ts`,
`mobile-direct-endpoint-probe.ts`, `stable-logical-rpc-client.ts`, `mobile-relay-rpc-session.ts`,
`mobile-relay-direct-upgrade-controller.ts`, `client-context.tsx`) only note the state or start
something asynchronous, so the test of `sent` in `ReplayStream` never bites in the model.

## 3. Runs

Deadlock is not checked: when nobody calls, no
run is active and all bounds are used up, the system rests.

| Run | Result | What it shows |
|---|---|---|
| `MCDag` | pass | one coordinator, a DAG with a join, an exit, failing prompts: `OneActiveDispatchPerTask`, `DependenciesFirst`, `ConcurrencyBound`, `BreakerIsFinal`, `CompletedIsFinal`, and the refinement `ImplementsBoard` |
| `MCApi` | pass | a manual dispatch call beside the loop, status overrides, task resets and an exit under a prompt in flight, on one pane with two handles: `TypeOK`, `DispatchLock`, `DispatchedIsAssigned` |
| `MCGates` | pass | gates opened by call and by mail, resolved at any time, beside escalations and failing prompts and stale trees: `GateBlocks`; under `LoopSpec`, without any assumption on workers, `StopIsHonoured`; and `RunEnds` for workers that report |
| `MCMail` | pass | stale, misattributed, foreign and re-read lifecycle mail, filters, message resets, stale trees, failing terminals, a crash in a batch: `LifecycleAuthority`, `EarlierHeartbeatsAreRead` |
| `MCDelivery` | pass | two long polls (`check --wait`, `ask`) on two handles, with a filter, limits, timers, disconnects and exits, beside push-on-idle with failing writes, groups, lifecycle mail, late Enter keys and a user-owned prompt: `TypeOK`, `SlotsAreExact`, `NoLostWakeup`, `DeliveredWasShown`, `ReadWasSeen` |
| `MCDeliveryLive` | pass | `WaitEnds` and `MailIsPushed` under `PushSpec` |
| `MCRelay` | pass | three deployers and a collector with one fault: `TypeOK`, `OneInstallerUntilMoved`, `MoveIsFenced`, `NoLiveMove` |
| `MCRelayLive` | pass | `DeployProceeds` under `FairSpec`, also after the maker of a lock or claim died |
| `MCRelayRace` | violation | "serialize concurrent first-installs via a host-native exclusive lock" (`ssh-relay-deploy.ts:331`): without any fault two clients install at once |
| `MCAutomations` | pass | two automations with a manual run, edit, deletion, restart, closed or reloaded window: `TypeOK`, `OneRunPerOccurrence`, `DispatchedOnce`, `LateResultsLand`, `SkippedNeverRan`, `FinalIsKept`; under `FairSpec` also `DueIsServed`, `RequestSettles` |
| `MCMobile` | pass | two screencasts of one page or of two, and a request, over two connections with one fault: `TypeOK`, `OneConnection`, `FailedWasNotRun`, `FramesReachOwnStream`, `NoOrphanCast`; under `FairSpec` also `StreamsResume` |
| `MCMobileReject` | violation | "pending entries only exist after a successful socket write, so a close here means the host may have processed them — mark the ambiguity for callers" (`rpc-client.ts:833`): an executed request is rejected without the mark |

How `MCRelayRace` goes: a client creates the lock, finds a claim under it and decides to back
off; the collector saw no lock before that and moves the directory away, lock included; a
second client creates directory and lock anew and installs; the first one's `rm -rf` of the
lock's path removes that lock, and a third entry (or the first client, started over) gets
it. `OneInstallerUntilMoved` shows that a move is the only way to get there.

How `MCMobileReject` goes: the phone sends two requests over one connection; the desktop executes
the first, whose answer takes a while, and answers the second with `unauthorized`. The client
gives the socket up (`handleAuthRejection`) and rejects both with `rejectAllPending(reason)`, without
the mark that the close of a socket sets for the same requests. A chat message among them is
then reported as not sent (`mobile-native-chat-send.ts:36` tells the two apart by the mark) although the agent
has it. `FailedWasNotRun`, without these rejections, holds.

### Remarks

Disagreements met while modelling that no run of the project records. Each can be seen by
changing a constant or adding a property:

* Skill guide, `skill-guides/orchestration.md:124`: a circuit breaker "after 3 consecutive
  failures on one task". One exit can count three times: exit hook, failing prompt, and the
  escalation the hook mails.
* `orchestration-gates.ts:12`, "Only one coordinator can run at a time": `reset --tasks`
  removes the run row of a living loop, and the next `run` starts a second one.
* `db.ts:809`, no "completed task leaves its ready children unpromoted": a child created
  after its dependencies completed stays pending (`NoStrandedChild`).
* `coordinator.ts:531`, `checkConvergence` ends a run when all tasks are completed or failed.
  A pending dependent of a failed task is neither, so the loop polls for ever. `RunEnds`
  excuses this and the previous case by name (`Stuck`).
* `db.ts:528`, "push-on-idle delivers each row at most once": a second send to a still idle
  agent, before the Enter key of the first, writes the first banner again.
* `GateBlocks` is checked, and proved, as long as no task has a second gate. With `MaxGates` = 2 it fails: `resolveGate` makes
  the task ready although its other gate is open (`db.ts:1148`), and a dispatch call that
  comes before the next tick takes it.
* `check --wait --types ","` parses to an empty list. The query takes that for no filter
  (`Selects`), the waiter for a filter that nothing passes (`wakes`), so the call sleeps
  beside mail until its timeout; `NoLostWakeup` fails with `{}` among `FilterChoices`.
* `NoLostWakeup` leaves suppressed mail out: a heartbeat that reconciliation marks as read and that
  is threaded to a question neither wakes the asker nor is it noticed before its next turn.
* `skill-guides/orchestration.md:98` says that `check --wait` returns one message at a
  time; `ReadAndReturn` returns, and marks read, all that match.
* `NoLiveMove` speaks of the first move and of no sleep. After a move the back-off by path
  can remove the fence of a launch; after a suspension `writeRelayGcClaimOwner` writes its
  token into a claim that another client made (`ssh-relay-gc-claim.ts:117`).
* `isRelayGcClaimOwned` and the `mv` are two commands (`ssh-relay-versioned-install.ts:237`,
  `:242`). A collector whose machine sleeps between them long enough for its claim to be
  stolen wakes up and moves the directory, under whoever has locked it since. `MoveIsFenced`
  excuses that and nothing else: a machine slept, and no collector at its `mv` has its claim.
* A client that loses the reply of its own `mkdir` waits for a lock it made itself, until
  deploy's timeout; the lock becomes stale only after that.
* `service.ts:141` wants a known usage never replaced. `run.usage` is read before the await,
  so two reports of one run's end each collect.
* An automation deleted or disabled while a pass awaits an earlier one is still dispatched
  from the pass's list; if it was deleted, the advance then throws and ends the pass
  (the rest is served by the next, which is what `DueIsServed` checks).
* `advanceAutomationNextRun` gets the clock of the pass, so an edit made during an await can
  be followed by an occurrence that lies before it.
* A window that reloads leaves `rendererReady` set. A run dispatched before the page
  listens again stays in `dispatching` for good; `RequestSettles` excuses reloads and restarts.
* `rpc-client.ts:1064` routes frames only after the new stream's `ready`, "to drop stale
  old-page pixels", and `orca-runtime.ts:29830` says that a same-socket replacement "cancels
  and waits here instead of racing". An older cast that still waits for its page
  (`orca-runtime.ts:29776`) does race: it resumes after the newer one has registered, cancels
  it without a word and streams into the newer view. It takes a page that an earlier connection or
  a second phone holds. The newer cast may also have ended by then (its page failed, the phone
  disposed of it). `FramesReachOwnStream` and `StreamsResume` excuse a cast that is admitted after a newer
  one of its connection (`late`); without the excuse each fails in `MCMobile`.
* A replayed stream keeps the subscription id of the earlier connection
  (`markStreamsForReplay`) until the new `ready`. Disposed in between, it unsubscribes from a
  cast that is over and leaves no tombstone: the new cast runs on with no listener.
  `NoOrphanCast` excuses it.
* If that dispose comes while the client is `handshaking`, the unsubscription is the first
  message the desktop sees after `e2ee_ready`; it is refused as bad authentication, which uses
  up one of `AUTH_RETRY_BUDGET`.
* A streaming `end` does not remove the client's listener (`rpc-client.ts:520`), so a cast
  that ended is started again after the next reconnection.
* A rejection of the handshake goes through the same `rejectAllPending` without the mark
  (`rpc-client.ts:724`). It does no harm: nothing is pending before authentication.
* A restart between dispatch and advance finds the run of the occurrence and dispatches it
  again, whatever its status; `DispatchedOnce` therefore counts per process and
  `FinalIsKept` excuses restarts.

Bounds. `MaxTasks` = 3 in `MCDag` is the smallest DAG with a join, elsewhere one or two
tasks suffice because the properties relate at most two. Three dispatches are what the
breaker needs and give one retry after a re-dispatch in the other runs; two or three
messages give a stale one beside a current one and a re-read after a crash. One exit,
one crash: a second one repeats the first from a state the model already reaches.
Terminals: two workers are the minimum for a conflict, and the pane of one of them can
be the moved pane of the other (`TwinPaneOf`), have a legacy key (`PairPaneOf`) or be
unknown (`w3`). Which operations a run enables is listed in its cfg; a property that
manual overrides make meaningless (`OneActiveDispatchPerTask` when an operator sets a
running task back to ready) is checked without them.

`MCRelay`: the violation in `MCRelayRace` needs two deployers, a theft needs a dead maker
and two thieves, hence three deployers; a second collector repeats the first, and only its
own moves are unsafe then. One fault is any one of a failed command, a lost reply, a crash
or a suspension, at any command. `SYMMETRY` permutes deployers and permutes collectors.
`MCRelayLive` has no symmetry and two deployers.

`MCAutomations`: two automations make the pass a list with something behind the
failing element; two moments make an occurrence missed (`Grace` = 0) or served; two runs
are two occurrences, or a manual run beside one; `MaxKept` = 1 lets retention bite at the
second. `MaxUpsets` = 1 allows one of run now, edit, deletion, restart, closed or reloaded
window. That run numbers (`nextAutomationRunNumber`) are never
issued twice needs three runs; it is not checked but proved (`RunNumbersGrow`).

`MCMobile`: two streams are what overtaking takes, one that an earlier connection still
holds and one that replaces it, on the same page (a rotation of the phone) or on another
(navigation to another tab). Two connections give one reconnection; a client whose timer runs when none is
left is excused by `StreamsResume`. One fault is a broken link, a premature timeout, a revoked
pairing, a disowned token or a failing page, at any step; a dial that fails, an early close and the
foreground are no faults and not bounded. `GiveUp` = 1 and `AuthBudget` = 2 make the client
reach its limits and go on below them. That a newer cast has ended
before the older one is admitted takes a second fault, which the theorem `FramesAreOwn` covers.

`MCMobileReject`: two requests are what it takes, one that is executed and one that is rejected;
streams would only lengthen the run.

For `MessageDelivery`: two messages are a question and its answer, which can arrive between a
wake-up and the turn it causes, or mail and a second delivery before the Enter key of
the first; two calls may share a handle, and the two handles together exceed the byte budget. `SYMMETRY` is over the
calls, which no action tells apart. The long polls of `MCDelivery` use one filter, which the mail of the run
passes or not; those of `MCDeliveryLive` use none. `check --peek` and `--all` are modelled (`Modes`), and the theorems
cover them; the runs wait for unread mail.

Fairness. `LoopFairness` is weak fairness of each coordinator and of a message loop in
progress: the awaits are promises that settle and a timer, and a synchronous loop runs to
its end; `LoopSpec` has no other. Two hypotheses are stated in `RunEnds` itself.
`WorkersReport` assumes that the assignee of a running dispatch it was told of
eventually sends `worker_done`; it is strong fairness because a request that comes in
during a turn is served right after it. `FaultsEnd` assumes that not every prompt fails and
not every tree is stale for ever. `TimersFire` (timers and continuations of settled promises run)
is what Node guarantees; it is strong fairness for timers because another call's
continuation may run first. `TurnsTaken` assumes that an agent that is not gone comes to
rest and gets busy again and again; `MailIsPushed` needs it, because only a change of the
title to idle starts a delivery of mail that came while the agent worked, or as a reply.

In `RelayInstall` commands and timers end (`WF` of a client's step), and marks age: the lock's
twenty minutes exceed deploy's fifteen and the commands it leaves (`ssh-relay-deploy-timing.ts`),
so `Ages` waits for the maker to be over; a claim is not stale while what it
guards is in progress, except by `Sleep`. `SF` of `StaleCheck` is the once-a-minute look of
a waiting installer. Nobody is assumed to give up, except (`SF`) a client that waits for an
orphan lock of its own making, where the timeout comes first. In `Automations` the
60-second timer fires again and again, and what is awaited settles; nothing is assumed of
agents, users, windows or the process. In `MobileRpc` the desktop reads what
arrives, notices connections that are gone, and what it awaits settles (`DesktopProceeds`); on
the phone timers fire and sockets that were closed report it (`PhoneProceeds`). Weak fairness of
the two suffices, since each is a disjunction over steps that run out. Nothing is
assumed of the app, the network, pages or frames.

## 4. Proofs

Every theorem is about all values of the constants: any number of tasks, terminals,
messages, calls, automations, connections, streams, requests, relay clients, faults. The assumptions are the named ones of the modules and
only give the constants their types (`BoundsAssumption`, `PaneAssumption`,
`EnvironmentAssumption`, `RegistryAssumption`, `DeliveryAssumption`, `ScheduleAssumption`,
`LimitAssumption`, `CastAssumption`, `MobileAssumption`, `ClientAssumption`, `EnvAssumption`). Where a theorem needs more of the callers, that is a hypothesis of the
theorem and is named below. Each invariant was checked by TLC as an
invariant of the runs before it was proved.

| Module | Theorem | Property | Hypothesis |
|---|---|---|---|
| `OrchestrationProofs` | `TypeCorrect` | `TypeOK` | |
| | `DispatchLockHolds` | `DispatchLock` | |
| | `DispatchedHasDispatch` | `DispatchedIsAssigned` | `NoManualDispatch` |
| `LifecycleProofs` | `ReportsHaveAuthority` | `LifecycleAuthority` | `NoManualCompletion` |
| | `NoStaleHeartbeats` | `EarlierHeartbeatsAreRead` | |
| `BoardProofs` | `OneAgentPerTask`, `DagOrder`, `BreakerHolds`, `SlotsSuffice`, `CompletedIsForGood` | `OneActiveDispatchPerTask`, `DependenciesFirst`, `BreakerIsFinal`, `ConcurrencyBound`, `CompletedIsFinal` | `Alone` |
| | `BoardIsImplemented` | `ImplementsBoard` | `Alone` |
| | `GateHoldsTask`, `OneGateBlocks` | `GateBlocks` | `Unmeddled`; no task has a second gate yet, or `MaxGates = 1` |
| `DeliveryProofs` | `DeliveryTypeCorrect`, `SlotsHold` | `TypeOK`, `SlotsAreExact` | |
| | `WakeupsAreNotLost` | `NoLostWakeup` | no empty filter |
| | `ReadMailWasReturned`, `StampedMailWasShown` | `ReadWasSeen`, `DeliveredWasShown` | |
| `AutomationProofs` | `AutomationsTypeCorrect`, `OccurrencesRunOnce`, `NoSecondDispatch` | `TypeOK`, `OneRunPerOccurrence`, `DispatchedOnce` | |
| | `ResultsLand`, `SkippedHasNoAgent`, `FinalStatusIsKept` | `LateResultsLand`, `SkippedNeverRan`, `FinalIsKept` | |
| | `RunNumbersGrow` | (stated in the theorem) | |
| `MobileProofs` | `MobileTypeCorrect`, `OneConnectionHolds`, `FailedRequestsNeverRan` | `TypeOK`, `OneConnection`, `FailedWasNotRun` | |
| `ScreencastProofs` | `FramesAreOwn`, `NoCastIsOrphaned` | `FramesReachOwnStream`, `NoOrphanCast` | |
| `RelayProofs` | `RelayTypeCorrect`, `OneInstallerAtATime` | `TypeOK`, `OneInstallerUntilMoved` | |
| | `MovesAreFenced`, `MovedRelayIsDown` | `MoveIsFenced`, `NoLiveMove` | |

**The lock and the types.** `TypeOK` alone is not inductive: a prompt that ends writes the ids
of its call, so `CallsInProgress` says that a call which has reached its prompt holds a task and a
dispatch id. The lock rests on one relation between databases, `Releases(D, E)`: a
dispatch active in `E` was active in `D` with the same assignee. Every writing operator
is shown to satisfy `Writes(D, E)` (`E` is a database and `Releases(D, E)`), the relation
composes, and it preserves the lock; the one operator that does not satisfy it,
`createDispatchContext`, is guarded by `findActiveDispatchForAssignee`, and that guard
is exactly what the new row needs, pane equivalence being symmetric.

**Assignment.** The invariant adds `Allocated`: rows beyond the counters do not exist, so that
the row `createDispatchContext` inserts is its task's newest and belongs to no other task. Every
other write satisfies `Keeps(D, E)`: dispatches neither appear nor vanish, and a task that is
dispatched afterwards was so before with none of its dispatches changed. The hypothesis
(`"dispatched" \notin ManualStatuses`) is needed: `task-update --status dispatched` is accepted
by the handler and gives a task that no one works on.

**Authority of reports.** `Authentic` says of every completed task that its result is the id of a
stored or once stored `worker_done` that was not rejected and came from the pane or handle of the
dispatch it completed, and the same of every heartbeat recorded (`Signed`, `Alive`). It is
inductive only with `Mailed`: message ids are never issued again, nothing refers to a
message yet to come, and the heartbeats older than a completion are read (`Suppressed`, which is
`EarlierHeartbeatsAreRead`); and with `TodoKnown`: a message loop holds messages that
exist. Most writes disturb none of it (`Calm`); what is left are `worker_done`, `heartbeat` and
`createDispatchContext`. `NoManualCompletion` (`"completed" \notin ManualStatuses`) is needed
because an operator's `task-update` signs nothing.

**One coordinator and the board.** `Alone` says that no status is set by hand, no gate is opened,
only messages are reset and nobody calls `dispatch`. Each is needed: a status set by hand or a gate
that is resolved makes a task ready while an agent still works on it, `reset --tasks` lets a second
loop start beside the first, and a manual dispatch takes a task without asking for a slot. Nothing is
assumed of agents, mail, prompts, exits, trees and crashes. `BoardInv` has
`Regular` for the database: ids are allocated in order (`Rows`), a task is where its newest
dispatch left it and its older dispatches failed (`Matched`), failures only grow along the
dispatches of a task and decide between `failed` and `circuit_broken` (`Counted`), and
`DependenciesFirst` (`Ordered`). Three parts tie it to the processes: at most one run is live and
its loop holds the turn (`Coordinated`); the dispatch being prompted is the newest of all and not
told yet, so no report can complete it meanwhile (`Told`); the dispatched tasks and the
slots still in hand of a tick do not exceed `MaxConcurrent` (`Booked`). A step is shown to be one of
four relations between databases: `Taken`, `Done`, `Struck`, or neither (`Untouched`, `Posted`); the
invariant, `CompletedIsFinal` and the step of the board then follow per relation, not per
action. For `BoardIsImplemented` the mapping is shown to take the initial state to the board's
and each relation to the action of the board it is named for.

**Gates.** `Unmeddled` is `Alone` with gates: any number of them, opened by call or by mail and resolved
at any time. `GateHoldsTask` says that `GateBlocks` holds in every state in which no task has been asked
for a second gate (`OneGateEach`); after that it is false (see the remarks). A gate is not
kept by the tables alone: a prompt that fails, an exit or an escalation puts a gated task back to
`ready`, and only the next tick blocks it again. So the invariant `GateInv` has, for a task without a
resolved gate, that an agent at work on it has its newest dispatch and the task is shown as `dispatched`
(`Lone`), and that an open gate finds it `blocked`, `ready` or `failed` (`Held`); and for every loop
that no task which it may still dispatch in this tick is gated and `ready` (`Watched`). That is kept because
a tick first blocks the gated tasks (`TickEndGentle`), because an escalation is handled while no
loop is past its mail (`OneLoop`), and because the task of a failing prompt has left the loop's list
(`Apart`) and its dispatch is the newest of all. A gate once asked for stays on record (`Records`),
so `OneGateEach` in a state implies it in all before. `MCGates` is the case `MaxGates = 1`.

**The registry and long polls.** `DeliveryProofs` begins with lemmas about the registry: that `retain` and `settle` keep the relation
`Exact`: the waiters are the calls that wait, the counters are their number and the bytes of the
handles that have any. `BytesOf` is a fold; the induction
theorems take an operator, so its equations are proved by taking a minimal set for which
they fail, which is why the sets of handles and calls are assumed finite. `Typed` (tables, calls
and `Exact`) is inductive and gives `DeliveryTypeCorrect` and `SlotsHold`.
`Awake` is the invariant of the wake-ups: a waiting call's mailbox has nothing for it (`Quiet`), and
the same of an `ask` that was woken after its client had left (`LeftAlone`), which marks a reply
as read although nobody gets it; `ReadMailWasReturned` needs that. The hypothesis `{} \notin
FilterChoices` of `WakeupsAreNotLost` is the case of `--types ","` in the remarks. `Accounted` adds to the two
properties that every batch waiting for its Enter key has been written (`Banners`).

**Automations.** `AutomationsInv` has, besides `TypeOK`: rows beyond the counter do not exist
(`Known`); later runs of an automation have larger numbers, and its newest run is stored (`Numbered`), because
retention evicts final runs but keeps the newest (lemma `Pruned`), so that the largest
stored number is the largest ever issued; a pass waits for at most one run, its own (`Passing`); an
occurrence that this process has handled lies before `nextRunAt`, unless the pass has yet to advance it, and
before the occurrence for which an automation on the pass's list would be served (`Served`). `Served` is why
no run is dispatched twice: the run that `createAutomationRun` finds instead of making one was
handled by no one in this process. `Staged` says where a run is: before its launch it has no agent,
an open status and nothing collected; in the desktop it stays `dispatching` until the hook has
marked it. First versions of `Passing` and `Staged` held in every state but were not inductive: a
run that a pass waits for is a headless one, and the hook's request leaves the status alone.

**The phone's client.** `MobileInv` ties the client to its sockets and to what is under way. `Linked` is
`OneConnection` with what each client state says of the socket it holds, and that a connected client
was accepted by the desktop; the latter needs `Vouched` of the queue to the phone. `Honest` is
`FailedWasNotRun` of the executed requests and of the queues to the desktop, of connections already
given up too; it is inductive only with `Pending`: while the client is not connected nothing is
pending. A rejection in mid-session finds requests that may have run; they become
`"unauthorized"`, which the property excepts, and `MCMobileReject` shows why it must. Types depend on more than they seem to: the desktop's loops start a cast that the phone asked
for, which must not have begun (`Once`: a stream is asked for once per connection; `Unsent`: what is not
sent has neither a request on its way nor a cast), a dial finds a connection on which nothing has
happened (`Unopened`), and `rejections` stays within its budget because a client at the budget is
closed. The phone's callbacks are functions of its state (`Phone`), so the proof has one lemma per
function (`SendSubscribeSound`, `DisposeSound`, ..., each saying that it keeps `Sound`) and one
per action that puts them together; the desktop's stretches are shown to be `Evolves`, which composes
over the three loops. `Authenticated` replays streams and requests in order by a fold over a finite set,
whose turns are reasoned about by a minimal counterexample, as in `DeliveryProofs`. The assumptions
that the sets of streams and requests are finite and that the first connection exists are there for
this proof and hold of every run of the program.

**The order of screencasts.** `FramesReachOwnStream` and `NoOrphanCast` relate what the phone shows to
casts that the desktop may have ended or not yet begun, through the queues between them. The
invariant `OrderInv` has a half for each side, and neither is inductive without the other. `Orderly` is
the desktop's, per connection: one cast is registered at a time (`Exclusive`); a cast registered after a newer one
is over, or with a frame behind the newer one's `ready`, is marked `late` (`Succession`, `Sequenced`); and
nothing is said of a cast before it has happened (`Spoken`, `Finished`). The mark is the excuse of the
property, and it is set where the code loses the order: the three loops re-check their own
registry after each await, but not whether a newer request of the same connection was served meanwhile. `Tidy` is
what the phone relies on: on its connection nothing newer than what it shows or
awaits was asked for (`Newer`; `Fresh` before it is connected), so that such a cast has no frame under way;
the cast it shows has started, and an older one's frame is a late one's (`Tuned`); a stream it
has forgotten does not run there, or the order to end it is under way, or it was disposed of under the
subscription id of an earlier connection (`Known`, `Loose`), unless a rejection of the token is on its way
(`Rejected`; the desktop drops the message it rejects, which may be the order to end a cast); a subscription id is that of a
cast that has started (`Named`); and the app subscribes in the order of its numbers (`InTurn`). A stretch
of the desktop is shown to move the casts as `Lawful` says and to send only what is true by then
(`Says`), which keeps both halves; the phone has one lemma per callback, as for `MobileInv`. A first
version of the property had no excuse; it held with one fault, and fails with two.

**The relay's lock and claim.** `OneInstallerUntilMoved` is inductive only together with what
each client believes of the lock and of the claim. `HasLock` and `Guarded` name the steps, and the
commands left running, that rest on one of them; `LockIsOwn` and `ClaimIsOwn` say that the mark which is
there is then the client's own (for the claim, with its token in it). To keep that through thefts the
invariant needs `LockAges` (a stale lock belongs to a client that is over), `OneThief` (one script at a time
is past its `.steal.N`) and `Thieves` (what it is about to move is the stale mark it has read). The proof
covers a dead thief's `.steal.N` too, which the next script removes. `LockIsOwn`, and `OneThief` of the lock, hold until a
directory has been moved, `ClaimIsOwn` until a machine has slept: a back-off removes a lock by its path, and
a late `writeRelayGcClaimOwner` fills in a claim by its path. `Excluded` is the handshake of the two
marks: under the claim of a collector that has looked at the lock (`Sure`), whoever made the lock which is
there has not gone to work (`Idle`); it holds in every state, after moves and sleeps too, but it speaks of a
collector that has its claim. At the `mv` nothing checks that: `ClaimIsOwn` gives it as long as no machine has slept, and
`MovesAreFenced` needs a collector at its `mv` that has it after that. `Asleep` does the same for the socket that the collector
probes again under its claim. A step of a client is first shown to be `Acts`: what it may do to the lock
(`LockSide`), the claim (`ClaimSide`), the `.steal.N` directories (`StealSide`) and the directory
(`DirSide`), and what it must have seen (`Sight`). One lemma per action shows `Acts`, one lemma per part
of the invariant that `Acts` keeps it, so that no part is proved for thirty actions.

**Checked by TLC only.** Every invariant and action property of a passing run, and the refinement, is
a theorem, some under the hypotheses in the table. The liveness properties are not
(`StopIsHonoured`, `RunEnds`, `WaitEnds`, `MailIsPushed`, `DeployProceeds`, `DueIsServed`,
`RequestSettles`, `StreamsResume`): fairness is outside the prover's reach.

## 5. Not modelled, and the plan

1. A statement-level module of `updateTaskStatus`, `createDispatchContext`, `failDispatch`
   and `createGate` with a crash between statements.
2. Other subsystems in order of interest: terminal daemon sessions, the SSH relay's
   reconnection, the relay revocation outbox, the phone's relay transport and its supervisor.

Left out for good: views, vendor integrations, drivers, formatting helpers and read-only
queries; they are listed with reasons in `PROJECT.json`.
