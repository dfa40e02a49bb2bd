----------------------------- MODULE RelayInstall -----------------------------
(***************************************************************************)
(* One version directory of the relay on a remote host, and the Orca       *)
(* clients that share it over SSH.  Deployers install, repair and launch   *)
(* the relay in it; collectors are clients of another version that want to *)
(* remove it.  They meet only in the file system: an install lock inside   *)
(* the directory and a GC claim beside it, both directories that mkdir     *)
(* creates for one winner.  A client is one connection and runs once.  The *)
(* commands are those for POSIX hosts.                                     *)
(***************************************************************************)
EXTENDS Naturals

CONSTANTS Deployers,     \* connections that deploy this version
          Collectors,    \* connections that garbage-collect it
          Nobody,        \* the maker of a lock or claim that does not exist
          InitialDir,    \* the directory as the clients find it
          MaxFaults      \* how many faults: a command that fails or loses its reply,
                         \* a client that crashes, a machine that sleeps

Clients == Deployers \cup Collectors
Marks == {"lock", "claim"}
Ended == {"done", "failed", "dead"}

Dirs == [present: BOOLEAN, complete: BOOLEAN, alive: BOOLEAN]
NoDir == [present |-> FALSE, complete |-> FALSE, alive |-> FALSE]
EmptyDir == [NoDir EXCEPT !.present = TRUE]

ASSUME ClientAssumption == Nobody \notin Clients /\ Deployers \cap Collectors = {}
ASSUME EnvAssumption == InitialDir \in Dirs /\ MaxFaults \in Nat

VARIABLES
    dir,     \* the version directory: .install-complete, a daemon's socket
    mark,    \* the lock and the claim: who made it, older than its limit, owner token
    steal,   \* whose .steal.N directories exist beside each of them
    loc,     \* the locals of each client
    remote,  \* what a client left running on the host: "npm", "start"
    faults,  \* how many faults there have been
    moved,   \* history: a collector has moved the directory away
    slept    \* history: a client slept while it held a claim

vars == <<dir, mark, steal, loc, remote, faults, moved, slept>>

Absent == [by |-> Nobody, old |-> FALSE, owner |-> Nobody]
Made_EmptyToken(p) == [by |-> p, old |-> FALSE, owner |-> ""]
Made(p) == [by |-> p, old |-> FALSE, owner |-> Nobody]
Exists(m) == mark[m].by # Nobody
Stale_Never(m) == FALSE
Stale(m) == Exists(m) /\ mark[m].old
Installed == dir.present /\ dir.complete

\* How an SSH command ends: answered, run with its reply lost, or never run.
Outcomes == IF faults < MaxFaults THEN {"ok", "lost", "unsent"} ELSE {"ok"}
\* A probe changes nothing: it is answered, or its caller sees an error.
Answers == Outcomes \ {"lost"}
Count(o) == faults' = IF o = "ok" THEN faults ELSE faults + 1

----------------------------------------------------------------------------
(* Locals of a client: pc, the routine it is in (task), the mark a steal   *)
(* is after and the maker it has read, where a removal returns to, and     *)
(* whether deploy believes to own the install lock.                        *)

Local(t, s) == [pc |-> s, task |-> t, aim |-> "lock", seen |-> Nobody,
                then |-> "done", ownsInstallLock |-> FALSE]

At(p, s) == loc[p].pc = s
Task(p) == loc[p].task
Waits(p) == Task(p) \in {"install", "wait"}

To(p, s) == loc' = [loc EXCEPT ![p].pc = s]
Begin(p, t, s) == loc' = [loc EXCEPT ![p] = Local(t, s)]
\* RelayDirectoryGcConflictError: wait for the claim, then start again.
Conflict(p) == Begin(p, "wait", "waitClaim")
LaunchFence(p) == Begin(p, "fence", "acquireClaim")
StartSteal(p, m) == loc' = [loc EXCEPT ![p].pc = "stealRead", ![p].aim = m]
\* Remove the lock, or release the claim, and go on at s.
RemoveThen(p, how, s) == loc' = [loc EXCEPT ![p].pc = how, ![p].then = s]
Resume(p) == IF loc[p].then = "conflict" THEN Conflict(p) ELSE To(p, loc[p].then)

----------------------------------------------------------------------------
(* The steal script: one shell script, but other clients' commands may     *)
(* fall between its commands.                                              *)

Stealing(q, m) == loc[q].pc \in {"stealMove", "stealCreate"} /\ loc[q].aim = m

\* The mark is the one this script read, and still stale.
SameMark_Any(p, m) == Exists(m)
SameMark(p, m) == mark[m].by = loc[p].seen /\ Stale(m)

StealEnds(p, ok) ==
    LET q == [loc[p] EXCEPT !.seen = Nobody]
        On(s) == [q EXCEPT !.pc = s]
    IN loc' = [loc EXCEPT ![p] =
        CASE q.aim = "lock" /\ ok -> On("recheck")
          [] q.aim = "lock" /\ ~ok -> On(IF q.task = "install" THEN "poll" ELSE "classify")
          [] q.aim = "claim" /\ ok -> On("writeOwner")
          [] q.aim = "claim" /\ ~ok -> CASE Waits(p) -> On("waitClaim")
                                         [] q.task = "fence" -> Local("wait", "waitClaim")
                                         [] OTHER -> On("done")]

\* Read the identity and the age; a young or missing mark is BUSY.
StealRead(p) ==
    /\ At(p, "stealRead")
    /\ LET m == loc[p].aim IN
       \E o \in Answers :
         /\ Count(o)
         /\ IF o = "ok" /\ Stale(m)
            THEN loc' = [loc EXCEPT ![p].pc = "stealCheck", ![p].seen = mark[m].by]
            ELSE StealEnds(p, FALSE)
    /\ UNCHANGED <<dir, mark, steal, remote, moved, slept>>

\* mkdir .steal.N, past those whose script died, and read the identity again.
StealCheck(p) ==
    /\ At(p, "stealCheck")
    /\ LET m == loc[p].aim
           mine == (m = "lock" => dir.present) /\ \A q \in steal[m] : ~Stealing(q, m)
       IN IF mine /\ SameMark(p, m)
          THEN /\ steal' = [steal EXCEPT ![m] = @ \cup {p}]
               /\ To(p, "stealMove")
          ELSE /\ steal' = IF mine THEN [steal EXCEPT ![m] = {}] ELSE steal
               /\ StealEnds(p, FALSE)
    /\ UNCHANGED <<dir, mark, remote, faults, moved, slept>>

\* mv to a tombstone: whatever is at the path now.
StealMove(p) ==
    /\ At(p, "stealMove")
    /\ LET m == loc[p].aim IN
       IF Exists(m)
       THEN /\ mark' = [mark EXCEPT ![m] = Absent]
            /\ To(p, "stealCreate")
            /\ UNCHANGED steal
       ELSE /\ steal' = [steal EXCEPT ![m] = {}]
            /\ StealEnds(p, FALSE)
            /\ UNCHANGED mark
    /\ UNCHANGED <<dir, remote, faults, moved, slept>>

\* mkdir the successor; the EXIT trap removes every .steal.N.
StealCreate(p) ==
    /\ At(p, "stealCreate")
    /\ LET m == loc[p].aim
           won == ~Exists(m) /\ (m = "lock" => dir.present)
       IN \E o \in Outcomes \ {"unsent"} :
            /\ Count(o)
            /\ mark' = IF won THEN [mark EXCEPT ![m] = Made(p)] ELSE mark
            /\ steal' = [steal EXCEPT ![m] = {}]
            /\ StealEnds(p, won /\ o = "ok")
    /\ UNCHANGED <<dir, remote, moved, slept>>

----------------------------------------------------------------------------
(* The GC claim.                                                           *)

\* tryAcquireRelayGcClaim up to the steal.
AcquireClaim(p) ==
    /\ At(p, "acquireClaim")
    /\ LET won == ~Exists("claim") IN
       \E o \in Outcomes :
         /\ Count(o)
         /\ mark' = IF won /\ o # "unsent" THEN [mark EXCEPT !["claim"] = Made(p)] ELSE mark
         /\ CASE o = "ok" /\ won -> To(p, "writeOwner")
              [] o = "ok" /\ ~won -> StartSteal(p, "claim")
              [] o # "ok" -> IF Task(p) = "fence" THEN Conflict(p) ELSE To(p, "done")
    /\ UNCHANGED <<dir, steal, remote, moved, slept>>

\* Where a client goes once its token is written, and when it could not be.
Owner(p) ==
    CASE Task(p) = "install" -> RemoveThen(p, "dropClaim", "parent")
      [] Task(p) = "wait" -> RemoveThen(p, "dropClaim", "start")
      [] Task(p) = "fence" -> To(p, "fenced")
      [] OTHER -> To(p, "gcLock")
NoOwner(p) ==
    RemoveThen(p, "dropClaim", CASE Waits(p) -> "waitClaim"
                                 [] Task(p) = "fence" -> "conflict"
                                 [] OTHER -> "done")

\* The token goes into whatever claim is at the path; a new file renews its age.
WriteOwner(p) ==
    /\ At(p, "writeOwner")
    /\ \E o \in Outcomes :
         /\ Count(o)
         /\ mark' = IF Exists("claim") /\ o # "unsent"
                    THEN [mark EXCEPT !["claim"].owner = p,
                                      !["claim"].old = @ /\ mark["claim"].owner # Nobody]
                    ELSE mark
         /\ IF Exists("claim") /\ o = "ok" THEN Owner(p) ELSE NoOwner(p)
    /\ UNCHANGED <<dir, steal, remote, moved, slept>>

\* releaseRelayGcClaim: only the claim that holds our token is removed.
DropClaim(p) ==
    /\ At(p, "dropClaim")
    /\ LET owned == mark["claim"].owner = p
           released == owned \/ ~Exists("claim")
       IN \E o \in Outcomes :
            /\ Count(o)
            /\ mark' = IF owned /\ o # "unsent" THEN [mark EXCEPT !["claim"] = Absent] ELSE mark
            /\ IF Waits(p) /\ ~(released /\ o = "ok") THEN To(p, "waitClaim") ELSE Resume(p)
    /\ UNCHANGED <<dir, steal, remote, moved, slept>>

\* One turn of waitForRelayGcClaimRelease; a failed probe counts as claimed.
WaitClaim(p) ==
    /\ At(p, "waitClaim")
    /\ \E o \in Answers :
         /\ Count(o)
         /\ IF o = "ok" /\ ~Exists("claim")
            THEN To(p, IF Task(p) = "install" THEN "parent" ELSE "start")
            ELSE StartSteal(p, "claim")
    /\ UNCHANGED <<dir, mark, steal, remote, moved, slept>>

----------------------------------------------------------------------------
(* The install lock.                                                       *)

\* deployAndLaunchRelayAttempt: is the relay installed?
Start(p) ==
    /\ At(p, "start")
    /\ \E o \in Answers :
         /\ Count(o)
         /\ IF o = "ok" /\ Installed THEN Begin(p, "repair", "repairProbe")
                                     ELSE Begin(p, "install", "waitClaim")
    /\ UNCHANGED <<dir, mark, steal, remote, moved, slept>>

\* The probe that opens tryAcquireRelayRepairLock.
RepairProbe(p) ==
    /\ At(p, "repairProbe")
    /\ \E o \in Answers :
         /\ Count(o)
         /\ CASE o # "ok" -> LaunchFence(p)
              [] o = "ok" /\ Exists("claim") -> Conflict(p)
              [] o = "ok" /\ ~Exists("claim") -> To(p, "parent")
    /\ UNCHANGED <<dir, mark, steal, remote, moved, slept>>

CreateParent(p) ==
    /\ At(p, "parent")
    /\ \E o \in Outcomes :
         /\ Count(o)
         /\ dir' = IF dir.present \/ o = "unsent" THEN dir ELSE EmptyDir
         /\ To(p, CASE o = "ok" -> "create"
                    [] o # "ok" -> IF Task(p) = "install" THEN "failed" ELSE "classify")
    /\ UNCHANGED <<mark, steal, remote, moved, slept>>

CreateLock(p) ==
    /\ At(p, "create")
    /\ LET won == dir.present /\ ~Exists("lock") IN
       \E o \in Outcomes :
         /\ Count(o)
         /\ mark' = IF won /\ o # "unsent" THEN [mark EXCEPT !["lock"] = Made(p)] ELSE mark
         /\ CASE won /\ o = "ok" -> To(p, "recheck")
              [] Task(p) = "install" /\ ~(won /\ o = "ok") -> To(p, "contended")
              [] Task(p) = "repair" /\ o = "ok" /\ ~won -> StartSteal(p, "lock")
              [] Task(p) = "repair" /\ o # "ok" -> To(p, "classify")
    /\ UNCHANGED <<dir, steal, remote, moved, slept>>

\* The claim is probed again under the lock: one side backs off.
Recheck(p) ==
    /\ At(p, "recheck")
    /\ \E o \in Answers :
         /\ Count(o)
         /\ CASE o = "ok" /\ ~Exists("claim") -> To(p, "held")
              [] o = "ok" /\ Exists("claim") -> RemoveThen(p, "backOff", "conflict")
              [] o # "ok" -> RemoveThen(p, "backOff", "acquireClaim")
    /\ UNCHANGED <<dir, mark, steal, remote, moved, slept>>

\* rm -rf of the lock path, whoever made what is there.
RemoveLock(o) ==
    /\ Count(o)
    /\ mark' = IF o = "unsent" THEN mark ELSE [mark EXCEPT !["lock"] = Absent]

BackOff(p) ==
    /\ At(p, "backOff")
    /\ \E o \in Outcomes : RemoveLock(o)
    /\ CASE Task(p) = "install" -> To(p, "contended")
         [] Task(p) = "repair" -> IF loc[p].then = "conflict" THEN Conflict(p) ELSE LaunchFence(p)
    /\ UNCHANGED <<dir, steal, remote, moved, slept>>

\* Once a minute a waiting installer looks for a stale lock.
StaleCheck(p) ==
    /\ At(p, "contended")
    /\ StartSteal(p, "lock")
    /\ UNCHANGED <<dir, mark, steal, remote, faults, moved, slept>>

Poll(p) ==
    /\ loc[p].pc \in {"contended", "poll"}
    /\ To(p, "waitClaim")
    /\ UNCHANGED <<dir, mark, steal, remote, faults, moved, slept>>

\* The bounded wait for the lock expires, or deploy's timeout aborts a wait.
GiveUp(p) ==
    /\ loc[p].pc \in {"contended", "poll", "waitClaim"}
    /\ To(p, "failed")
    /\ UNCHANGED <<dir, mark, steal, remote, faults, moved, slept>>

\* classifyRepairLockContention: 'busy' and 'error' both lead to a launch fence.
Classify(p) ==
    /\ At(p, "classify")
    /\ \E o \in Answers :
         /\ Count(o)
         /\ IF o = "ok" /\ Exists("claim") THEN Conflict(p) ELSE LaunchFence(p)
    /\ UNCHANGED <<dir, mark, steal, remote, moved, slept>>

----------------------------------------------------------------------------
(* Under a fence: install, repair, launch.                                 *)

\* The lock is ours: probe again what was probed before it was taken.
Held(p) ==
    /\ At(p, "held")
    /\ LET Own(s) == loc' = [loc EXCEPT ![p].pc = s, ![p].ownsInstallLock = TRUE] IN
       \E o \in Answers :
         /\ Count(o)
         /\ \/ o = "ok" /\ Installed /\ Own("launch")
            \/ o = "ok" /\ Installed /\ Task(p) = "repair" /\ Own("installing")
            \/ ~(o = "ok" /\ Installed) /\ Task(p) = "install" /\ Own("installing")
            \/ ~(o = "ok" /\ Installed) /\ Task(p) = "repair" /\ RemoveThen(p, "abandon", "conflict")
            \/ o # "ok" /\ Task(p) = "repair" /\ RemoveThen(p, "abandon", "failed")
    /\ UNCHANGED <<dir, mark, steal, remote, moved, slept>>

\* Upload, native dependencies and finalizeInstall end well.
InstallDone(p) ==
    /\ At(p, "installing")
    /\ dir.present
    /\ dir' = [dir EXCEPT !.complete = TRUE]
    /\ To(p, "launch")
    /\ UNCHANGED <<mark, steal, remote, faults, moved, slept>>

\* They fail; the remote command may be known to have ended, or not.
InstallFails(p) ==
    /\ At(p, "installing")
    /\ \E o \in Outcomes, confirmed \in BOOLEAN :
         /\ Count(o) /\ (o = "ok" => ~dir.present)
         /\ remote' = IF confirmed THEN remote ELSE [remote EXCEPT ![p] = @ \cup {"npm"}]
         /\ CASE Task(p) = "repair" ->
                   loc' = [loc EXCEPT ![p].pc = "launch", ![p].ownsInstallLock = confirmed]
              [] Task(p) = "install" /\ confirmed -> RemoveThen(p, "abandon", "failed")
              [] Task(p) = "install" /\ ~confirmed -> To(p, "failed")
    /\ UNCHANGED <<dir, mark, steal, moved, slept>>

\* abandonInstall, also the release after a launch.
Abandon(p) ==
    /\ At(p, "abandon")
    /\ \E o \in Outcomes : RemoveLock(o)
    /\ Resume(p)
    /\ UNCHANGED <<dir, steal, remote, moved, slept>>

\* acquireRelayLaunchGcFence under its claim: still installed?
Fenced(p) ==
    /\ At(p, "fenced")
    /\ \E o \in Answers :
         /\ Count(o)
         /\ \/ o = "ok" /\ Installed /\ To(p, "launch")
            \/ ~(o = "ok" /\ Installed) /\ RemoveThen(p, "dropClaim", "conflict")
            \/ o # "ok" /\ RemoveThen(p, "dropClaim", "failed")
    /\ UNCHANGED <<dir, mark, steal, remote, moved, slept>>

\* The daemon answers, and the fence is given up.
LaunchDone(p) ==
    /\ At(p, "launch")
    /\ Installed
    /\ dir' = [dir EXCEPT !.alive = TRUE]
    /\ CASE loc[p].ownsInstallLock -> RemoveThen(p, "abandon", "done")
         [] Task(p) = "fence" -> RemoveThen(p, "dropClaim", "done")
         [] OTHER -> To(p, "done")
    /\ UNCHANGED <<mark, steal, remote, faults, moved, slept>>

\* It does not answer in time: the fence stays, and so may the detached start.
LaunchFails(p) ==
    /\ At(p, "launch")
    /\ \E o \in Outcomes, left \in SUBSET {"start"} :
         /\ Count(o) /\ (o = "ok" => ~Installed)
         /\ remote' = [remote EXCEPT ![p] = @ \cup left]
    /\ To(p, "failed")
    /\ UNCHANGED <<dir, mark, steal, moved, slept>>

----------------------------------------------------------------------------
(* gcOldRelayVersions for this candidate, before ("scan") and after ("gc") *)
(* it has the claim.                                                       *)

\* One question of isCandidateSafeToRemove; without a clear answer it is kept.
Ask(p, now, safe, next) ==
    /\ At(p, now)
    /\ \E o \in Answers :
         /\ Count(o)
         /\ CASE o = "ok" /\ safe -> next
              [] ~(o = "ok" /\ safe) -> IF Task(p) = "gc" THEN RemoveThen(p, "dropClaim", "done")
                                                           ELSE To(p, "done")
    /\ UNCHANGED <<dir, mark, steal, remote, moved, slept>>

GcLock_Ignored(p) == Ask(p, "gcLock", TRUE, To(p, "gcComplete"))
GcLock(p) == Ask(p, "gcLock", Exists("lock") => Stale("lock"), To(p, "gcComplete"))

GcComplete(p) == Ask(p, "gcComplete", Installed, To(p, "gcSocket"))

GcSocket_OnlyInScan(p) ==
    Ask(p, "gcSocket", dir.alive => Task(p) = "gc",
        IF Task(p) = "gc" THEN To(p, "gcOwned") ELSE Begin(p, "gc", "acquireClaim"))
GcSocket(p) ==
    Ask(p, "gcSocket", ~dir.alive,
        IF Task(p) = "gc" THEN To(p, "gcOwned") ELSE Begin(p, "gc", "acquireClaim"))

\* isRelayGcClaimOwned: a probe that fails counts as a claim that is lost.
GcOwned(p) == Ask(p, "gcOwned", mark["claim"].owner = p, To(p, "gcMove"))

\* The mv, a command of its own: it does not look at the claim.  One whose
\* termination is unconfirmed keeps the claim.
GcMove(p) ==
    /\ At(p, "gcMove")
    /\ \E o \in Outcomes :
         /\ Count(o)
         /\ IF dir.present /\ o # "unsent"
            THEN /\ dir' = NoDir /\ moved' = TRUE
                 /\ mark' = [mark EXCEPT !["lock"] = Absent]
                 /\ steal' = [steal EXCEPT !["lock"] = {}]
            ELSE UNCHANGED <<dir, mark, steal, moved>>
         /\ \/ RemoveThen(p, "dropClaim", "done")
            \/ o # "ok" /\ To(p, "done")
    /\ UNCHANGED <<remote, slept>>

----------------------------------------------------------------------------
(* The environment.                                                        *)

\* A client dies; what it runs on the host may go on.
Crash(p) ==
    /\ loc[p].pc \notin Ended
    /\ faults < MaxFaults /\ faults' = faults + 1
    /\ \E left \in SUBSET {"npm", "start"} :
         /\ "npm" \in left => At(p, "installing")
         /\ "start" \in left => At(p, "launch")
         /\ remote' = [remote EXCEPT ![p] = @ \cup left]
    /\ Begin(p, Task(p), "dead")
    /\ UNCHANGED <<dir, mark, steal, moved, slept>>

\* A command left behind ends; a late start may bring up the daemon.
RemoteEnds(p) ==
    /\ \E r \in remote[p] :
         /\ remote' = [remote EXCEPT ![p] = @ \ {r}]
         /\ \/ dir' = dir
            \/ r = "start" /\ Installed /\ dir' = [dir EXCEPT !.alive = TRUE]
    /\ UNCHANGED <<mark, steal, loc, faults, moved, slept>>

\* The daemon exits after its grace period.
DaemonExits ==
    /\ dir.alive
    /\ dir' = [dir EXCEPT !.alive = FALSE]
    /\ UNCHANGED <<mark, steal, loc, remote, faults, moved, slept>>

Over(p) == loc[p].pc \in Ended /\ remote[p] = {}

\* p is in a sequence that its claim guards: a GC pass, a launch, a recovery.
UsesClaim(p) ==
    \/ loc[p].pc \in {"writeOwner", "dropClaim", "fenced"}
    \/ Task(p) = "gc" /\ loc[p].pc \in {"gcLock", "gcComplete", "gcSocket", "gcOwned", "gcMove"}
    \/ Task(p) = "fence" /\ (At(p, "launch") \/ remote[p] # {})

\* A mark passes its limit.  Twenty minutes exceed what a deploy and the
\* commands it leaves behind may take, ten minutes what a claim guards.
Ages(m) ==
    /\ Exists(m) /\ ~mark[m].old
    /\ IF m = "lock" THEN Over(mark[m].by) ELSE ~UsesClaim(mark[m].by)
    /\ mark' = [mark EXCEPT ![m].old = TRUE]
    /\ UNCHANGED <<dir, steal, loc, remote, faults, moved, slept>>

\* Except that the machine of a client in the middle of a GC pass or of a
\* recovery may be suspended.
Sleep ==
    /\ faults < MaxFaults /\ faults' = faults + 1
    /\ Exists("claim") /\ ~mark["claim"].old /\ Task(mark["claim"].by) # "fence"
    /\ mark' = [mark EXCEPT !["claim"].old = TRUE]
    /\ slept' = TRUE
    /\ UNCHANGED <<dir, steal, loc, remote, moved>>

----------------------------------------------------------------------------
Init ==
    /\ dir = InitialDir
    /\ mark = [m \in Marks |-> Absent]
    /\ steal = [m \in Marks |-> {}]
    /\ loc = [p \in Clients |-> IF p \in Deployers THEN Local("start", "start")
                                                   ELSE Local("scan", "gcLock")]
    /\ remote = [p \in Clients |-> {}]
    /\ faults = 0 /\ moved = FALSE /\ slept = FALSE

Step(p) ==
    \/ StealRead(p) \/ StealCheck(p) \/ StealMove(p) \/ StealCreate(p)
    \/ AcquireClaim(p) \/ WriteOwner(p) \/ DropClaim(p) \/ WaitClaim(p)
    \/ Start(p) \/ RepairProbe(p) \/ CreateParent(p) \/ CreateLock(p) \/ Recheck(p)
    \/ BackOff(p) \/ StaleCheck(p) \/ Poll(p) \/ Classify(p)
    \/ Held(p) \/ InstallDone(p) \/ InstallFails(p) \/ Abandon(p)
    \/ Fenced(p) \/ LaunchDone(p) \/ LaunchFails(p)
    \/ GcLock(p) \/ GcComplete(p) \/ GcSocket(p) \/ GcOwned(p) \/ GcMove(p)

Next ==
    \/ \E p \in Clients : Step(p) \/ GiveUp(p) \/ Crash(p) \/ RemoteEnds(p)
    \/ DaemonExits \/ Sleep
    \/ \E m \in Marks : Ages(m)

Spec == Init /\ [][Next]_vars

\* Commands and timers end, time passes, and a waiting installer's minute comes
\* round.  Nobody gives up, but for a client that waits for a lock of its own
\* that it does not know of: deploy's timeout comes before that lock is stale.
Fairness ==
    /\ \A p \in Clients : WF_vars(Step(p))
    /\ \A p \in Deployers : /\ SF_vars(StaleCheck(p))
                            /\ SF_vars(mark["lock"].by = p /\ GiveUp(p))
    /\ WF_vars(\E p \in Clients : RemoteEnds(p))
    /\ WF_vars(\E m \in Marks : Ages(m))

FairSpec == Spec /\ Fairness

----------------------------------------------------------------------------
\* The steps of a client, the routines they belong to, and where a removal returns to.
Pcs == {"start", "waitClaim", "repairProbe", "parent", "create", "recheck", "backOff",
        "contended", "poll", "classify", "held", "installing", "launch", "abandon",
        "acquireClaim", "writeOwner", "fenced", "dropClaim",
        "stealRead", "stealCheck", "stealMove", "stealCreate",
        "gcLock", "gcComplete", "gcSocket", "gcOwned", "gcMove"} \cup Ended
Tasks == {"start", "install", "repair", "fence", "wait", "scan", "gc"}
Thens == {"done", "failed", "conflict", "parent", "start", "waitClaim", "acquireClaim"}

\* Types of the state.
TypeOK ==
    /\ dir \in Dirs
    /\ mark \in [Marks -> [by: Clients \cup {Nobody}, old: BOOLEAN, owner: Clients \cup {Nobody}]]
    /\ steal \in [Marks -> SUBSET Clients]
    /\ remote \in [Clients -> SUBSET {"npm", "start"}]
    /\ faults \in 0..MaxFaults /\ moved \in BOOLEAN /\ slept \in BOOLEAN
    /\ loc \in [Clients -> [pc: Pcs, task: Tasks, aim: Marks, seen: Clients \cup {Nobody},
                            then: Thens, ownsInstallLock: BOOLEAN]]

\* p uses the directory under the install lock, or left a command in it.
Working(p) ==
    \/ loc[p].pc \in {"held", "installing"}
    \/ At(p, "launch") /\ loc[p].ownsInstallLock
    \/ remote[p] # {}

\* A collector about to move the directory still has its claim.
MoverHasClaim == \E g \in Collectors : At(g, "gcMove") /\ mark["claim"].owner = g

\* gcOldRelayVersions never moves the directory away under a client that still
\* holds the install lock it works under (or whose remote command does): the
\* lock check under the claim and the claim check under the lock exclude each
\* other, through crashes, lost replies and thefts.  A machine that sleeps while
\* it holds the claim breaks it only where the claim is stolen from it and the mv
\* follows all the same: isRelayGcClaimOwned is a command before it.
MoveIsFenced ==
    [][dir.present /\ ~dir'.present
         => \A p \in Clients : Working(p) /\ mark["lock"].by = p
                                => slept /\ ~MoverHasClaim]_vars

\* The first directory that gcOldRelayVersions moves away has no live relay in it:
\* a launch either still holds its fence or has its socket up when the socket is
\* probed for the second time.  (After a move, and after a sleep, it fails: the
\* back-off removes a lock, and writeRelayGcClaimOwner fills in a claim, by path.)
NoLiveMove == [][dir.present /\ ~dir'.present /\ ~moved /\ ~slept => ~dir.alive]_vars

\* p uploads or builds in the directory, or its npm still does.
Mutates(p) == At(p, "installing") \/ "npm" \in remote[p]

\* acquireInstallLock and tryAcquireRelayRepairLock admit one client at a time to
\* the directory.  The code breaks it: the back-off removes a lock by its path.
OneInstaller == \A p, q \in Clients : Mutates(p) /\ Mutates(q) => p = q

\* Until a collector has moved the directory away they do: no theft, crash, lost
\* reply or left-over remote npm lets a second client in.
OneInstallerUntilMoved == moved \/ OneInstaller

\* deployAndLaunchRelay recovers from what others leave behind: a client that
\* starts, or waits for a claim, ends or gets to launch the relay, even when the
\* maker of the lock or of the claim has died.
DeployProceeds ==
    \A p \in Deployers : loc[p].pc \in {"start", "waitClaim"} ~> loc[p].pc \in Ended \cup {"launch"}
=============================================================================
