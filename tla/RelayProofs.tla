----------------------------- MODULE RelayProofs -----------------------------
(***************************************************************************)
(* Proofs about RelayInstall, for every set of deployers and collectors,   *)
(* every number of faults and every directory they start from: who may be  *)
(* at work in the version directory, and when it may be moved away.        *)
(*                                                                         *)
(* A step of a client is first reduced to what it does to the lock, to the *)
(* claim, to the .steal.N directories and to its own place (Acts); that    *)
(* this keeps the invariant is proved once, for all of them.               *)
(***************************************************************************)
EXTENDS RelayInstall, TLAPS

-----------------------------------------------------------------------------
(* Where a client can be, and with which locals.                           *)

Stealers == {"stealRead", "stealCheck", "stealMove", "stealCreate"}
GcPcs == {"gcLock", "gcComplete", "gcSocket", "gcOwned", "gcMove"}

InstallPcs == Stealers \cup
    {"waitClaim", "writeOwner", "dropClaim", "parent", "create", "recheck", "backOff",
     "contended", "poll", "held", "installing", "launch", "abandon"}
RepairPcs == Stealers \cup
    {"repairProbe", "parent", "create", "classify", "recheck", "backOff", "held",
     "installing", "launch", "abandon"}
FencePcs == Stealers \cup {"acquireClaim", "writeOwner", "fenced", "launch", "dropClaim"}
WaitPcs == Stealers \cup {"waitClaim", "writeOwner", "dropClaim", "start"}
GcRunPcs == Stealers \cup GcPcs \cup {"acquireClaim", "writeOwner", "dropClaim"}

Locals == [pc : Pcs, task : Tasks, aim : Marks, seen : Clients \cup {Nobody},
           then : Thens, ownsInstallLock : BOOLEAN]

\* The routine a client is in has the step it is at.
Place(l) ==
    \/ l.pc \in Ended
    \/ l.task = "start" /\ l.pc = "start"
    \/ l.task = "install" /\ l.pc \in InstallPcs
    \/ l.task = "repair" /\ l.pc \in RepairPcs
    \/ l.task = "fence" /\ l.pc \in FencePcs
    \/ l.task = "wait" /\ l.pc \in WaitPcs
    \/ l.task = "scan" /\ l.pc \in {"gcLock", "gcComplete", "gcSocket"}
    \/ l.task = "gc" /\ l.pc \in GcRunPcs

\* Only install and repair steal the lock; a repair steals nothing else.
Aimed(l) == l.pc \in Stealers =>
    IF l.aim = "lock" THEN l.task \in {"install", "repair"} ELSE l.task # "repair"

\* Where a removal returns to is a step of the routine that asked for it.
Returns(l) ==
    /\ l.pc = "dropClaim" => \/ l.task = "install" /\ l.then \in {"parent", "waitClaim"}
                             \/ l.task = "wait" /\ l.then \in {"start", "waitClaim"}
                             \/ l.task = "fence" /\ l.then \in {"conflict", "failed", "done"}
                             \/ l.task = "gc" /\ l.then = "done"
    /\ l.pc = "abandon" => l.then \in IF l.task = "install" THEN {"failed", "done"}
                                                            ELSE {"conflict", "failed", "done"}

\* A client behind a launch fence does not believe to own the lock.
Unlocked(l) == l.task = "fence" => ~l.ownsInstallLock

\* Commands left on the host are those of a launch or of a client that has ended.
Leaves(l, r) ==
    /\ r # {} => \/ l.pc \in Ended /\ l.task \in {"install", "repair", "fence"}
                 \/ l.pc = "launch" /\ l.task = "repair" /\ ~l.ownsInstallLock
    /\ "npm" \in r => l.task \in {"install", "repair"}

Fits(l, r) == Place(l) /\ Aimed(l) /\ Returns(l) /\ Unlocked(l) /\ Leaves(l, r)

MarkType == [by : Clients \cup {Nobody}, old : BOOLEAN, owner : Clients \cup {Nobody}]

\* The host's side, and the locals.
Kinds ==
    /\ dir \in Dirs
    /\ mark \in [Marks -> MarkType]
    /\ mark["claim"].owner # Nobody => Exists("claim")
    /\ steal \in [Marks -> SUBSET Clients]
    /\ remote \in [Clients -> SUBSET {"npm", "start"}]
    /\ faults \in 0..MaxFaults /\ moved \in BOOLEAN /\ slept \in BOOLEAN
    /\ loc \in [Clients -> Locals]

Typed == Kinds /\ \A p \in Clients : Fits(loc[p], remote[p])

-----------------------------------------------------------------------------
(* The invariant.                                                          *)

\* p has taken the install lock and not given it up, or died with a command running.
HasLock(p) ==
    \/ loc[p].pc \in {"recheck", "held", "installing", "abandon", "backOff"}
    \/ Task(p) \in {"install", "repair"} /\ (At(p, "launch") \/ remote[p] # {})

\* p works under the claim that holds its token.
Guarded(p) ==
    \/ At(p, "fenced")
    \/ Task(p) = "gc" /\ loc[p].pc \in GcPcs
    \/ Task(p) = "fence" /\ (At(p, "launch") \/ remote[p] # {})

\* p does not touch the directory until it has probed the claim again.
Outside == Stealers \cup
    {"start", "waitClaim", "repairProbe", "parent", "create", "recheck", "backOff",
     "contended", "poll", "classify", "acquireClaim"} \cup Ended
Idle(p) == loc[p].pc \in Outside /\ remote[p] = {}

\* A collector that has looked at the lock under its claim.
Sure(g) == Task(g) = "gc" /\ loc[g].pc \in {"gcComplete", "gcSocket", "gcOwned", "gcMove"}

\* A lock grows old only when its maker is over and done with.
LockAges == Stale("lock") => Over(mark["lock"].by)

\* Who has the lock made the one that is there.
LockIsOwn == ~moved => \A p \in Clients : HasLock(p) => mark["lock"].by = p

Unspoilt(m) == IF m = "lock" THEN ~moved ELSE ~slept

\* One client at a time steals a mark, and it steals the one that it has read.
OneThief == \A m \in Marks : (m = "claim" \/ ~moved) =>
    /\ \A q \in Clients : Stealing(q, m) => q \in steal[m]
    /\ \A q, r \in Clients : Stealing(q, m) /\ Stealing(r, m) => q = r
Thieves == \A m \in Marks : Unspoilt(m) =>
    \A q \in Clients : At(q, "stealMove") /\ loc[q].aim = m => SameMark(q, m)

\* A claim is used by who made it and holds its token, and not stolen meanwhile.
ClaimIsOwn == ~slept =>
    /\ mark["claim"].owner \in {Nobody, mark["claim"].by}
    /\ Stale("claim") => ~UsesClaim(mark["claim"].by)
    /\ \A p \in Clients : At(p, "writeOwner") => mark["claim"].by = p
    /\ \A p \in Clients : Guarded(p) => mark["claim"].by = p /\ mark["claim"].owner = p

\* Under the claim of a sure collector nobody with the lock is at work.
Excluded == \A g, p \in Clients :
    Sure(g) /\ mark["claim"].owner = g /\ mark["lock"].by = p => Idle(p)

\* No relay is alive once the collector has probed the socket under its claim.
Asleep == ~moved /\ ~slept => \A g \in Clients : loc[g].pc \in {"gcOwned", "gcMove"} => ~dir.alive

Inv == Typed /\ LockAges /\ LockIsOwn /\ OneThief /\ Thieves /\ ClaimIsOwn /\ Excluded /\ Asleep

-----------------------------------------------------------------------------
(* What a step of the client p does.                                       *)

Others(p) == \A q \in Clients : q # p => loc'[q] = loc[q] /\ remote'[q] = remote[q]

\* It makes the lock, removes the lock that it has, steals it, or leaves it alone.
LockSide(p) ==
    \/ mark'["lock"] = mark["lock"] /\ (HasLock(p)' => HasLock(p))
    \/ ~Exists("lock") /\ mark'["lock"] = Made(p) /\ Idle(p)'
    \/ /\ mark'["lock"] = Absent /\ ~HasLock(p)'
       /\ \/ HasLock(p)
          \/ At(p, "stealMove") /\ loc[p].aim = "lock"
    \/ moved' /\ mark'["lock"] = Absent

\* It makes the claim, puts its token in, releases it, steals it, or leaves it alone.
ClaimSide(p) ==
    \/ /\ mark'["claim"] = mark["claim"]
       /\ loc'[p].pc = "writeOwner" => At(p, "writeOwner")
       /\ Guarded(p)' => Guarded(p)
       /\ UsesClaim(p)' => UsesClaim(p)
    \/ ~Exists("claim") /\ mark'["claim"] = Made(p) /\ ~Guarded(p)'
    \/ /\ At(p, "writeOwner") /\ Exists("claim")
       /\ mark'["claim"].by = mark["claim"].by /\ mark'["claim"].owner = p
       /\ mark'["claim"].old => mark["claim"].old
       /\ loc'[p].pc \in {"fenced", "gcLock", "dropClaim"}
    \/ /\ mark'["claim"] = Absent /\ ~UsesClaim(p)'
       /\ \/ At(p, "dropClaim") /\ mark["claim"].owner = p
          \/ At(p, "stealMove") /\ loc[p].aim = "claim"

NoThief(m) == \A q \in steal[m] : ~Stealing(q, m)

\* It begins to steal m when nobody does, ends, or leaves the .steal.N alone.
ThiefSide(p, m) ==
    \/ steal'[m] = steal[m] /\ (Stealing(p, m)' => Stealing(p, m))
    \/ NoThief(m) /\ steal'[m] = steal[m] \cup {p}
    \/ steal'[m] = {} /\ ~Stealing(p, m)' /\ (Stealing(p, m) \/ NoThief(m))
    \/ m = "lock" /\ moved'
StealSide(p) ==
    /\ \A m \in Marks : ThiefSide(p, m)
    /\ loc'[p].pc = "stealMove" => SameMark(p, loc[p].aim)'

\* It looks at the lock before it is sure, and at the claim before it goes to work.
Sight(p) ==
    /\ Sure(p)' => Sure(p) \/ (Exists("lock") => Stale("lock"))
    /\ Idle(p) => Idle(p)' \/ ~Exists("claim") \/ mark'["claim"].owner = Nobody

\* It moves the directory away; it launches; it probes the socket.
DirSide(p) ==
    /\ \/ moved' = moved /\ (dir.present => dir'.present)
       \/ moved' /\ At(p, "gcMove")
    /\ dir'.alive => dir.alive \/ At(p, "launch") \/ remote[p] # {}
    /\ loc'[p].pc \in {"gcOwned", "gcMove"} => At(p, "gcOwned") \/ ~dir'.alive

Acts(p) ==
    /\ Kinds' /\ Others(p) /\ Fits(loc'[p], remote'[p]) /\ slept' = slept /\ ~Over(p)
    /\ LockSide(p) /\ ClaimSide(p) /\ StealSide(p) /\ Sight(p) /\ DirSide(p)

LEMMA NobodyOutside == Nobody \notin Clients
BY ClientAssumption

LEMMA ActsTyped ==
    ASSUME Typed, NEW p \in Clients, Acts(p)
    PROVE  Typed'
<1>1. Kinds' /\ Fits(loc'[p], remote'[p])
    BY DEF Acts
<1>2. ASSUME NEW q \in Clients PROVE Fits(loc'[q], remote'[q])
  <2>1. CASE q = p
      BY <1>1, <2>1
  <2>2. CASE q # p
      BY <2>2 DEF Acts, Others, Typed
  <2> QED BY <2>1, <2>2
<1> QED BY <1>1, <1>2 DEF Typed

LEMMA LockOwnerNotOver ==
    ASSUME Typed, NEW p \in Clients, HasLock(p)
    PROVE  ~Over(p)
BY DEF HasLock, Over, At, Task, Ended

LEMMA ActsLockAges ==
    ASSUME Typed, LockAges, NEW p \in Clients, Acts(p)
    PROVE  LockAges'
<1> SUFFICES ASSUME Stale("lock")' PROVE Over(mark["lock"].by)'
    BY DEF LockAges
<1>1. mark'["lock"] = mark["lock"]
    BY DEF Acts, LockSide, Stale, Exists, Made, Absent
<1>2. Stale("lock") /\ Over(mark["lock"].by)
    BY <1>1 DEF LockAges, Stale, Exists
<1>3. PICK q \in Clients : q = mark["lock"].by
    BY <1>2 DEF Typed, Kinds, MarkType, Marks, Stale, Exists
<1>4. Over(q) /\ q # p
    BY <1>2, <1>3 DEF Acts
<1>5. Over(q)'
    BY <1>4 DEF Acts, Others, Over
<1> QED BY <1>1, <1>3, <1>5 DEF Over

LEMMA ActsLockIsOwn ==
    ASSUME Typed, LockAges, LockIsOwn, Thieves, NEW p \in Clients, Acts(p)
    PROVE  LockIsOwn'
<1> SUFFICES ASSUME ~moved', NEW q \in Clients, HasLock(q)' PROVE mark'["lock"].by = q
    BY DEF LockIsOwn
<1>1. ~moved
    BY DEF Acts, DirSide
<1>2. CASE q = p
    BY <1>1, <1>2 DEF Acts, LockSide, LockIsOwn, Made
<1>3. CASE q # p
  <2>1. HasLock(q)
      BY <1>3 DEF Acts, Others, HasLock, At, Task
  <2>2. mark["lock"].by = q
      BY <1>1, <2>1 DEF LockIsOwn
  <2>3. Exists("lock")
      BY <2>2, NobodyOutside DEF Exists
  <2>4. ~HasLock(p)
      BY <1>1, <1>3, <2>2 DEF LockIsOwn
  <2>5. ~(At(p, "stealMove") /\ loc[p].aim = "lock")
    <3> SUFFICES ASSUME At(p, "stealMove"), loc[p].aim = "lock" PROVE FALSE
        OBVIOUS
    <3>1. SameMark(p, "lock")
        BY <1>1 DEF Thieves, Unspoilt, Marks
    <3>2. Over(q)
        BY <2>2, <3>1 DEF SameMark, LockAges
    <3> QED BY <2>1, <3>2, LockOwnerNotOver
  <2> QED BY <2>2, <2>3, <2>4, <2>5 DEF Acts, LockSide
<1> QED BY <1>2, <1>3

LEMMA ActsOneThief ==
    ASSUME Typed, OneThief, NEW p \in Clients, Acts(p)
    PROVE  OneThief'
<1> SUFFICES ASSUME NEW m \in Marks, m = "claim" \/ ~moved'
             PROVE  /\ \A q \in Clients : Stealing(q, m)' => q \in steal'[m]
                    /\ \A q, r \in Clients : Stealing(q, m)' /\ Stealing(r, m)' => q = r
    BY DEF OneThief
<1>1. m = "claim" \/ ~moved
    BY DEF Acts, DirSide
<1>2. /\ \A q \in Clients : Stealing(q, m) => q \in steal[m]
      /\ \A q, r \in Clients : Stealing(q, m) /\ Stealing(r, m) => q = r
    BY <1>1 DEF OneThief
<1>3. \A q \in Clients : q # p => (Stealing(q, m)' <=> Stealing(q, m))
    BY DEF Acts, Others, Stealing
<1>4. \/ steal'[m] = steal[m] /\ (Stealing(p, m)' => Stealing(p, m))
      \/ NoThief(m) /\ steal'[m] = steal[m] \cup {p}
      \/ steal'[m] = {} /\ ~Stealing(p, m)' /\ (Stealing(p, m) \/ NoThief(m))
    BY DEF Acts, StealSide, ThiefSide
<1>5. NoThief(m) => \A q \in Clients : ~Stealing(q, m)
    BY <1>2 DEF NoThief
<1> QED BY <1>2, <1>3, <1>4, <1>5

LEMMA ActsThieves ==
    ASSUME Typed, LockAges, LockIsOwn, OneThief, Thieves, ClaimIsOwn, NEW p \in Clients, Acts(p)
    PROVE  Thieves'
<1> SUFFICES ASSUME NEW m \in Marks, Unspoilt(m)', NEW q \in Clients,
                    At(q, "stealMove")', loc'[q].aim = m
             PROVE  SameMark(q, m)'
    BY DEF Thieves
<1>1. Unspoilt(m)
    BY DEF Acts, DirSide, Unspoilt
<1>2. CASE q = p
    BY <1>2 DEF Acts, StealSide, At
<1>3. CASE q # p
  <2>1. loc'[q] = loc[q] /\ At(q, "stealMove") /\ loc[q].aim = m
      BY <1>3 DEF Acts, Others, At
  <2>2. SameMark(q, m)
      BY <1>1, <2>1 DEF Thieves
  <2>3. ~Stealing(p, m)
    <3>1. Stealing(q, m) /\ (m = "claim" \/ ~moved)
        BY <1>1, <2>1 DEF Stealing, At, Unspoilt, Marks
    <3> QED BY <1>3, <3>1 DEF OneThief
  <2>4. ~(At(p, "stealMove") /\ loc[p].aim = m)
      BY <2>3 DEF Stealing, At
  <2>5. Exists(m) /\ mark[m].old /\ mark[m].by = loc[q].seen
      BY <2>2 DEF SameMark, Stale
  <2>6. CASE m = "lock"
    <3>1. Over(mark["lock"].by)
        BY <2>2, <2>6 DEF LockAges, SameMark
    <3>2. ~moved /\ ~moved'
        BY <1>1, <2>6 DEF Unspoilt
    <3>3. ~HasLock(p)
        BY <3>1, <3>2, LockOwnerNotOver DEF LockIsOwn
    <3>4. mark'["lock"] = mark["lock"]
        BY <2>4, <2>5, <2>6, <3>2, <3>3 DEF Acts, LockSide
    <3> QED BY <2>1, <2>2, <2>6, <3>4 DEF SameMark, Stale, Exists
  <2>7. CASE m = "claim"
    <3>1. ~slept
        BY <1>1, <2>7 DEF Unspoilt
    <3>2. ~UsesClaim(mark["claim"].by)
        BY <2>2, <2>7, <3>1 DEF ClaimIsOwn, SameMark
    <3>3. ~At(p, "writeOwner")
        BY <3>1, <3>2 DEF ClaimIsOwn, UsesClaim, At
    <3>4. ~(At(p, "dropClaim") /\ mark["claim"].owner = p)
        BY <3>1, <3>2, NobodyOutside DEF ClaimIsOwn, UsesClaim, At
    <3>5. mark'["claim"] = mark["claim"]
        BY <2>4, <2>5, <2>7, <3>3, <3>4 DEF Acts, ClaimSide
    <3> QED BY <2>1, <2>2, <2>7, <3>5 DEF SameMark, Stale, Exists
  <2> QED BY <2>6, <2>7 DEF Marks
<1> QED BY <1>2, <1>3

LEMMA ActsClaimIsOwn ==
    ASSUME Typed, Thieves, ClaimIsOwn, NEW p \in Clients, Acts(p)
    PROVE  ClaimIsOwn'
<1> DEFINE c == mark["claim"]
           d == mark'["claim"]
<1> SUFFICES ASSUME ~slept'
             PROVE  /\ d.owner \in {Nobody, d.by}
                    /\ Stale("claim")' => ~UsesClaim(mark["claim"].by)'
                    /\ \A q \in Clients : At(q, "writeOwner")' => d.by = q
                    /\ \A q \in Clients : Guarded(q)' => d.by = q /\ d.owner = q
    BY DEF ClaimIsOwn
<1>1. ~slept
    BY DEF Acts
<1>2. /\ c.owner \in {Nobody, c.by}
      /\ Stale("claim") => ~UsesClaim(c.by)
      /\ \A q \in Clients : At(q, "writeOwner") => c.by = q
      /\ \A q \in Clients : Guarded(q) => c.by = q /\ c.owner = q
    BY <1>1 DEF ClaimIsOwn
<1>3. \A q \in Clients : q # p =>
          /\ At(q, "writeOwner")' <=> At(q, "writeOwner")
          /\ Guarded(q)' <=> Guarded(q)
          /\ UsesClaim(q)' <=> UsesClaim(q)
    BY DEF Acts, Others, At, Guarded, UsesClaim, Task
<1>4. \A q \in Clients : At(q, "writeOwner") \/ Guarded(q) => UsesClaim(q)
    BY DEF UsesClaim, Guarded, At, GcPcs
<1>5. c.by \in Clients \cup {Nobody} /\ (Exists("claim") <=> c.by # Nobody)
    BY DEF Typed, Kinds, Marks, MarkType, Exists
<1>6. CASE /\ d = c
           /\ loc'[p].pc = "writeOwner" => At(p, "writeOwner")
           /\ Guarded(p)' => Guarded(p)
           /\ UsesClaim(p)' => UsesClaim(p)
  <2>1. ASSUME Stale("claim")' PROVE ~UsesClaim(mark["claim"].by)'
    <3>1. Stale("claim") /\ c.by \in Clients
        BY <1>5, <1>6, <2>1 DEF Stale, Exists
    <3>2. PICK q \in Clients : q = c.by
        BY <3>1
    <3>3. ~UsesClaim(q)'
        BY <1>2, <1>3, <1>6, <3>1, <3>2
    <3> QED BY <1>6, <3>2, <3>3 DEF UsesClaim, At, Task
  <2>2. At(p, "writeOwner")' => At(p, "writeOwner")
      BY <1>6 DEF At
  <2> QED BY <1>2, <1>3, <1>6, <2>1, <2>2
<1>7. CASE ~Exists("claim") /\ d = Made(p) /\ ~Guarded(p)'
  <2>1. d.by = p /\ d.owner = Nobody /\ ~d.old
      BY <1>7 DEF Made
  <2>2. \A q \in Clients : ~At(q, "writeOwner") /\ ~Guarded(q)
      BY <1>2, <1>5, <1>7, NobodyOutside
  <2> QED BY <1>3, <1>7, <2>1, <2>2 DEF Stale
<1>8. CASE /\ At(p, "writeOwner") /\ Exists("claim")
           /\ d.by = c.by /\ d.owner = p
           /\ d.old => c.old
           /\ loc'[p].pc \in {"fenced", "gcLock", "dropClaim"}
  <2>1. c.by = p /\ UsesClaim(p)
      BY <1>2, <1>4, <1>8
  <2>2. ~c.old
      BY <1>2, <1>8, <2>1 DEF Stale
  <2>3. \A q \in Clients : q # p => ~At(q, "writeOwner") /\ ~Guarded(q)
      BY <1>2, <2>1
  <2>4. ~At(p, "writeOwner")'
      BY <1>8 DEF At
  <2> QED BY <1>3, <1>8, <2>1, <2>2, <2>3, <2>4 DEF Stale
<1>9. CASE /\ d = Absent /\ ~UsesClaim(p)'
           /\ \/ At(p, "dropClaim") /\ c.owner = p
              \/ At(p, "stealMove") /\ loc[p].aim = "claim"
  <2>1. d.by = Nobody /\ d.owner = Nobody /\ ~d.old
      BY <1>9 DEF Absent
  <2>2. ASSUME NEW q \in Clients, q # p PROVE ~At(q, "writeOwner") /\ ~Guarded(q)
    <3>1. CASE At(p, "dropClaim") /\ c.owner = p
      <4>1. c.by = p
          BY <1>2, <3>1, NobodyOutside
      <4> QED BY <1>2, <2>2, <4>1
    <3>2. CASE At(p, "stealMove") /\ loc[p].aim = "claim"
      <4>1. Stale("claim")
          BY <1>1, <3>2 DEF Thieves, Unspoilt, Marks, SameMark
      <4> QED BY <1>2, <1>4, <4>1
    <3> QED BY <1>9, <3>1, <3>2
  <2>3. ~At(p, "writeOwner")' /\ ~Guarded(p)'
      BY <1>9 DEF UsesClaim, Guarded, At, GcPcs
  <2> QED BY <1>3, <2>1, <2>2, <2>3 DEF Stale
<1> QED BY <1>6, <1>7, <1>8, <1>9 DEF Acts, ClaimSide

LEMMA ActsExcluded ==
    ASSUME Typed, LockAges, Excluded, NEW p \in Clients, Acts(p)
    PROVE  Excluded'
<1> SUFFICES ASSUME NEW g \in Clients, NEW q \in Clients, Sure(g)',
                    mark'["claim"].owner = g, mark'["lock"].by = q
             PROVE  Idle(q)'
    BY DEF Excluded
<1>1. mark["claim"].owner = g
  <2>1. loc'[g].pc \notin {"fenced", "gcLock", "dropClaim"}
      BY DEF Sure
  <2> QED BY <2>1, NobodyOutside DEF Acts, ClaimSide, Made, Absent
<1>2. Exists("claim") /\ mark'["claim"].owner # Nobody
    BY <1>1, NobodyOutside DEF Typed, Kinds
<1>3. Idle(p) => Idle(p)'
    BY <1>2 DEF Acts, Sight
<1>4. \A r \in Clients : Idle(r) => Idle(r)'
    BY <1>3 DEF Acts, Others, Idle
<1>5. mark'["lock"] = mark["lock"] \/ Idle(q)'
    BY NobodyOutside DEF Acts, LockSide, Made, Absent
<1>6. ASSUME mark'["lock"] = mark["lock"] PROVE Idle(q)
  <2>1. CASE Sure(g)
      BY <1>1, <1>6, <2>1 DEF Excluded
  <2>2. CASE ~Sure(g)
    <3>1. g = p
        BY <2>2 DEF Acts, Others, Sure, Task
    <3>2. Exists("lock") => Stale("lock")
        BY <2>2, <3>1 DEF Acts, Sight
    <3>3. Over(q)
        BY <1>6, <3>2, NobodyOutside DEF Exists, LockAges
    <3> QED BY <3>3 DEF Over, Idle, Outside
  <2> QED BY <2>1, <2>2
<1> QED BY <1>4, <1>5, <1>6

LEMMA ActsAsleep ==
    ASSUME Typed, LockIsOwn, ClaimIsOwn, Excluded, Asleep, NEW p \in Clients, Acts(p)
    PROVE  Asleep'
<1> SUFFICES ASSUME ~moved', ~slept', NEW g \in Clients, loc'[g].pc \in {"gcOwned", "gcMove"}
             PROVE  ~dir'.alive
    BY DEF Asleep
<1>1. ~moved /\ ~slept
    BY DEF Acts, DirSide
<1>2. CASE g = p /\ ~At(p, "gcOwned")
    BY <1>2 DEF Acts, DirSide
<1>4. CASE g = p /\ At(p, "gcOwned")
  <2>1. ~dir.alive
      BY <1>1, <1>4 DEF Asleep, At
  <2>2. ~At(p, "launch") /\ remote[p] = {}
      BY <1>4 DEF At, Typed, Fits, Leaves, Ended
  <2> QED BY <2>1, <2>2 DEF Acts, DirSide
<1>3. CASE g # p
  <2>1. loc[g].pc \in {"gcOwned", "gcMove"}
      BY <1>3 DEF Acts, Others
  <2>2. ~dir.alive
      BY <1>1, <2>1 DEF Asleep
  <2> SUFFICES ASSUME At(p, "launch") \/ remote[p] # {} PROVE FALSE
      BY <2>2 DEF Acts, DirSide
  <2>3. Fits(loc[p], remote[p]) /\ Fits(loc[g], remote[g])
      BY DEF Typed
  <2>4. Task(g) = "gc"
      BY <2>1, <2>3 DEF Fits, Place, At, Task, Ended, InstallPcs, RepairPcs, FencePcs, WaitPcs,
                        Stealers
  <2>5. Sure(g) /\ Guarded(g)
      BY <2>1, <2>4 DEF Sure, Guarded, GcPcs
  <2>6. mark["claim"].owner = g
      BY <1>1, <2>5 DEF ClaimIsOwn
  <2>7. Task(p) \in {"install", "repair", "fence"}
      BY <2>3 DEF Fits, Place, Leaves, At, Task, Ended, WaitPcs, GcRunPcs, Stealers, GcPcs
  <2>8. CASE Task(p) = "fence"
    <3>1. Guarded(p)
        BY <2>8 DEF Guarded
    <3> QED BY <1>1, <1>3, <2>6, <3>1 DEF ClaimIsOwn
  <2>9. CASE Task(p) \in {"install", "repair"}
    <3>1. HasLock(p)
        BY <2>9 DEF HasLock
    <3>2. Idle(p)
        BY <1>1, <2>5, <2>6, <3>1 DEF LockIsOwn, Excluded
    <3> QED BY <3>2 DEF Idle, Outside, At, Ended, Stealers
  <2> QED BY <2>7, <2>8, <2>9
<1> QED BY <1>2, <1>3, <1>4

LEMMA ActsKeeps ==
    ASSUME Inv, NEW p \in Clients, Acts(p)
    PROVE  Inv'
BY ActsTyped, ActsLockAges, ActsLockIsOwn, ActsOneThief, ActsThieves, ActsClaimIsOwn,
   ActsExcluded, ActsAsleep DEF Inv

-----------------------------------------------------------------------------
(* Where a step takes its client.                                          *)

Walks(p) ==
    /\ loc' \in [Clients -> Locals] /\ \A q \in Clients : q # p => loc'[q] = loc[q]
    /\ loc'[p].ownsInstallLock => /\ loc'[p].task = loc[p].task
                                  /\ loc[p].ownsInstallLock \/ loc[p].task # "fence"

\* In the same routine, with the same idea of the lock.
Stays(p) ==
    /\ loc'[p].task = loc[p].task /\ loc'[p].ownsInstallLock = loc[p].ownsInstallLock
    /\ loc'[p].aim = loc[p].aim

Enters(p, t, s) ==
    /\ Walks(p) /\ loc'[p].task = t /\ loc'[p].pc = s
    /\ loc'[p].then = "done" /\ ~loc'[p].ownsInstallLock

LEMMA ToEffect ==
    ASSUME loc \in [Clients -> Locals], NEW p \in Clients, NEW s \in Pcs, To(p, s)
    PROVE  /\ Walks(p) /\ Stays(p) /\ loc'[p].pc = s
           /\ loc'[p].then = loc[p].then /\ loc'[p].seen = loc[p].seen
BY DEF To, Walks, Stays, Locals

LEMMA BeginEffect ==
    ASSUME loc \in [Clients -> Locals], NEW p \in Clients, NEW t \in Tasks, NEW s \in Pcs,
           Begin(p, t, s)
    PROVE  Enters(p, t, s)
BY DEF Begin, Local, Enters, Walks, Locals, Marks, Thens

LEMMA ConflictEffect ==
    ASSUME loc \in [Clients -> Locals], NEW p \in Clients, Conflict(p)
    PROVE  Enters(p, "wait", "waitClaim")
<1>1. "wait" \in Tasks /\ "waitClaim" \in Pcs
    BY DEF Tasks, Pcs, WaitPcs
<1> QED BY <1>1, BeginEffect DEF Conflict

LEMMA LaunchFenceEffect ==
    ASSUME loc \in [Clients -> Locals], NEW p \in Clients, LaunchFence(p)
    PROVE  Enters(p, "fence", "acquireClaim")
<1>1. "fence" \in Tasks /\ "acquireClaim" \in Pcs
    BY DEF Tasks, Pcs, FencePcs
<1> QED BY <1>1, BeginEffect DEF LaunchFence

LEMMA StartStealEffect ==
    ASSUME loc \in [Clients -> Locals], NEW p \in Clients, NEW m \in Marks, StartSteal(p, m)
    PROVE  /\ Walks(p) /\ loc'[p].pc = "stealRead" /\ loc'[p].aim = m
           /\ loc'[p].task = loc[p].task /\ loc'[p].ownsInstallLock = loc[p].ownsInstallLock
<1>1. "stealRead" \in Pcs
    BY DEF Pcs, InstallPcs, Stealers
<1> QED BY <1>1 DEF StartSteal, Walks, Locals

LEMMA RemoveThenEffect ==
    ASSUME loc \in [Clients -> Locals], NEW p \in Clients, NEW how \in Pcs, NEW s \in Thens,
           RemoveThen(p, how, s)
    PROVE  Walks(p) /\ Stays(p) /\ loc'[p].pc = how /\ loc'[p].then = s
BY DEF RemoveThen, Walks, Stays, Locals

LEMMA ResumeEffect ==
    ASSUME loc \in [Clients -> Locals], NEW p \in Clients, Resume(p)
    PROVE  IF loc[p].then = "conflict" THEN Enters(p, "wait", "waitClaim")
           ELSE Walks(p) /\ Stays(p) /\ loc'[p].pc = loc[p].then
<1>1. CASE loc[p].then = "conflict"
    BY <1>1, ConflictEffect DEF Resume
<1>2. CASE loc[p].then # "conflict"
  <2>1. loc[p].then \in Pcs
      BY <1>2 DEF Locals, Thens, Pcs, Ended, InstallPcs, WaitPcs, FencePcs
  <2> QED BY <1>2, <2>1, ToEffect DEF Resume
<1> QED BY <1>1, <1>2

\* The end of a theft.
LEMMA StealEndsEffect ==
    ASSUME loc \in [Clients -> Locals], NEW p \in Clients, NEW ok \in BOOLEAN, StealEnds(p, ok)
    PROVE  /\ Walks(p)
           /\ \/ loc[p].aim = "lock" /\ ok /\ Stays(p) /\ loc'[p].pc = "recheck"
              \/ loc[p].aim = "lock" /\ ~ok /\ Stays(p)
                 /\ loc'[p].pc = IF Task(p) = "install" THEN "poll" ELSE "classify"
              \/ loc[p].aim = "claim" /\ ok /\ Stays(p) /\ loc'[p].pc = "writeOwner"
              \/ loc[p].aim = "claim" /\ ~ok /\ Waits(p) /\ Stays(p) /\ loc'[p].pc = "waitClaim"
              \/ loc[p].aim = "claim" /\ ~ok /\ Task(p) = "fence" /\ Enters(p, "wait", "waitClaim")
              \/ loc[p].aim = "claim" /\ ~ok /\ Stays(p) /\ loc'[p].pc = "done"
                 /\ Task(p) \notin {"install", "wait", "fence"}
<1> DEFINE l == loc[p]
           q == [l EXCEPT !.seen = Nobody]
           On(s) == [q EXCEPT !.pc = s]
           r == CASE q.aim = "lock" /\ ok -> On("recheck")
                  [] q.aim = "lock" /\ ~ok -> On(IF q.task = "install" THEN "poll" ELSE "classify")
                  [] q.aim = "claim" /\ ok -> On("writeOwner")
                  [] q.aim = "claim" /\ ~ok -> CASE Waits(p) -> On("waitClaim")
                                                 [] q.task = "fence" -> Local("wait", "waitClaim")
                                                 [] OTHER -> On("done")
<1>1. loc' = [loc EXCEPT ![p] = r]
    BY Zenon DEF StealEnds
<1>2. l \in Locals /\ q.aim = l.aim /\ q.task = l.task /\ l.aim \in {"lock", "claim"}
    BY DEF Locals, Marks
<1>3. \A s \in Pcs : /\ On(s) \in Locals /\ On(s).pc = s /\ On(s).task = l.task
                     /\ On(s).aim = l.aim /\ On(s).ownsInstallLock = l.ownsInstallLock
  <2> HIDE DEF l
  <2> QED BY <1>2 DEF Locals
<1>4. {"recheck", "poll", "classify", "writeOwner", "waitClaim", "done"} \subseteq Pcs
    BY DEF Pcs, InstallPcs, RepairPcs, Ended
<1>5. /\ Local("wait", "waitClaim") \in Locals
      /\ Local("wait", "waitClaim").task = "wait" /\ Local("wait", "waitClaim").pc = "waitClaim"
      /\ Local("wait", "waitClaim").then = "done" /\ ~Local("wait", "waitClaim").ownsInstallLock
    BY <1>4 DEF Local, Locals, Marks, Thens, Tasks
<1> HIDE DEF On, q, l
<1>6. /\ l.aim = "lock" /\ ok => r = On("recheck")
      /\ l.aim = "lock" /\ ~ok => r = On(IF l.task = "install" THEN "poll" ELSE "classify")
      /\ l.aim = "claim" /\ ok => r = On("writeOwner")
      /\ l.aim = "claim" /\ ~ok => r = CASE Waits(p) -> On("waitClaim")
                                          [] l.task = "fence" -> Local("wait", "waitClaim")
                                          [] OTHER -> On("done")
    BY <1>2
<1> HIDE DEF r
<1>7. r \in Locals
    BY <1>2, <1>3, <1>4, <1>5, <1>6
<1>8. r.ownsInstallLock => r.task = l.task /\ l.ownsInstallLock
    BY <1>2, <1>3, <1>4, <1>5, <1>6
<1>10. Walks(p) /\ loc'[p] = r
    BY <1>1, <1>7, <1>8 DEF Walks, l
<1>9. Waits(p) <=> l.task \in {"install", "wait"}
    BY DEF Waits, Task, l
<1> QED BY <1>2, <1>3, <1>4, <1>5, <1>6, <1>9, <1>10 DEF Stays, Enters, Task, l

\* The routine that a step belongs to.
LEMMA Placed ==
    ASSUME Typed, NEW p \in Clients
    PROVE  LET l == loc[p] IN
           /\ l \in Locals /\ Fits(l, remote[p]) /\ remote[p] \in SUBSET {"npm", "start"}
           /\ l.pc \notin Ended \cup {"launch"} => remote[p] = {}
           /\ l.pc = "start" => l.task \in {"start", "wait"}
           /\ l.pc = "waitClaim" => l.task \in {"install", "wait"}
           /\ l.pc \in {"contended", "poll"} => l.task = "install"
           /\ l.pc \in {"repairProbe", "classify"} => l.task = "repair"
           /\ l.pc \in {"parent", "create", "recheck", "backOff", "held", "installing", "abandon"}
                 => l.task \in {"install", "repair"}
           /\ l.pc = "launch" => l.task \in {"install", "repair", "fence"}
           /\ l.pc = "fenced" => l.task = "fence"
           /\ l.pc = "acquireClaim" => l.task \in {"fence", "gc"}
           /\ l.pc \in {"writeOwner", "dropClaim"} => l.task \in {"install", "wait", "fence", "gc"}
           /\ l.pc \in {"gcLock", "gcComplete", "gcSocket"} => l.task \in {"scan", "gc"}
           /\ l.pc \in {"gcOwned", "gcMove"} => l.task = "gc"
           /\ l.pc \in Stealers =>
                 \/ l.aim = "lock" /\ l.task \in {"install", "repair"}
                 \/ l.aim = "claim" /\ l.task \in {"install", "fence", "wait", "gc"}
<1>1. loc[p] \in Locals /\ Fits(loc[p], remote[p]) /\ remote[p] \in SUBSET {"npm", "start"}
    BY DEF Typed, Kinds
<1>2. loc[p].aim \in {"lock", "claim"}
    BY <1>1 DEF Locals, Marks
<1>3. loc[p].pc \notin Ended \cup {"launch"} => remote[p] = {}
    BY <1>1 DEF Fits, Leaves
<1>4. Place(loc[p]) /\ Aimed(loc[p])
    BY <1>1 DEF Fits
<1> QED BY <1>1, <1>2, <1>3, <1>4 DEF Place, Aimed, Ended, InstallPcs, RepairPcs, FencePcs, WaitPcs,
                                       GcRunPcs, GcPcs, Stealers

LEMMA WalksUnlocked ==
    ASSUME Typed, NEW p \in Clients, Walks(p)
    PROVE  Unlocked(loc'[p])
BY Placed DEF Walks, Unlocked, Fits

\* Commands: how they end, and how many faults that makes.
LEMMA OutcomeCases ==
    /\ \A o \in Outcomes : o \in {"ok", "lost", "unsent"}
    /\ \A o \in Answers : o \in {"ok", "unsent"} /\ o \in Outcomes
BY DEF Outcomes, Answers

LEMMA CountEffect ==
    ASSUME faults \in 0..MaxFaults, NEW o \in Outcomes, Count(o)
    PROVE  faults' \in 0..MaxFaults
BY EnvAssumption DEF Outcomes, Count

\* A step that changes the locals only.
LEMMA WalkActs ==
    ASSUME Typed, NEW p \in Clients, Walks(p), faults' \in 0..MaxFaults,
           UNCHANGED <<dir, mark, steal, remote, moved, slept>>,
           ~Over(p), Fits(loc'[p], remote[p]),
           HasLock(p)' => HasLock(p), Guarded(p)' => Guarded(p), UsesClaim(p)' => UsesClaim(p),
           loc'[p].pc = "writeOwner" => At(p, "writeOwner"),
           loc'[p].pc \notin {"stealMove", "stealCreate"},
           Sure(p)' => Sure(p) \/ (Exists("lock") => Stale("lock")),
           Idle(p) => Idle(p)' \/ ~Exists("claim"),
           loc'[p].pc \in {"gcOwned", "gcMove"} => At(p, "gcOwned") \/ ~dir.alive
    PROVE  Acts(p)
<1>1. Kinds'
    BY DEF Typed, Kinds, Walks, Exists
<1>2. Others(p)
    BY DEF Walks, Others
<1>3. LockSide(p) /\ ClaimSide(p) /\ Sight(p) /\ DirSide(p)
    BY DEF LockSide, ClaimSide, Sight, DirSide
<1>4. StealSide(p)
    BY DEF StealSide, ThiefSide, Stealing
<1> QED BY <1>1, <1>2, <1>3, <1>4 DEF Acts

-----------------------------------------------------------------------------
(* Steps that keep away from the directory.                                *)

Harmless == {"start", "waitClaim", "repairProbe", "parent", "create", "contended", "poll",
             "classify", "acquireClaim", "stealRead", "stealCheck"} \cup Ended

LEMMA HarmlessPlace ==
    ASSUME NEW p \in Clients, loc'[p].pc \in Harmless, remote'[p] = {}
    PROVE  /\ ~HasLock(p)' /\ ~Guarded(p)' /\ ~UsesClaim(p)' /\ ~Sure(p)' /\ Idle(p)'
           /\ loc'[p].pc \notin {"writeOwner", "stealMove", "stealCreate", "gcOwned", "gcMove"}
           /\ \A m \in Marks : ~Stealing(p, m)'
           /\ Place(loc'[p]) /\ Aimed(loc'[p]) /\ Unlocked(loc'[p]) => Fits(loc'[p], remote'[p])
<1>1. /\ loc'[p].pc \notin {"recheck", "held", "installing", "abandon", "backOff", "launch", "fenced",
                            "writeOwner", "dropClaim", "stealMove", "stealCreate"} \cup GcPcs
      /\ loc'[p].pc \in Outside
    BY DEF Harmless, GcPcs, Outside, Stealers, Ended
<1>2. ~HasLock(p)' /\ ~Guarded(p)' /\ ~UsesClaim(p)' /\ ~Sure(p)' /\ Idle(p)'
    BY <1>1 DEF HasLock, Guarded, UsesClaim, Sure, Idle, At, Task, GcPcs
<1>3. Place(loc'[p]) /\ Aimed(loc'[p]) /\ Unlocked(loc'[p]) => Fits(loc'[p], remote'[p])
    BY <1>1 DEF Fits, Returns, Leaves
<1> QED BY <1>1, <1>2, <1>3 DEF Stealing, GcPcs

LEMMA RetreatActs ==
    ASSUME Typed, NEW p \in Clients, Walks(p), faults' \in 0..MaxFaults,
           UNCHANGED <<dir, mark, steal, remote, moved, slept>>,
           loc[p].pc \notin Ended \cup {"launch"}, loc'[p].pc \in Harmless,
           Place(loc'[p]), Aimed(loc'[p])
    PROVE  Acts(p)
<1>1. remote[p] = {} /\ remote'[p] = {} /\ ~Over(p)
    BY Placed DEF Over
<1>2. /\ ~HasLock(p)' /\ ~Guarded(p)' /\ ~UsesClaim(p)' /\ ~Sure(p)' /\ Idle(p)'
      /\ loc'[p].pc \notin {"writeOwner", "stealMove", "stealCreate", "gcOwned", "gcMove"}
      /\ Fits(loc'[p], remote[p])
    BY <1>1, HarmlessPlace, WalksUnlocked
<1> QED BY <1>1, <1>2, WalkActs

LEMMA HarmlessPcs ==
    /\ Harmless \subseteq Pcs
    /\ {"install", "repair", "fence", "wait", "gc"} \subseteq Tasks
    /\ "lock" \in Marks /\ "claim" \in Marks
BY DEF Harmless, Pcs, InstallPcs, RepairPcs, FencePcs, WaitPcs, GcRunPcs, Stealers, Ended, Tasks, Marks

\* Which of them a routine may be at.
LEMMA HarmlessFits ==
    ASSUME NEW l,
           \/ l.pc \in Ended
           \/ l.task = "install" /\ l.pc \in {"waitClaim", "parent", "create", "contended", "poll"}
           \/ l.task = "repair" /\ l.pc \in {"repairProbe", "parent", "create", "classify"}
           \/ l.task = "fence" /\ l.pc = "acquireClaim"
           \/ l.task = "wait" /\ l.pc \in {"waitClaim", "start"}
           \/ l.task = "gc" /\ l.pc = "acquireClaim"
           \/ l.pc \in {"stealRead", "stealCheck"} /\
                 \/ l.aim = "lock" /\ l.task \in {"install", "repair"}
                 \/ l.aim = "claim" /\ l.task \in {"install", "fence", "wait", "gc"}
    PROVE  l.pc \in Harmless /\ Place(l) /\ Aimed(l)
BY DEF Harmless, Place, Aimed, InstallPcs, RepairPcs, FencePcs, WaitPcs, GcRunPcs, Stealers, Ended

LEMMA StealReadActs ==
    ASSUME Typed, NEW p \in Clients, StealRead(p)
    PROVE  Acts(p)
<1>0. At(p, "stealRead") /\ loc[p].pc \notin Ended \cup {"launch"} /\ loc[p].pc \in Stealers
    BY DEF StealRead, At, Ended, Stealers
<1>1. loc \in [Clients -> Locals] /\ mark \in [Marks -> MarkType] /\ loc[p].aim \in Marks
      /\ faults \in 0..MaxFaults
    BY DEF Typed, Kinds, Locals
<1>2. PICK o \in Answers :
         /\ Count(o)
         /\ \/ loc' = [loc EXCEPT ![p].pc = "stealCheck", ![p].seen = mark[loc[p].aim].by]
            \/ StealEnds(p, FALSE)
    BY DEF StealRead
<1>3. faults' \in 0..MaxFaults
    BY <1>1, <1>2, CountEffect, OutcomeCases
<1>4. CASE loc' = [loc EXCEPT ![p].pc = "stealCheck", ![p].seen = mark[loc[p].aim].by]
  <2>1. "stealCheck" \in Pcs /\ mark[loc[p].aim].by \in Clients \cup {Nobody}
      BY <1>1, HarmlessPcs DEF MarkType, Harmless
  <2>2. Walks(p) /\ Stays(p) /\ loc'[p].pc = "stealCheck"
      BY <1>1, <1>4, <2>1 DEF Walks, Stays, Locals
  <2>3. loc'[p].pc \in Harmless /\ Place(loc'[p]) /\ Aimed(loc'[p])
      BY <1>0, <2>2, Placed, HarmlessFits DEF Stays
  <2> QED BY <1>0, <1>3, <2>2, <2>3, RetreatActs DEF StealRead
<1>5. CASE StealEnds(p, FALSE)
  <2>1. /\ Walks(p)
        /\ \/ loc[p].aim = "lock" /\ loc'[p].task = loc[p].task
              /\ loc'[p].pc = IF Task(p) = "install" THEN "poll" ELSE "classify"
           \/ loc[p].aim = "claim" /\ Waits(p) /\ loc'[p].task = loc[p].task /\ loc'[p].pc = "waitClaim"
           \/ loc'[p].task = "wait" /\ loc'[p].pc = "waitClaim"
           \/ loc'[p].pc = "done"
      BY <1>1, <1>5, StealEndsEffect DEF Stays, Enters
  <2>2. loc[p].aim = "lock" => Task(p) \in {"install", "repair"}
      BY <1>0, Placed DEF Task
  <2>3. loc'[p].pc \in Harmless /\ Place(loc'[p]) /\ Aimed(loc'[p])
      BY <2>1, <2>2, HarmlessFits DEF Task, Waits, Ended
  <2> QED BY <1>0, <1>3, <2>1, <2>3, RetreatActs DEF StealRead
<1> QED BY <1>2, <1>4, <1>5

LEMMA WaitClaimActs ==
    ASSUME Typed, NEW p \in Clients, WaitClaim(p)
    PROVE  Acts(p)
<1>0. loc[p].pc = "waitClaim" /\ loc[p].pc \notin Ended \cup {"launch"}
    BY DEF WaitClaim, At, Ended
<1>1. loc \in [Clients -> Locals] /\ faults \in 0..MaxFaults
    BY DEF Typed, Kinds
<1>2. PICK o \in Answers :
         /\ Count(o)
         /\ \/ To(p, IF Task(p) = "install" THEN "parent" ELSE "start")
            \/ StartSteal(p, "claim")
    BY DEF WaitClaim
<1>3. faults' \in 0..MaxFaults
    BY <1>1, <1>2, CountEffect, OutcomeCases
<1>4. Task(p) \in {"install", "wait"} /\ {"parent", "start"} \subseteq Pcs
    BY <1>0, Placed, HarmlessPcs DEF Task, Harmless
<1>5. /\ Walks(p) /\ loc'[p].task = loc[p].task
      /\ \/ loc'[p].pc = IF Task(p) = "install" THEN "parent" ELSE "start"
         \/ loc'[p].pc = "stealRead" /\ loc'[p].aim = "claim"
    BY <1>1, <1>2, <1>4, ToEffect, StartStealEffect, HarmlessPcs DEF Stays
<1>6. loc'[p].pc \in Harmless /\ Place(loc'[p]) /\ Aimed(loc'[p])
    BY <1>4, <1>5, HarmlessFits DEF Task
<1> QED BY <1>0, <1>3, <1>5, <1>6, RetreatActs DEF WaitClaim

LEMMA StartActs ==
    ASSUME Typed, NEW p \in Clients, Start(p)
    PROVE  Acts(p)
<1>0. loc[p].pc \notin Ended \cup {"launch"}
    BY DEF Start, At, Ended
<1>1. loc \in [Clients -> Locals] /\ faults \in 0..MaxFaults
    BY DEF Typed, Kinds
<1>2. PICK o \in Answers :
         Count(o) /\ (Begin(p, "repair", "repairProbe") \/ Begin(p, "install", "waitClaim"))
    BY DEF Start
<1>3. faults' \in 0..MaxFaults
    BY <1>1, <1>2, CountEffect, OutcomeCases
<1>4. "repairProbe" \in Pcs /\ "waitClaim" \in Pcs
    BY HarmlessPcs DEF Harmless
<1>5. /\ Walks(p)
      /\ \/ loc'[p].task = "repair" /\ loc'[p].pc = "repairProbe"
         \/ loc'[p].task = "install" /\ loc'[p].pc = "waitClaim"
    BY <1>1, <1>2, <1>4, BeginEffect, HarmlessPcs DEF Enters
<1>6. loc'[p].pc \in Harmless /\ Place(loc'[p]) /\ Aimed(loc'[p])
    BY <1>5, HarmlessFits
<1> QED BY <1>0, <1>3, <1>5, <1>6, RetreatActs DEF Start

LEMMA RepairProbeActs ==
    ASSUME Typed, NEW p \in Clients, RepairProbe(p)
    PROVE  Acts(p)
<1>0. loc[p].pc = "repairProbe" /\ loc[p].pc \notin Ended \cup {"launch"}
    BY DEF RepairProbe, At, Ended
<1>1. loc \in [Clients -> Locals] /\ faults \in 0..MaxFaults
    BY DEF Typed, Kinds
<1>2. PICK o \in Answers : Count(o) /\ (LaunchFence(p) \/ Conflict(p) \/ To(p, "parent"))
    BY DEF RepairProbe
<1>3. faults' \in 0..MaxFaults
    BY <1>1, <1>2, CountEffect, OutcomeCases
<1>4. loc[p].task = "repair" /\ "parent" \in Pcs
    BY <1>0, Placed, HarmlessPcs DEF Harmless
<1>5. /\ Walks(p)
      /\ \/ loc'[p].task = "fence" /\ loc'[p].pc = "acquireClaim"
         \/ loc'[p].task = "wait" /\ loc'[p].pc = "waitClaim"
         \/ loc'[p].task = "repair" /\ loc'[p].pc = "parent"
    BY <1>1, <1>2, <1>4, ToEffect, ConflictEffect, LaunchFenceEffect DEF Enters, Stays
<1>6. loc'[p].pc \in Harmless /\ Place(loc'[p]) /\ Aimed(loc'[p])
    BY <1>5, HarmlessFits
<1> QED BY <1>0, <1>3, <1>5, <1>6, RetreatActs DEF RepairProbe

LEMMA ClassifyActs ==
    ASSUME Typed, NEW p \in Clients, Classify(p)
    PROVE  Acts(p)
<1>0. loc[p].pc \notin Ended \cup {"launch"}
    BY DEF Classify, At, Ended
<1>1. loc \in [Clients -> Locals] /\ faults \in 0..MaxFaults
    BY DEF Typed, Kinds
<1>2. PICK o \in Answers : Count(o) /\ (LaunchFence(p) \/ Conflict(p))
    BY DEF Classify
<1>3. faults' \in 0..MaxFaults
    BY <1>1, <1>2, CountEffect, OutcomeCases
<1>4. /\ Walks(p)
      /\ \/ loc'[p].task = "fence" /\ loc'[p].pc = "acquireClaim"
         \/ loc'[p].task = "wait" /\ loc'[p].pc = "waitClaim"
    BY <1>1, <1>2, ConflictEffect, LaunchFenceEffect DEF Enters
<1>5. loc'[p].pc \in Harmless /\ Place(loc'[p]) /\ Aimed(loc'[p])
    BY <1>4, HarmlessFits
<1> QED BY <1>0, <1>3, <1>4, <1>5, RetreatActs DEF Classify

LEMMA WaitingActs ==
    ASSUME Typed, NEW p \in Clients, StaleCheck(p) \/ Poll(p) \/ GiveUp(p)
    PROVE  Acts(p)
<1>0. loc[p].pc \in {"contended", "poll", "waitClaim"} /\ loc[p].pc \notin Ended \cup {"launch"}
    BY DEF StaleCheck, Poll, GiveUp, At, Ended
<1>1. loc \in [Clients -> Locals] /\ faults' \in 0..MaxFaults
    BY DEF Typed, Kinds, StaleCheck, Poll, GiveUp
<1>2. "waitClaim" \in Pcs /\ "failed" \in Pcs
    BY HarmlessPcs DEF Harmless, Ended
<1>3. loc[p].pc # "waitClaim" => loc[p].task = "install"
    BY <1>0, Placed
<1>4. CASE StaleCheck(p)
  <2>1. Walks(p) /\ loc'[p].pc = "stealRead" /\ loc'[p].aim = "lock" /\ loc'[p].task = "install"
      BY <1>1, <1>3, <1>4, StartStealEffect, HarmlessPcs DEF StaleCheck, At
  <2>2. loc'[p].pc \in Harmless /\ Place(loc'[p]) /\ Aimed(loc'[p])
      BY <2>1, HarmlessFits
  <2> QED BY <1>0, <1>1, <1>4, <2>1, <2>2, RetreatActs DEF StaleCheck
<1>5. CASE Poll(p)
  <2>1. Walks(p) /\ loc'[p].pc = "waitClaim" /\ loc'[p].task = "install"
      BY <1>1, <1>2, <1>3, <1>5, ToEffect DEF Poll, Stays
  <2>2. loc'[p].pc \in Harmless /\ Place(loc'[p]) /\ Aimed(loc'[p])
      BY <2>1, HarmlessFits
  <2> QED BY <1>0, <1>1, <1>5, <2>1, <2>2, RetreatActs DEF Poll
<1>6. CASE GiveUp(p)
  <2>1. Walks(p) /\ loc'[p].pc = "failed"
      BY <1>1, <1>2, <1>6, ToEffect DEF GiveUp
  <2>2. loc'[p].pc \in Harmless /\ Place(loc'[p]) /\ Aimed(loc'[p])
      BY <2>1, HarmlessFits DEF Ended
  <2> QED BY <1>0, <1>1, <1>6, <2>1, <2>2, RetreatActs DEF GiveUp
<1> QED BY <1>4, <1>5, <1>6

-----------------------------------------------------------------------------
(* Probes under the lock and under the claim.                              *)

LEMMA RecheckActs ==
    ASSUME Typed, NEW p \in Clients, Recheck(p)
    PROVE  Acts(p)
<1>0. loc[p].pc = "recheck" /\ remote[p] = {} /\ ~Over(p)
    BY Placed DEF Recheck, At, Ended, Over
<1>1. loc \in [Clients -> Locals] /\ faults \in 0..MaxFaults /\ loc[p].task \in {"install", "repair"}
    BY <1>0, Placed DEF Typed, Kinds
<1>2. PICK o \in Answers :
         /\ Count(o)
         /\ \/ ~Exists("claim") /\ To(p, "held")
            \/ RemoveThen(p, "backOff", "conflict")
            \/ RemoveThen(p, "backOff", "acquireClaim")
    BY DEF Recheck
<1>3. faults' \in 0..MaxFaults
    BY <1>1, <1>2, CountEffect, OutcomeCases
<1>4. "held" \in Pcs /\ "backOff" \in Pcs /\ {"conflict", "acquireClaim"} \subseteq Thens
    BY DEF Pcs, InstallPcs, Thens
<1>5. /\ Walks(p) /\ loc'[p].task = loc[p].task
      /\ \/ loc'[p].pc = "held" /\ ~Exists("claim")
         \/ loc'[p].pc = "backOff"
    BY <1>1, <1>2, <1>4, ToEffect, RemoveThenEffect DEF Stays
<1>6. Fits(loc'[p], remote[p])
  <2>1. Place(loc'[p]) /\ Aimed(loc'[p]) /\ Returns(loc'[p])
      BY <1>1, <1>5 DEF Place, Aimed, Returns, InstallPcs, RepairPcs, Stealers
  <2> QED BY <1>0, <1>5, <2>1, WalksUnlocked DEF Fits, Leaves
<1>7. remote' = remote
    BY DEF Recheck
<1>8. HasLock(p) /\ ~Guarded(p)' /\ ~UsesClaim(p)' /\ ~Sure(p)'
    BY <1>0, <1>1, <1>5, <1>7 DEF HasLock, Guarded, UsesClaim, Sure, Idle, At, Task, GcPcs
<1>9. Idle(p)' \/ ~Exists("claim")
    BY <1>0, <1>5, <1>7 DEF Idle, Outside
<1> QED BY <1>0, <1>3, <1>5, <1>6, <1>8, <1>9, WalkActs DEF Recheck

LEMMA HeldActs ==
    ASSUME Typed, NEW p \in Clients, Held(p)
    PROVE  Acts(p)
<1>0. loc[p].pc = "held" /\ remote[p] = {} /\ ~Over(p)
    BY Placed DEF Held, At, Ended, Over
<1>1. loc \in [Clients -> Locals] /\ faults \in 0..MaxFaults /\ loc[p].task \in {"install", "repair"}
    BY <1>0, Placed DEF Typed, Kinds
<1> DEFINE Own(s) == loc' = [loc EXCEPT ![p].pc = s, ![p].ownsInstallLock = TRUE]
<1>2. PICK o \in Answers :
         /\ Count(o)
         /\ \/ Own("launch") \/ Own("installing")
            \/ Task(p) = "repair" /\ RemoveThen(p, "abandon", "conflict")
            \/ Task(p) = "repair" /\ RemoveThen(p, "abandon", "failed")
    BY Zenon DEF Held
<1>3. faults' \in 0..MaxFaults
    BY <1>1, <1>2, CountEffect, OutcomeCases
<1>4. {"launch", "installing", "abandon"} \subseteq Pcs /\ {"conflict", "failed"} \subseteq Thens
    BY DEF Pcs, InstallPcs, Thens
<1>5. ASSUME NEW s \in Pcs, Own(s)
      PROVE  Walks(p) /\ loc'[p].task = loc[p].task /\ loc'[p].pc = s
    BY <1>1, <1>5 DEF Walks, Locals
<1> HIDE DEF Own
<1>6. /\ Walks(p) /\ loc'[p].task = loc[p].task
      /\ \/ loc'[p].pc = "launch" \/ loc'[p].pc = "installing"
         \/ loc'[p].pc = "abandon" /\ loc[p].task = "repair" /\ loc'[p].then \in {"conflict", "failed"}
    BY <1>1, <1>2, <1>4, <1>5, RemoveThenEffect DEF Stays, Task
<1>7. Fits(loc'[p], remote[p])
  <2>1. Place(loc'[p]) /\ Aimed(loc'[p]) /\ Returns(loc'[p])
      BY <1>1, <1>6 DEF Place, Aimed, Returns, InstallPcs, RepairPcs, Stealers
  <2> QED BY <1>0, <1>6, <2>1, WalksUnlocked DEF Fits, Leaves
<1>8. remote' = remote
    BY DEF Held
<1>9. HasLock(p) /\ ~Guarded(p)' /\ ~UsesClaim(p)' /\ ~Sure(p)' /\ ~Idle(p)
    BY <1>0, <1>1, <1>6, <1>8 DEF HasLock, Guarded, UsesClaim, Sure, Idle, Outside, Stealers, Ended,
                                  At, Task, GcPcs
<1> QED BY <1>0, <1>3, <1>6, <1>7, <1>9, WalkActs DEF Held

LEMMA FencedActs ==
    ASSUME Typed, NEW p \in Clients, Fenced(p)
    PROVE  Acts(p)
<1>0. loc[p].pc = "fenced" /\ remote[p] = {} /\ ~Over(p)
    BY Placed DEF Fenced, At, Ended, Over
<1>1. loc \in [Clients -> Locals] /\ faults \in 0..MaxFaults /\ loc[p].task = "fence"
    BY <1>0, Placed DEF Typed, Kinds
<1>2. PICK o \in Answers :
         /\ Count(o)
         /\ \/ To(p, "launch")
            \/ RemoveThen(p, "dropClaim", "conflict")
            \/ RemoveThen(p, "dropClaim", "failed")
    BY DEF Fenced
<1>3. faults' \in 0..MaxFaults
    BY <1>1, <1>2, CountEffect, OutcomeCases
<1>4. {"launch", "dropClaim"} \subseteq Pcs /\ {"conflict", "failed"} \subseteq Thens
    BY DEF Pcs, InstallPcs, Thens
<1>5. /\ Walks(p) /\ loc'[p].task = "fence"
      /\ \/ loc'[p].pc = "launch"
         \/ loc'[p].pc = "dropClaim" /\ loc'[p].then \in {"conflict", "failed"}
    BY <1>1, <1>2, <1>4, ToEffect, RemoveThenEffect DEF Stays
<1>6. Fits(loc'[p], remote[p])
  <2>1. Place(loc'[p]) /\ Aimed(loc'[p]) /\ Returns(loc'[p])
      BY <1>5 DEF Place, Aimed, Returns, FencePcs, Stealers
  <2> QED BY <1>0, <1>5, <2>1, WalksUnlocked DEF Fits, Leaves
<1>7. remote' = remote
    BY DEF Fenced
<1>8. Guarded(p) /\ UsesClaim(p) /\ ~HasLock(p)' /\ ~Sure(p)' /\ ~Idle(p)
    BY <1>0, <1>5, <1>7 DEF HasLock, Guarded, UsesClaim, Sure, Idle, Outside, Stealers, Ended,
                            At, Task, GcPcs
<1> QED BY <1>0, <1>3, <1>5, <1>6, <1>8, WalkActs DEF Fenced

\* A collector goes on to the step s, turns to its claim, or ends.
LEMMA AskActs ==
    ASSUME Typed, NEW p \in Clients,
           loc[p].pc \in {"gcLock", "gcComplete", "gcSocket", "gcOwned"},
           UNCHANGED <<dir, mark, steal, remote, moved, slept>>, faults' \in 0..MaxFaults,
           NEW s \in {"gcComplete", "gcSocket", "gcOwned", "gcMove"},
           \/ /\ To(p, s)
              /\ s \in {"gcOwned", "gcMove"} => Task(p) = "gc" /\ (At(p, "gcOwned") \/ ~dir.alive)
              /\ Sure(p) \/ Task(p) = "scan" \/ (Exists("lock") => Stale("lock"))
           \/ Task(p) = "scan" /\ Begin(p, "gc", "acquireClaim")
           \/ Task(p) = "gc" /\ RemoveThen(p, "dropClaim", "done")
           \/ To(p, "done")
    PROVE  Acts(p)
<1>0. remote[p] = {} /\ ~Over(p) /\ loc[p].task \in {"scan", "gc"} /\ loc \in [Clients -> Locals]
    BY Placed DEF Typed, Kinds, Ended, Over
<1>1. /\ {"done", "dropClaim", "acquireClaim", "gcComplete", "gcSocket", "gcOwned",
        "gcMove"} \subseteq Pcs
      /\ "done" \in Thens /\ "gc" \in Tasks
    BY DEF Pcs, Ended, InstallPcs, FencePcs, GcRunPcs, GcPcs, Thens, Tasks
<1>2. /\ Walks(p)
      /\ \/ /\ loc'[p].task = loc[p].task /\ loc'[p].pc = s
            /\ s \in {"gcOwned", "gcMove"} => Task(p) = "gc" /\ (At(p, "gcOwned") \/ ~dir.alive)
            /\ Sure(p) \/ Task(p) = "scan" \/ (Exists("lock") => Stale("lock"))
         \/ loc[p].task = "scan" /\ loc'[p].task = "gc" /\ loc'[p].pc = "acquireClaim"
         \/ loc[p].task = "gc" /\ loc'[p].task = "gc" /\ loc'[p].pc = "dropClaim" /\ loc'[p].then = "done"
         \/ loc'[p].task = loc[p].task /\ loc'[p].pc = "done"
    BY <1>0, <1>1, ToEffect, BeginEffect, RemoveThenEffect DEF Stays, Enters, Task
<1>3. Fits(loc'[p], remote[p])
  <2>1. Place(loc'[p]) /\ Aimed(loc'[p]) /\ Returns(loc'[p])
      BY <1>0, <1>2 DEF Place, Aimed, Returns, GcRunPcs, GcPcs, Stealers, Ended, Task
  <2> QED BY <1>0, <1>2, <2>1, WalksUnlocked DEF Fits, Leaves
<1>4. ~HasLock(p)' /\ (Guarded(p)' => Guarded(p)) /\ (UsesClaim(p)' => UsesClaim(p)) /\ ~Idle(p)
    BY <1>0, <1>2 DEF HasLock, Guarded, UsesClaim, Idle, Outside, Stealers, Ended, At, Task, GcPcs
<1>5. Sure(p)' => Sure(p) \/ (Exists("lock") => Stale("lock"))
    BY <1>0, <1>2 DEF Sure, Task
<1>6. /\ loc'[p].pc \notin {"writeOwner", "stealMove", "stealCreate"}
      /\ loc'[p].pc \in {"gcOwned", "gcMove"} => At(p, "gcOwned") \/ ~dir.alive
    BY <1>2
<1> QED BY <1>0, <1>2, <1>3, <1>4, <1>5, <1>6, WalkActs

LEMMA GcLockActs ==
    ASSUME Typed, NEW p \in Clients, GcLock(p)
    PROVE  Acts(p)
<1>1. PICK o \in Answers :
         /\ Count(o)
         /\ \/ (Exists("lock") => Stale("lock")) /\ To(p, "gcComplete")
            \/ Task(p) = "gc" /\ RemoveThen(p, "dropClaim", "done")
            \/ To(p, "done")
    BY DEF GcLock, Ask
<1>2. faults' \in 0..MaxFaults
    BY <1>1, CountEffect, OutcomeCases DEF Typed, Kinds
<1>3. loc[p].pc = "gcLock" /\ UNCHANGED <<dir, mark, steal, remote, moved, slept>>
    BY DEF GcLock, Ask, At
<1> QED BY <1>1, <1>2, <1>3, AskActs

LEMMA GcCompleteActs ==
    ASSUME Typed, NEW p \in Clients, GcComplete(p)
    PROVE  Acts(p)
<1>1. PICK o \in Answers :
         /\ Count(o)
         /\ \/ To(p, "gcSocket")
            \/ Task(p) = "gc" /\ RemoveThen(p, "dropClaim", "done")
            \/ To(p, "done")
    BY DEF GcComplete, Ask
<1>2. faults' \in 0..MaxFaults
    BY <1>1, CountEffect, OutcomeCases DEF Typed, Kinds
<1>3. loc[p].pc = "gcComplete" /\ UNCHANGED <<dir, mark, steal, remote, moved, slept>>
    BY DEF GcComplete, Ask, At
<1>4. Sure(p) \/ Task(p) = "scan"
    BY <1>3, Placed DEF Sure, Task
<1> QED BY <1>1, <1>2, <1>3, <1>4, AskActs

LEMMA GcSocketActs ==
    ASSUME Typed, NEW p \in Clients, GcSocket(p)
    PROVE  Acts(p)
<1>1. loc[p].pc = "gcSocket" /\ UNCHANGED <<dir, mark, steal, remote, moved, slept>>
    BY DEF GcSocket, Ask, At
<1>2. Sure(p) \/ Task(p) = "scan"
    BY <1>1, Placed DEF Sure, Task
<1>3. PICK o \in Answers :
         /\ Count(o)
         /\ \/ Task(p) = "gc" /\ ~dir.alive /\ To(p, "gcOwned")
            \/ Task(p) # "gc" /\ Begin(p, "gc", "acquireClaim")
            \/ Task(p) = "gc" /\ RemoveThen(p, "dropClaim", "done")
            \/ To(p, "done")
    BY DEF GcSocket, Ask
<1>4. faults' \in 0..MaxFaults
    BY <1>3, CountEffect, OutcomeCases DEF Typed, Kinds
<1>5. Task(p) # "gc" => Task(p) = "scan"
    BY <1>1, Placed DEF Task
<1>6. "gcOwned" \in {"gcComplete", "gcSocket", "gcOwned", "gcMove"}
    OBVIOUS
<1> QED BY <1>1, <1>2, <1>3, <1>4, <1>5, <1>6, AskActs

LEMMA GcOwnedActs ==
    ASSUME Typed, NEW p \in Clients, GcOwned(p)
    PROVE  Acts(p)
<1>1. loc[p].pc = "gcOwned" /\ UNCHANGED <<dir, mark, steal, remote, moved, slept>>
    BY DEF GcOwned, Ask, At
<1>2. Sure(p) /\ Task(p) = "gc" /\ At(p, "gcOwned")
    BY <1>1, Placed DEF Sure, Task, At
<1>3. PICK o \in Answers :
         /\ Count(o)
         /\ \/ To(p, "gcMove")
            \/ Task(p) = "gc" /\ RemoveThen(p, "dropClaim", "done")
            \/ To(p, "done")
    BY DEF GcOwned, Ask
<1>4. faults' \in 0..MaxFaults
    BY <1>3, CountEffect, OutcomeCases DEF Typed, Kinds
<1>5. "gcMove" \in {"gcComplete", "gcSocket", "gcOwned", "gcMove"}
    OBVIOUS
<1> QED BY <1>1, <1>2, <1>3, <1>4, <1>5, AskActs

-----------------------------------------------------------------------------
(* Steps that make or remove a lock or a claim.                            *)

LEMMA MarkTypes ==
    /\ Absent \in MarkType /\ \A p \in Clients : Made(p) \in MarkType
    /\ Absent.by = Nobody /\ Absent.owner = Nobody /\ ~Absent.old
    /\ \A p \in Clients : Made(p).by = p /\ Made(p).owner = Nobody /\ ~Made(p).old
BY DEF Absent, Made, MarkType

LEMMA MarkEffect ==
    ASSUME mark \in [Marks -> MarkType], NEW m \in Marks, NEW x \in MarkType,
           mark' = [mark EXCEPT ![m] = x]
    PROVE  /\ mark' \in [Marks -> MarkType] /\ mark'[m] = x
           /\ \A k \in Marks : k # m => mark'[k] = mark[k]
OBVIOUS

\* Away from the directory again, whatever became of the marks.
LEMMA HarmlessActs ==
    ASSUME Typed, NEW p \in Clients, Walks(p), Kinds',
           remote' = remote, slept' = slept, moved' = moved,
           dir.present => dir'.present, dir'.alive => dir.alive,
           loc[p].pc \notin Ended \cup {"launch"}, loc'[p].pc \in Harmless,
           Place(loc'[p]), Aimed(loc'[p]),
           LockSide(p), ClaimSide(p), \A m \in Marks : ThiefSide(p, m)
    PROVE  Acts(p)
<1>1. remote[p] = {} /\ remote'[p] = {} /\ ~Over(p)
    BY Placed DEF Over
<1>2. /\ ~Sure(p)' /\ Idle(p)' /\ loc'[p].pc \notin {"stealMove", "gcOwned", "gcMove"}
      /\ Fits(loc'[p], remote'[p])
    BY <1>1, HarmlessPlace, WalksUnlocked
<1> QED BY <1>1, <1>2 DEF Acts, Others, Walks, StealSide, Sight, DirSide

\* The marks are left alone on the way there.
LEMMA HarmlessSides ==
    ASSUME NEW p \in Clients, loc'[p].pc \in Harmless, remote'[p] = {}
    PROVE  /\ mark'["lock"] = mark["lock"] => LockSide(p)
           /\ mark'["claim"] = mark["claim"] => ClaimSide(p)
           /\ \A m \in Marks : steal'[m] = steal[m] => ThiefSide(p, m)
<1>1. /\ ~HasLock(p)' /\ ~Guarded(p)' /\ ~UsesClaim(p)'
      /\ loc'[p].pc # "writeOwner" /\ \A m \in Marks : ~Stealing(p, m)'
    BY HarmlessPlace
<1> QED BY <1>1 DEF LockSide, ClaimSide, ThiefSide

\* rm -rf of the lock on the way out.
LEMMA RemoveLockActs ==
    ASSUME Typed, NEW p \in Clients, HasLock(p), loc[p].pc \in {"backOff", "abandon"},
           NEW o \in Outcomes, RemoveLock(o), UNCHANGED <<dir, steal, remote, moved, slept>>,
           Walks(p), loc'[p].pc \in Harmless, Place(loc'[p]), Aimed(loc'[p])
    PROVE  Acts(p)
<1>1. remote[p] = {} /\ loc[p].pc \notin Ended \cup {"launch"}
    BY Placed DEF Ended
<1>2. faults' \in 0..MaxFaults
    BY CountEffect DEF RemoveLock, Typed, Kinds
<1>3. mark \in [Marks -> MarkType]
    BY DEF Typed, Kinds
<1>4. /\ mark' \in [Marks -> MarkType] /\ mark'["claim"] = mark["claim"]
      /\ mark'["lock"] = mark["lock"] \/ mark'["lock"] = Absent
  <2>1. CASE mark' = mark
      BY <1>3, <2>1
  <2>2. CASE mark' = [mark EXCEPT !["lock"] = Absent]
      BY <1>3, <2>2, MarkTypes, MarkEffect DEF Marks
  <2> QED BY <2>1, <2>2 DEF RemoveLock
<1>5. Kinds'
    BY <1>2, <1>4 DEF Typed, Kinds, Walks, Exists
<1>6. LockSide(p)
    BY <1>1, <1>4, HarmlessPlace DEF LockSide
<1>7. ClaimSide(p) /\ \A m \in Marks : ThiefSide(p, m)
    BY <1>1, <1>4, HarmlessSides
<1> QED BY <1>1, <1>5, <1>6, <1>7, HarmlessActs

LEMMA BackOffActs ==
    ASSUME Typed, NEW p \in Clients, BackOff(p)
    PROVE  Acts(p)
<1>1. loc[p].pc = "backOff" /\ HasLock(p) /\ loc \in [Clients -> Locals]
    BY DEF BackOff, At, HasLock, Typed, Kinds
<1>2. loc[p].task \in {"install", "repair"}
    BY <1>1, Placed
<1>3. PICK o \in Outcomes : RemoveLock(o)
    BY DEF BackOff
<1>4. \/ Task(p) = "install" /\ To(p, "contended")
      \/ Conflict(p)
      \/ LaunchFence(p)
    BY <1>2 DEF BackOff, Task
<1>5. "contended" \in Pcs
    BY HarmlessPcs DEF Harmless
<1>6. /\ Walks(p)
      /\ \/ loc'[p].task = "install" /\ loc'[p].pc = "contended"
         \/ loc'[p].task = "wait" /\ loc'[p].pc = "waitClaim"
         \/ loc'[p].task = "fence" /\ loc'[p].pc = "acquireClaim"
    BY <1>1, <1>4, <1>5, ToEffect, ConflictEffect, LaunchFenceEffect DEF Stays, Enters, Task
<1>7. loc'[p].pc \in Harmless /\ Place(loc'[p]) /\ Aimed(loc'[p])
    BY <1>6, HarmlessFits
<1> QED BY <1>1, <1>3, <1>6, <1>7, RemoveLockActs DEF BackOff

LEMMA AbandonActs ==
    ASSUME Typed, NEW p \in Clients, Abandon(p)
    PROVE  Acts(p)
<1>1. loc[p].pc = "abandon" /\ HasLock(p) /\ loc \in [Clients -> Locals]
    BY DEF Abandon, At, HasLock, Typed, Kinds
<1>2. loc[p].then \in {"conflict", "failed", "done"}
    BY <1>1, Placed DEF Fits, Returns
<1>3. PICK o \in Outcomes : RemoveLock(o)
    BY DEF Abandon
<1>4. /\ Walks(p)
      /\ \/ loc'[p].task = "wait" /\ loc'[p].pc = "waitClaim"
         \/ loc'[p].pc \in {"failed", "done"}
    BY <1>1, <1>2, ResumeEffect DEF Abandon, Enters
<1>5. loc'[p].pc \in Harmless /\ Place(loc'[p]) /\ Aimed(loc'[p])
    BY <1>4, HarmlessFits DEF Ended
<1> QED BY <1>1, <1>3, <1>4, <1>5, RemoveLockActs DEF Abandon

LEMMA CreateLockActs ==
    ASSUME Typed, NEW p \in Clients, CreateLock(p)
    PROVE  Acts(p)
<1>1. loc[p].pc = "create" /\ loc[p].pc \notin Ended \cup {"launch"} /\ loc \in [Clients -> Locals]
      /\ faults \in 0..MaxFaults /\ mark \in [Marks -> MarkType]
    BY DEF CreateLock, At, Ended, Typed, Kinds
<1>2. remote[p] = {} /\ loc[p].task \in {"install", "repair"} /\ ~Over(p)
    BY <1>1, Placed DEF Over
<1>3. PICK o \in Outcomes :
         /\ Count(o)
         /\ \/ ~Exists("lock") /\ mark' = [mark EXCEPT !["lock"] = Made(p)]
            \/ mark' = mark /\ (o = "ok" => ~(dir.present /\ ~Exists("lock")))
         /\ \/ o = "ok" /\ dir.present /\ ~Exists("lock") /\ To(p, "recheck")
            \/ Task(p) = "install" /\ To(p, "contended")
            \/ Task(p) = "repair" /\ StartSteal(p, "lock")
            \/ Task(p) = "repair" /\ To(p, "classify")
    BY <1>2, OutcomeCases DEF CreateLock, Task
<1>4. faults' \in 0..MaxFaults
    BY <1>1, <1>3, CountEffect
<1>5. /\ mark' \in [Marks -> MarkType] /\ mark'["claim"] = mark["claim"]
      /\ \/ ~Exists("lock") /\ mark'["lock"] = Made(p)
         \/ mark'["lock"] = mark["lock"]
  <2>1. CASE mark' = mark
      BY <1>1, <2>1
  <2>2. CASE mark' = [mark EXCEPT !["lock"] = Made(p)]
      BY <1>1, <1>3, <2>2, MarkTypes, MarkEffect DEF Marks
  <2> QED BY <1>3, <2>1, <2>2
<1>6. "recheck" \in Pcs /\ "contended" \in Pcs /\ "classify" \in Pcs
    BY HarmlessPcs DEF Harmless, Pcs, InstallPcs
<1>7. /\ Walks(p)
      /\ \/ loc'[p].task = loc[p].task /\ loc'[p].pc = "recheck"
            /\ ~Exists("lock") /\ mark'["lock"] = Made(p)
         \/ loc'[p].task = "install" /\ loc'[p].pc = "contended"
         \/ loc'[p].task = "repair" /\ loc'[p].pc = "stealRead" /\ loc'[p].aim = "lock"
         \/ loc'[p].task = "repair" /\ loc'[p].pc = "classify"
    BY <1>1, <1>3, <1>5, <1>6, ToEffect, StartStealEffect, HarmlessPcs, MarkTypes, MarkEffect
       DEF Stays, Task
<1>8. UNCHANGED <<dir, steal, remote, moved, slept>>
    BY DEF CreateLock
<1>9. Kinds'
    BY <1>4, <1>5, <1>7, <1>8 DEF Typed, Kinds, Walks, Exists
<1>10. CASE loc'[p].pc # "recheck"
  <2>1. loc'[p].pc \in Harmless /\ Place(loc'[p]) /\ Aimed(loc'[p])
      BY <1>7, <1>10, HarmlessFits
  <2>2. LockSide(p)
      BY <1>2, <1>5, <1>8, <2>1, HarmlessPlace DEF LockSide
  <2>3. ClaimSide(p) /\ \A m \in Marks : ThiefSide(p, m)
      BY <1>2, <1>5, <1>8, <2>1, HarmlessSides
  <2> QED BY <1>1, <1>7, <1>8, <1>9, <2>1, <2>2, <2>3, HarmlessActs
<1>11. CASE loc'[p].pc = "recheck"
  <2>1. /\ Idle(p)' /\ ~Guarded(p)' /\ ~UsesClaim(p)' /\ ~Sure(p)'
        /\ \A m \in Marks : ~Stealing(p, m)'
      BY <1>2, <1>7, <1>8, <1>11 DEF Idle, Guarded, UsesClaim, Sure, Stealing, Outside, At, Task, GcPcs
  <2>2. LockSide(p)
      BY <1>7, <1>11, <2>1 DEF LockSide
  <2>3. ClaimSide(p)
      BY <1>5, <1>11, <2>1 DEF ClaimSide
  <2>4. StealSide(p)
      BY <1>8, <1>11, <2>1 DEF StealSide, ThiefSide
  <2>5. Fits(loc'[p], remote'[p])
    <3>1. Place(loc'[p]) /\ Aimed(loc'[p]) /\ Returns(loc'[p])
        BY <1>2, <1>7, <1>11 DEF Place, Aimed, Returns, InstallPcs, RepairPcs, Stealers
    <3> QED BY <1>2, <1>7, <1>8, <3>1, WalksUnlocked DEF Fits, Leaves
  <2>6. Sight(p) /\ DirSide(p)
      BY <1>8, <1>11, <2>1 DEF Sight, DirSide
  <2> QED BY <1>2, <1>7, <1>8, <1>9, <2>2, <2>3, <2>4, <2>5, <2>6 DEF Acts, Others, Walks
<1> QED BY <1>10, <1>11

-----------------------------------------------------------------------------
(* The steal script.                                                       *)

\* The end of a theft that did not come to the lock or the claim.
LEMMA LostTheft ==
    ASSUME Typed, NEW p \in Clients, loc[p].pc \in Stealers, StealEnds(p, FALSE)
    PROVE  Walks(p) /\ loc'[p].pc \in Harmless /\ Place(loc'[p]) /\ Aimed(loc'[p])
<1>1. loc \in [Clients -> Locals]
    BY DEF Typed, Kinds
<1>2. loc[p].aim = "lock" => Task(p) \in {"install", "repair"}
    BY Placed DEF Task
<1>3. /\ Walks(p)
      /\ \/ loc[p].aim = "lock" /\ loc'[p].task = loc[p].task
            /\ loc'[p].pc = IF Task(p) = "install" THEN "poll" ELSE "classify"
         \/ loc[p].aim = "claim" /\ Waits(p) /\ loc'[p].task = loc[p].task /\ loc'[p].pc = "waitClaim"
         \/ loc'[p].task = "wait" /\ loc'[p].pc = "waitClaim"
         \/ loc'[p].pc = "done"
    BY <1>1, StealEndsEffect DEF Stays, Enters
<1> QED BY <1>2, <1>3, HarmlessFits DEF Task, Waits, Ended

\* What is at the .steal.N directories of the other mark.
LEMMA StealEffect ==
    ASSUME steal \in [Marks -> SUBSET Clients], NEW m \in Marks, NEW S \in SUBSET Clients,
           steal' = [steal EXCEPT ![m] = S]
    PROVE  /\ steal' \in [Marks -> SUBSET Clients] /\ steal'[m] = S
           /\ \A k \in Marks : k # m => steal'[k] = steal[k]
OBVIOUS

LEMMA StealCheckActs ==
    ASSUME Typed, NEW p \in Clients, StealCheck(p)
    PROVE  Acts(p)
<1> DEFINE m == loc[p].aim
           mine == (m = "lock" => dir.present) /\ \A q \in steal[m] : ~Stealing(q, m)
<1>1. loc[p].pc = "stealCheck" /\ loc[p].pc \notin Ended \cup {"launch"} /\ loc[p].pc \in Stealers
      /\ loc \in [Clients -> Locals] /\ steal \in [Marks -> SUBSET Clients] /\ m \in Marks
    BY DEF StealCheck, At, Ended, Stealers, Typed, Kinds, Locals
<1>2. remote[p] = {} /\ ~Over(p)
    BY <1>1, Placed DEF Over
<1>3. UNCHANGED <<dir, mark, remote, faults, moved, slept>>
    BY DEF StealCheck
<1>4. \/ /\ mine /\ SameMark(p, m) /\ steal' = [steal EXCEPT ![m] = @ \cup {p}]
         /\ To(p, "stealMove")
      \/ /\ StealEnds(p, FALSE)
         /\ \/ steal' = steal
            \/ mine /\ steal' = [steal EXCEPT ![m] = {}]
    BY Zenon DEF StealCheck
<1>5. mine => NoThief(m)
    BY DEF NoThief
<1> HIDE DEF m, mine
<1>6. CASE StealEnds(p, FALSE) /\ (steal' = steal \/ (mine /\ steal' = [steal EXCEPT ![m] = {}]))
  <2>1. Walks(p) /\ loc'[p].pc \in Harmless /\ Place(loc'[p]) /\ Aimed(loc'[p])
      BY <1>1, <1>6, LostTheft
  <2>2. /\ steal' \in [Marks -> SUBSET Clients]
        /\ \A k \in Marks : steal'[k] = steal[k] \/ (steal'[k] = {} /\ NoThief(k))
      BY <1>1, <1>5, <1>6, StealEffect
  <2>3. Kinds'
      BY <1>3, <2>1, <2>2 DEF Typed, Kinds, Walks, Exists
  <2>4. LockSide(p) /\ ClaimSide(p)
      BY <1>2, <1>3, <2>1, HarmlessSides
  <2>5. \A k \in Marks : ThiefSide(p, k)
      BY <1>2, <1>3, <2>1, <2>2, HarmlessPlace DEF ThiefSide
  <2> QED BY <1>1, <1>3, <2>1, <2>3, <2>4, <2>5, HarmlessActs
<1>7. CASE mine /\ SameMark(p, m) /\ steal' = [steal EXCEPT ![m] = @ \cup {p}] /\ To(p, "stealMove")
  <2>1. "stealMove" \in Pcs
      BY DEF Pcs, InstallPcs, Stealers
  <2>2. Walks(p) /\ Stays(p) /\ loc'[p].pc = "stealMove" /\ loc'[p].seen = loc[p].seen
      BY <1>1, <1>7, <2>1, ToEffect
  <2>3. /\ steal' \in [Marks -> SUBSET Clients] /\ steal'[m] = steal[m] \cup {p}
        /\ \A k \in Marks : k # m => steal'[k] = steal[k]
      BY <1>1, <1>7, StealEffect
  <2>4. Kinds'
      BY <1>3, <2>2, <2>3 DEF Typed, Kinds, Walks, Exists
  <2>5. Idle(p)' /\ ~HasLock(p)' /\ ~Guarded(p)' /\ ~UsesClaim(p)' /\ ~Sure(p)'
      BY <1>2, <1>3, <2>2 DEF HasLock, Idle, Guarded, UsesClaim, Sure, Outside, Stealers, At, Task, GcPcs
  <2>6. LockSide(p) /\ ClaimSide(p) /\ Sight(p) /\ DirSide(p)
      BY <1>3, <2>2, <2>5 DEF LockSide, ClaimSide, Sight, DirSide
  <2>7. StealSide(p)
    <3>1. \A k \in Marks : k # m => ~Stealing(p, k)'
        BY <2>2 DEF Stealing, Stays, m
    <3>2. \A k \in Marks : ThiefSide(p, k)
        BY <1>5, <1>7, <2>3, <3>1 DEF ThiefSide
    <3>3. SameMark(p, loc[p].aim)'
        BY <1>3, <1>7, <2>2 DEF SameMark, Stale, Exists, Stays, m
    <3> QED BY <3>2, <3>3 DEF StealSide
  <2>8. Fits(loc'[p], remote'[p])
    <3>1. \/ loc'[p].aim = "lock" /\ loc'[p].task \in {"install", "repair"}
          \/ loc'[p].aim = "claim" /\ loc'[p].task \in {"install", "fence", "wait", "gc"}
        BY <1>1, <2>2, Placed DEF Stays
    <3>2. Place(loc'[p]) /\ Aimed(loc'[p]) /\ Returns(loc'[p])
        BY <2>2, <3>1 DEF Place, Aimed, Returns, InstallPcs, RepairPcs, FencePcs, WaitPcs, GcRunPcs,
                          Stealers
    <3> QED BY <1>2, <1>3, <2>2, <3>2, WalksUnlocked DEF Fits, Leaves
  <2> QED BY <1>2, <1>3, <2>2, <2>4, <2>6, <2>7, <2>8 DEF Acts, Others, Walks
<1> QED BY <1>4, <1>6, <1>7

LEMMA StealMoveActs ==
    ASSUME Typed, NEW p \in Clients, StealMove(p)
    PROVE  Acts(p)
<1> DEFINE m == loc[p].aim
<1>1. loc[p].pc = "stealMove" /\ loc[p].pc \notin Ended \cup {"launch"} /\ loc[p].pc \in Stealers
      /\ loc \in [Clients -> Locals] /\ steal \in [Marks -> SUBSET Clients] /\ m \in Marks
      /\ mark \in [Marks -> MarkType]
    BY DEF StealMove, At, Ended, Stealers, Typed, Kinds, Locals
<1>2. remote[p] = {} /\ ~Over(p) /\ Stealing(p, m)
    BY <1>1, Placed DEF Over, Stealing
<1>3. UNCHANGED <<dir, remote, faults, moved, slept>>
    BY DEF StealMove
<1>4. \/ mark' = [mark EXCEPT ![m] = Absent] /\ To(p, "stealCreate") /\ steal' = steal
      \/ steal' = [steal EXCEPT ![m] = {}] /\ StealEnds(p, FALSE) /\ mark' = mark
    BY Zenon DEF StealMove
<1>5. CASE steal' = [steal EXCEPT ![m] = {}] /\ StealEnds(p, FALSE) /\ mark' = mark
  <2>1. Walks(p) /\ loc'[p].pc \in Harmless /\ Place(loc'[p]) /\ Aimed(loc'[p])
      BY <1>1, <1>5, LostTheft
  <2>2. /\ steal' \in [Marks -> SUBSET Clients] /\ steal'[m] = {}
        /\ \A k \in Marks : k # m => steal'[k] = steal[k]
      BY <1>1, <1>5, StealEffect
  <2>3. Kinds'
      BY <1>3, <1>5, <2>1, <2>2 DEF Typed, Kinds, Walks, Exists
  <2>4. LockSide(p) /\ ClaimSide(p)
      BY <1>2, <1>3, <1>5, <2>1, HarmlessSides
  <2>5. \A k \in Marks : ThiefSide(p, k)
      BY <1>2, <1>3, <2>1, <2>2, HarmlessPlace DEF ThiefSide
  <2> QED BY <1>1, <1>3, <2>1, <2>3, <2>4, <2>5, HarmlessActs
<1>6. CASE mark' = [mark EXCEPT ![m] = Absent] /\ To(p, "stealCreate") /\ steal' = steal
  <2>1. "stealCreate" \in Pcs
      BY DEF Pcs, InstallPcs, Stealers
  <2>2. Walks(p) /\ Stays(p) /\ loc'[p].pc = "stealCreate"
      BY <1>1, <1>6, <2>1, ToEffect
  <2>3. /\ mark' \in [Marks -> MarkType] /\ mark'[m] = Absent
        /\ \A k \in Marks : k # m => mark'[k] = mark[k]
      BY <1>1, <1>6, MarkTypes, MarkEffect
  <2> HIDE DEF m
  <2>4. m \in {"lock", "claim"} /\ m = loc[p].aim
      BY <1>1 DEF Marks, m
  <2>5. mark'["claim"].owner # Nobody => mark'["claim"].by # Nobody
      BY <2>3, <2>4, MarkTypes DEF Typed, Kinds, Exists, Marks
  <2>6. Kinds'
      BY <1>3, <1>6, <2>2, <2>3, <2>5 DEF Typed, Kinds, Walks, Exists
  <2>7. Idle(p)' /\ ~HasLock(p)' /\ ~Guarded(p)' /\ ~UsesClaim(p)' /\ ~Sure(p)'
      BY <1>2, <1>3, <2>2 DEF HasLock, Idle, Guarded, UsesClaim, Sure, Outside, Stealers, At, Task, GcPcs
  <2>8. LockSide(p)
      BY <1>1, <2>3, <2>4, <2>7 DEF LockSide, At, Marks
  <2>9. ClaimSide(p)
      BY <1>1, <2>2, <2>3, <2>4, <2>7 DEF ClaimSide, At, Marks
  <2>10. Sight(p) /\ DirSide(p)
      BY <1>3, <2>2, <2>7 DEF Sight, DirSide
  <2>11. StealSide(p)
    <3>1. \A k \in Marks : Stealing(p, k)' => Stealing(p, k)
        BY <1>1, <2>2 DEF Stealing, Stays
    <3> QED BY <1>6, <2>2, <3>1 DEF StealSide, ThiefSide
  <2>12. Fits(loc'[p], remote'[p])
    <3>1. \/ loc'[p].aim = "lock" /\ loc'[p].task \in {"install", "repair"}
          \/ loc'[p].aim = "claim" /\ loc'[p].task \in {"install", "fence", "wait", "gc"}
        BY <1>1, <2>2, Placed DEF Stays
    <3>2. Place(loc'[p]) /\ Aimed(loc'[p]) /\ Returns(loc'[p])
        BY <2>2, <3>1 DEF Place, Aimed, Returns, InstallPcs, RepairPcs, FencePcs, WaitPcs, GcRunPcs,
                          Stealers
    <3> QED BY <1>2, <1>3, <2>2, <3>2, WalksUnlocked DEF Fits, Leaves
  <2> QED BY <1>2, <1>3, <2>2, <2>6, <2>8, <2>9, <2>10, <2>11, <2>12 DEF Acts, Others, Walks
<1> QED BY <1>4, <1>5, <1>6

LEMMA StealCreateActs ==
    ASSUME Typed, NEW p \in Clients, StealCreate(p)
    PROVE  Acts(p)
<1> DEFINE m == loc[p].aim
           won == ~Exists(m) /\ (m = "lock" => dir.present)
<1>1. loc[p].pc = "stealCreate" /\ loc[p].pc \notin Ended \cup {"launch"} /\ loc[p].pc \in Stealers
      /\ loc \in [Clients -> Locals] /\ steal \in [Marks -> SUBSET Clients] /\ m \in {"lock", "claim"}
      /\ mark \in [Marks -> MarkType] /\ faults \in 0..MaxFaults
    BY DEF StealCreate, At, Ended, Stealers, Typed, Kinds, Locals, Marks
<1>2. remote[p] = {} /\ ~Over(p) /\ Stealing(p, m)
    BY <1>1, Placed DEF Over, Stealing
<1>3. UNCHANGED <<dir, remote, moved, slept>>
    BY DEF StealCreate
<1>4. PICK o \in Outcomes :
         /\ Count(o)
         /\ mark' = IF won THEN [mark EXCEPT ![m] = Made(p)] ELSE mark
         /\ steal' = [steal EXCEPT ![m] = {}]
         /\ StealEnds(p, won /\ o = "ok")
    BY Zenon DEF StealCreate
<1>5. faults' \in 0..MaxFaults
    BY <1>1, <1>4, CountEffect
<1>6. won => ~Exists(m)
    OBVIOUS
<1> HIDE DEF won
<1>7. /\ mark' \in [Marks -> MarkType]
      /\ \A k \in Marks : k # m => mark'[k] = mark[k]
      /\ \/ won /\ ~Exists(m) /\ mark'[m] = Made(p)
         \/ ~won /\ mark'[m] = mark[m]
    BY <1>1, <1>4, <1>6, MarkTypes, MarkEffect DEF Marks
<1>8. /\ steal' \in [Marks -> SUBSET Clients] /\ steal'[m] = {}
      /\ \A k \in Marks : k # m => steal'[k] = steal[k]
    BY <1>1, <1>4, StealEffect DEF Marks
<1>9. mark'["claim"].owner # Nobody => mark'["claim"].by # Nobody
    BY <1>1, <1>7, MarkTypes DEF Typed, Kinds, Exists, Marks
<1>10. ASSUME Walks(p) PROVE Kinds'
    BY <1>3, <1>5, <1>7, <1>8, <1>9, <1>10 DEF Typed, Kinds, Walks, Exists
<1>11. CASE ~(won /\ o = "ok")
  <2>1. StealEnds(p, FALSE)
      BY <1>4, <1>11
  <2>2. Walks(p) /\ loc'[p].pc \in Harmless /\ Place(loc'[p]) /\ Aimed(loc'[p])
      BY <1>1, <2>1, LostTheft
  <2>3. ~HasLock(p)' /\ ~Guarded(p)' /\ ~UsesClaim(p)' /\ Idle(p)' /\ loc'[p].pc # "writeOwner"
      BY <1>2, <1>3, <2>2, HarmlessPlace
  <2>4. LockSide(p)
      BY <1>1, <1>7, <2>3 DEF LockSide, Marks
  <2>5. ClaimSide(p)
      BY <1>1, <1>7, <2>3 DEF ClaimSide, Marks
  <2>6. \A k \in Marks : ThiefSide(p, k)
      BY <1>2, <1>3, <1>8, <2>2, HarmlessPlace DEF ThiefSide
  <2> QED BY <1>1, <1>3, <1>10, <2>2, <2>4, <2>5, <2>6, HarmlessActs
<1>12. CASE won /\ o = "ok"
  <2>1. StealEnds(p, TRUE)
      BY <1>4, <1>12
  <2>2. /\ Walks(p) /\ Stays(p)
        /\ loc'[p].pc = IF m = "lock" THEN "recheck" ELSE "writeOwner"
      BY <1>1, <2>1, StealEndsEffect
  <2>3. ~Exists(m) /\ mark'[m] = Made(p)
      BY <1>7, <1>12
  <2>4. \A k \in Marks : ~Stealing(p, k)'
      BY <2>2 DEF Stealing
  <2>5. ~Guarded(p)' /\ ~Sure(p)'
      BY <1>2, <1>3, <2>2 DEF Guarded, Sure, At, Task, GcPcs
  <2>6. m = "lock" => Idle(p)' /\ ~UsesClaim(p)'
      BY <1>2, <1>3, <2>2 DEF Idle, UsesClaim, Outside, At, Task, GcPcs
  <2>7. m = "claim" => ~HasLock(p)'
      BY <1>2, <1>3, <2>2 DEF HasLock, At, Task
  <2> HIDE DEF m
  <2>8. LockSide(p)
      BY <1>1, <1>7, <2>3, <2>6, <2>7 DEF LockSide, Marks
  <2>9. ClaimSide(p)
      BY <1>1, <1>7, <2>2, <2>3, <2>5, <2>6 DEF ClaimSide, Marks
  <2>10. Sight(p)
    <3>1. m = "claim" => mark'["claim"].owner = Nobody
        BY <2>3, MarkTypes
    <3> QED BY <1>1, <2>5, <2>6, <3>1 DEF Sight
  <2>11. StealSide(p)
      BY <1>2, <1>8, <2>2, <2>4 DEF StealSide, ThiefSide
  <2>12. DirSide(p)
      BY <1>3, <2>2 DEF DirSide
  <2>13. Fits(loc'[p], remote'[p])
    <3>1. \/ m = "lock" /\ loc'[p].task \in {"install", "repair"}
          \/ m = "claim" /\ loc'[p].task \in {"install", "fence", "wait", "gc"}
        BY <1>1, <2>2, Placed DEF Stays, m
    <3>2. Place(loc'[p]) /\ Aimed(loc'[p]) /\ Returns(loc'[p])
        BY <2>2, <3>1 DEF Place, Aimed, Returns, InstallPcs, RepairPcs, FencePcs, WaitPcs, GcRunPcs,
                          Stealers
    <3> QED BY <1>2, <1>3, <2>2, <3>2, WalksUnlocked DEF Fits, Leaves
  <2> QED BY <1>2, <1>3, <1>10, <2>2, <2>8, <2>9, <2>10, <2>11, <2>12, <2>13 DEF Acts, Others, Walks
<1> QED BY <1>11, <1>12

-----------------------------------------------------------------------------
(* The claim.                                                              *)

\* The step changes nothing on the host but the claim.
LEMMA ClaimKinds ==
    ASSUME Typed, NEW p \in Clients, Walks(p), faults' \in 0..MaxFaults,
           UNCHANGED <<dir, steal, remote, moved, slept>>, NEW x \in MarkType,
           mark' = mark \/ mark' = [mark EXCEPT !["claim"] = x],
           x.owner # Nobody => x.by # Nobody
    PROVE  /\ Kinds' /\ mark'["lock"] = mark["lock"]
           /\ mark'["claim"] = mark["claim"] \/ mark'["claim"] = x
<1>1. mark \in [Marks -> MarkType]
    BY DEF Typed, Kinds
<1>2. /\ mark' \in [Marks -> MarkType] /\ mark'["lock"] = mark["lock"]
      /\ mark'["claim"] = mark["claim"] \/ mark'["claim"] = x
  <2>1. CASE mark' = mark
      BY <1>1, <2>1
  <2>2. CASE mark' = [mark EXCEPT !["claim"] = x]
      BY <1>1, <2>2, MarkEffect DEF Marks
  <2> QED BY <2>1, <2>2
<1> QED BY <1>2 DEF Typed, Kinds, Walks, Exists

LEMMA AcquireClaimActs ==
    ASSUME Typed, NEW p \in Clients, AcquireClaim(p)
    PROVE  Acts(p)
<1>1. loc[p].pc = "acquireClaim" /\ loc[p].pc \notin Ended \cup {"launch"} /\ loc \in [Clients -> Locals]
      /\ faults \in 0..MaxFaults /\ mark \in [Marks -> MarkType]
    BY DEF AcquireClaim, At, Ended, Typed, Kinds
<1>2. remote[p] = {} /\ loc[p].task \in {"fence", "gc"} /\ ~Over(p)
    BY <1>1, Placed DEF Over
<1>3. UNCHANGED <<dir, steal, remote, moved, slept>>
    BY DEF AcquireClaim
<1>4. PICK o \in Outcomes :
         /\ Count(o)
         /\ \/ ~Exists("claim") /\ mark' = [mark EXCEPT !["claim"] = Made(p)]
            \/ mark' = mark
         /\ \/ /\ ~Exists("claim") /\ mark' = [mark EXCEPT !["claim"] = Made(p)]
               /\ To(p, "writeOwner")
            \/ StartSteal(p, "claim")
            \/ Conflict(p)
            \/ To(p, "done")
    BY OutcomeCases DEF AcquireClaim
<1>5. faults' \in 0..MaxFaults
    BY <1>1, <1>4, CountEffect
<1>6. "writeOwner" \in Pcs /\ "done" \in Pcs
    BY DEF Pcs, InstallPcs, Ended
<1>7. /\ Walks(p)
      /\ \/ /\ loc'[p].task = loc[p].task /\ loc'[p].pc = "writeOwner"
            /\ ~Exists("claim") /\ mark' = [mark EXCEPT !["claim"] = Made(p)]
         \/ loc'[p].task = loc[p].task /\ loc'[p].pc = "stealRead" /\ loc'[p].aim = "claim"
         \/ loc'[p].task = "wait" /\ loc'[p].pc = "waitClaim"
         \/ loc'[p].pc = "done"
    BY <1>1, <1>4, <1>6, ToEffect, StartStealEffect, ConflictEffect, HarmlessPcs DEF Stays, Enters
<1>8. Made(p) \in MarkType /\ Made(p).owner = Nobody
    BY MarkTypes
<1>9. Kinds' /\ mark'["lock"] = mark["lock"]
    BY <1>3, <1>4, <1>5, <1>7, <1>8, ClaimKinds
<1>10. \/ ~Exists("claim") /\ mark'["claim"] = Made(p)
       \/ mark'["claim"] = mark["claim"]
    BY <1>1, <1>4, <1>8, MarkEffect DEF Marks
<1>11. CASE loc'[p].pc # "writeOwner"
  <2>1. loc'[p].pc \in Harmless /\ Place(loc'[p]) /\ Aimed(loc'[p])
      BY <1>2, <1>7, <1>11, HarmlessFits DEF Ended
  <2>2. LockSide(p) /\ \A m \in Marks : ThiefSide(p, m)
      BY <1>2, <1>3, <1>9, <2>1, HarmlessSides
  <2>3. ClaimSide(p)
      BY <1>2, <1>3, <1>10, <2>1, HarmlessPlace DEF ClaimSide
  <2> QED BY <1>1, <1>3, <1>7, <1>9, <2>1, <2>2, <2>3, HarmlessActs
<1>12. CASE loc'[p].pc = "writeOwner"
  <2>1. ~Exists("claim") /\ mark'["claim"] = Made(p) /\ loc'[p].task = loc[p].task
      BY <1>1, <1>7, <1>8, <1>12, MarkEffect DEF Marks
  <2>2. ~HasLock(p)' /\ ~Guarded(p)' /\ ~Sure(p)' /\ \A k \in Marks : ~Stealing(p, k)'
      BY <1>2, <1>3, <1>12, <2>1 DEF HasLock, Guarded, Sure, Stealing, At, Task, GcPcs
  <2>3. LockSide(p) /\ ClaimSide(p)
      BY <1>9, <2>1, <2>2 DEF LockSide, ClaimSide
  <2>4. StealSide(p) /\ Sight(p) /\ DirSide(p)
      BY <1>3, <1>12, <2>1, <2>2 DEF StealSide, ThiefSide, Sight, DirSide
  <2>5. Fits(loc'[p], remote'[p])
    <3>1. Place(loc'[p]) /\ Aimed(loc'[p]) /\ Returns(loc'[p])
        BY <1>2, <1>12, <2>1 DEF Place, Aimed, Returns, FencePcs, GcRunPcs, Stealers
    <3> QED BY <1>2, <1>3, <1>7, <1>12, <3>1, WalksUnlocked DEF Fits, Leaves
  <2> QED BY <1>2, <1>3, <1>7, <1>9, <2>3, <2>4, <2>5 DEF Acts, Others, Walks
<1> QED BY <1>11, <1>12

\* Where a client goes on from its claim.
LEMMA OwnerEffect ==
    ASSUME Typed, NEW p \in Clients, loc[p].task \in {"install", "wait", "fence", "gc"},
           Owner(p) \/ NoOwner(p)
    PROVE  /\ Walks(p) /\ Stays(p)
           /\ \/ loc'[p].pc = "dropClaim" /\ Returns(loc'[p])
              \/ Owner(p) /\ loc[p].task = "fence" /\ loc'[p].pc = "fenced"
              \/ Owner(p) /\ loc[p].task = "gc" /\ loc'[p].pc = "gcLock"
<1>1. loc \in [Clients -> Locals]
    BY DEF Typed, Kinds
<1>2. /\ {"dropClaim", "fenced", "gcLock"} \subseteq Pcs
      /\ {"parent", "start", "waitClaim", "conflict", "done"} \subseteq Thens
    BY DEF Pcs, InstallPcs, FencePcs, GcRunPcs, GcPcs, Thens
<1>3. CASE Owner(p)
  <2>1. \/ loc[p].task = "install" /\ RemoveThen(p, "dropClaim", "parent")
        \/ loc[p].task = "wait" /\ RemoveThen(p, "dropClaim", "start")
        \/ loc[p].task = "fence" /\ To(p, "fenced")
        \/ loc[p].task = "gc" /\ To(p, "gcLock")
      BY <1>3 DEF Owner, Task
  <2> QED BY <1>1, <1>2, <1>3, <2>1, ToEffect, RemoveThenEffect DEF Stays, Returns
<1>4. CASE NoOwner(p)
  <2>1. \/ loc[p].task \in {"install", "wait"} /\ RemoveThen(p, "dropClaim", "waitClaim")
        \/ loc[p].task = "fence" /\ RemoveThen(p, "dropClaim", "conflict")
        \/ loc[p].task = "gc" /\ RemoveThen(p, "dropClaim", "done")
      BY <1>4 DEF NoOwner, Waits, Task
  <2> QED BY <1>1, <1>2, <2>1, RemoveThenEffect DEF Stays, Returns
<1> QED BY <1>3, <1>4

LEMMA WriteOwnerActs ==
    ASSUME Typed, NEW p \in Clients, WriteOwner(p)
    PROVE  Acts(p)
<1> DEFINE c == mark["claim"]
           x == [[c EXCEPT !.owner = p] EXCEPT !.old = c.old /\ c.owner # Nobody]
<1>1. loc[p].pc = "writeOwner" /\ loc[p].pc \notin Ended \cup {"launch"} /\ loc \in [Clients -> Locals]
      /\ faults \in 0..MaxFaults /\ mark \in [Marks -> MarkType] /\ c \in MarkType
    BY DEF WriteOwner, At, Ended, Typed, Kinds, Marks
<1>2. remote[p] = {} /\ loc[p].task \in {"install", "wait", "fence", "gc"} /\ ~Over(p)
    BY <1>1, Placed DEF Over
<1>3. UNCHANGED <<dir, steal, remote, moved, slept>>
    BY DEF WriteOwner
<1>4. x \in MarkType /\ x.by = c.by /\ x.owner = p /\ (x.old => c.old)
  <2> HIDE DEF c
  <2> QED BY <1>1 DEF MarkType
<1>5. PICK o \in Outcomes :
         /\ Count(o)
         /\ \/ Exists("claim") /\ mark' = [mark EXCEPT !["claim"] = x]
            \/ mark' = mark
         /\ \/ Exists("claim") /\ mark' = [mark EXCEPT !["claim"] = x] /\ Owner(p)
            \/ NoOwner(p)
  <2>1. [mark EXCEPT !["claim"].owner = p, !["claim"].old = @ /\ mark["claim"].owner # Nobody]
        = [mark EXCEPT !["claim"] = x]
      BY <1>1 DEF MarkType
  <2> HIDE DEF x, c
  <2> QED BY <2>1, OutcomeCases DEF WriteOwner
<1>6. faults' \in 0..MaxFaults
    BY <1>1, <1>5, CountEffect
<1>7. /\ Walks(p) /\ Stays(p)
      /\ \/ loc'[p].pc = "dropClaim" /\ Returns(loc'[p])
         \/ Owner(p) /\ loc[p].task = "fence" /\ loc'[p].pc = "fenced"
         \/ Owner(p) /\ loc[p].task = "gc" /\ loc'[p].pc = "gcLock"
    BY <1>2, <1>5, OwnerEffect
<1>8. c.by # Nobody <=> Exists("claim")
    BY DEF Exists
<1> HIDE DEF x, c
<1>9. /\ mark' \in [Marks -> MarkType] /\ mark'["lock"] = mark["lock"]
      /\ \/ Exists("claim") /\ mark'["claim"] = x
         \/ NoOwner(p) /\ mark'["claim"] = c
    BY <1>1, <1>4, <1>5, MarkEffect DEF Marks, c
<1>10. mark'["claim"].owner # Nobody => mark'["claim"].by # Nobody
    BY <1>4, <1>8, <1>9 DEF Typed, Kinds, c
<1>11. Kinds'
    BY <1>3, <1>6, <1>7, <1>9, <1>10 DEF Typed, Kinds, Walks, Exists
<1>12. loc'[p].pc \in {"fenced", "gcLock", "dropClaim"} /\ loc'[p].task = loc[p].task
    BY <1>7 DEF Stays
<1>13. NoOwner(p) => loc'[p].pc = "dropClaim"
  <2>1. NoOwner(p) => \E s \in Thens : RemoveThen(p, "dropClaim", s)
      BY DEF NoOwner, Thens
  <2> QED BY <1>1, <2>1, RemoveThenEffect DEF Pcs, InstallPcs
<1>14. UsesClaim(p) /\ ~HasLock(p)' /\ ~Sure(p)' /\ \A k \in Marks : ~Stealing(p, k)'
    BY <1>1, <1>2, <1>3, <1>12 DEF UsesClaim, HasLock, Sure, Stealing, At, Task
<1>15. ClaimSide(p)
  <2>1. CASE Exists("claim") /\ mark'["claim"] = x
      BY <1>1, <1>4, <1>12, <2>1 DEF ClaimSide, At, c
  <2>2. CASE NoOwner(p) /\ mark'["claim"] = c
    <3>1. ~Guarded(p)'
        BY <1>2, <1>3, <1>13, <2>2 DEF Guarded, At, Task, GcPcs
    <3> QED BY <1>12, <1>14, <2>2, <3>1 DEF ClaimSide, c
  <2> QED BY <1>9, <2>1, <2>2
<1>16. LockSide(p) /\ StealSide(p) /\ DirSide(p)
    BY <1>3, <1>9, <1>12, <1>14 DEF LockSide, StealSide, ThiefSide, DirSide
<1>17. ~Idle(p)
    BY <1>1 DEF Idle, Outside, Stealers, Ended
<1>18. Fits(loc'[p], remote'[p])
  <2>1. Place(loc'[p])
      BY <1>2, <1>7, <1>12 DEF Place, InstallPcs, WaitPcs, FencePcs, GcRunPcs, GcPcs
  <2>2. Aimed(loc'[p]) /\ Returns(loc'[p])
      BY <1>7, <1>12 DEF Aimed, Returns, Stealers
  <2> QED BY <1>2, <1>3, <1>7, <2>1, <2>2, WalksUnlocked DEF Fits, Leaves
<1> QED BY <1>2, <1>3, <1>7, <1>11, <1>14, <1>15, <1>16, <1>17, <1>18 DEF Acts, Others, Walks, Sight

LEMMA DropClaimActs ==
    ASSUME Typed, NEW p \in Clients, DropClaim(p)
    PROVE  Acts(p)
<1>1. loc[p].pc = "dropClaim" /\ loc[p].pc \notin Ended \cup {"launch"} /\ loc \in [Clients -> Locals]
      /\ faults \in 0..MaxFaults /\ mark \in [Marks -> MarkType]
    BY DEF DropClaim, At, Ended, Typed, Kinds
<1>2. remote[p] = {} /\ loc[p].task \in {"install", "wait", "fence", "gc"} /\ Returns(loc[p])
    BY <1>1, Placed DEF Fits
<1>3. UNCHANGED <<dir, steal, remote, moved, slept>>
    BY DEF DropClaim
<1>4. PICK o \in Outcomes :
         /\ Count(o)
         /\ \/ mark["claim"].owner = p /\ mark' = [mark EXCEPT !["claim"] = Absent]
            \/ mark' = mark
         /\ \/ Waits(p) /\ To(p, "waitClaim")
            \/ Resume(p)
    BY DEF DropClaim
<1>5. faults' \in 0..MaxFaults
    BY <1>1, <1>4, CountEffect
<1>6. "waitClaim" \in Pcs
    BY HarmlessPcs DEF Harmless
<1>7. /\ Walks(p)
      /\ \/ loc[p].task \in {"install", "wait"} /\ loc'[p].task = loc[p].task /\ loc'[p].pc = "waitClaim"
         \/ loc'[p].task = "wait" /\ loc'[p].pc = "waitClaim"
         \/ /\ loc'[p].task = loc[p].task /\ loc'[p].pc = loc[p].then /\ loc[p].then # "conflict"
    BY <1>1, <1>4, <1>6, ToEffect, ResumeEffect DEF Stays, Enters, Waits, Task
<1>8. \/ loc'[p].task \in {"install", "wait"} /\ loc'[p].pc = "waitClaim"
      \/ loc'[p].task = "install" /\ loc'[p].pc = "parent"
      \/ loc'[p].task = "wait" /\ loc'[p].pc = "start"
      \/ loc'[p].pc \in {"failed", "done"}
    BY <1>1, <1>2, <1>7 DEF Returns
<1>9. loc'[p].pc \in Harmless /\ Place(loc'[p]) /\ Aimed(loc'[p])
    BY <1>8, HarmlessFits DEF Ended
<1>10. Absent \in MarkType /\ Absent.owner = Nobody
    BY MarkTypes
<1>11. Kinds' /\ mark'["lock"] = mark["lock"]
    BY <1>3, <1>4, <1>5, <1>7, <1>10, ClaimKinds
<1>12. LockSide(p) /\ \A m \in Marks : ThiefSide(p, m)
    BY <1>2, <1>3, <1>9, <1>11, HarmlessSides
<1>13. \/ mark["claim"].owner = p /\ mark'["claim"] = Absent
       \/ mark'["claim"] = mark["claim"]
    BY <1>1, <1>4, <1>10, MarkEffect DEF Marks
<1>14. ClaimSide(p)
    BY <1>1, <1>2, <1>3, <1>9, <1>13, HarmlessPlace DEF ClaimSide, At
<1> QED BY <1>1, <1>3, <1>7, <1>9, <1>11, <1>12, <1>14, HarmlessActs

-----------------------------------------------------------------------------
(* Work in the directory, and commands left behind in it.                  *)

LEMMA LeaveEffect ==
    ASSUME Typed, NEW p \in Clients, NEW r \in SUBSET {"npm", "start"},
           remote' = [remote EXCEPT ![p] = r]
    PROVE  /\ remote' \in [Clients -> SUBSET {"npm", "start"}] /\ remote'[p] = r
           /\ \A q \in Clients : q # p => remote'[q] = remote[q]
<1>1. remote \in [Clients -> SUBSET {"npm", "start"}]
    BY DEF Typed, Kinds
<1> QED BY <1>1

LEMMA DirEffect ==
    ASSUME Typed
    PROVE  /\ EmptyDir \in Dirs /\ EmptyDir.present /\ ~EmptyDir.alive /\ NoDir \in Dirs /\ ~NoDir.alive
           /\ dir' = [dir EXCEPT !.complete = TRUE] =>
                 dir' \in Dirs /\ dir'.present = dir.present /\ dir'.alive = dir.alive
           /\ dir' = [dir EXCEPT !.alive = TRUE] => dir' \in Dirs /\ dir'.present = dir.present
           /\ dir' = [dir EXCEPT !.alive = FALSE] =>
                 dir' \in Dirs /\ dir'.present = dir.present /\ ~dir'.alive
<1>1. dir \in Dirs
    BY DEF Typed, Kinds
<1> QED BY <1>1 DEF Dirs, EmptyDir, NoDir

\* A step that leaves the marks alone, on the way to a launch or to the end.
LEMMA WorkActs ==
    ASSUME Typed, NEW p \in Clients, Walks(p), faults' \in 0..MaxFaults,
           UNCHANGED <<mark, steal, moved, slept>>,
           dir' \in Dirs, dir.present => dir'.present,
           dir'.alive => dir.alive \/ At(p, "launch") \/ remote[p] # {},
           remote' \in [Clients -> SUBSET {"npm", "start"}],
           \A q \in Clients : q # p => remote'[q] = remote[q],
           ~Over(p), Place(loc'[p]), Returns(loc'[p]), Leaves(loc'[p], remote'[p]),
           HasLock(p)' => HasLock(p), Guarded(p)' => Guarded(p), UsesClaim(p)' => UsesClaim(p),
           loc'[p].pc \in Ended \cup {"launch", "abandon", "dropClaim"}, Idle(p) => Idle(p)'
    PROVE  Acts(p)
<1>1. Kinds'
    BY DEF Typed, Kinds, Walks, Exists
<1>2. Others(p)
    BY DEF Walks, Others
<1>3. ~Sure(p)' /\ loc'[p].pc \notin {"writeOwner", "stealMove", "stealCreate", "gcOwned", "gcMove"}
    BY DEF Sure, Ended
<1>4. LockSide(p) /\ ClaimSide(p) /\ Sight(p) /\ DirSide(p)
    BY <1>3 DEF LockSide, ClaimSide, Sight, DirSide
<1>5. StealSide(p)
    BY <1>3 DEF StealSide, ThiefSide, Stealing
<1>6. Fits(loc'[p], remote'[p])
    BY WalksUnlocked DEF Fits, Aimed, Stealers, Ended
<1> QED BY <1>1, <1>2, <1>4, <1>5, <1>6 DEF Acts

LEMMA CreateParentActs ==
    ASSUME Typed, NEW p \in Clients, CreateParent(p)
    PROVE  Acts(p)
<1>1. loc[p].pc = "parent" /\ loc[p].pc \notin Ended \cup {"launch"} /\ loc \in [Clients -> Locals]
      /\ faults \in 0..MaxFaults
    BY DEF CreateParent, At, Ended, Typed, Kinds
<1>2. loc[p].task \in {"install", "repair"} /\ remote[p] = {}
    BY <1>1, Placed
<1>3. PICK o \in Outcomes :
         /\ Count(o)
         /\ dir' = IF dir.present \/ o = "unsent" THEN dir ELSE EmptyDir
         /\ \/ To(p, "create")
            \/ To(p, "failed")
            \/ loc[p].task = "repair" /\ To(p, "classify")
    BY <1>2 DEF CreateParent, Task
<1>4. faults' \in 0..MaxFaults
    BY <1>1, <1>3, CountEffect
<1>5. dir' \in Dirs /\ (dir.present => dir'.present) /\ (dir'.alive => dir.alive)
    BY <1>3, DirEffect DEF Typed, Kinds
<1>6. {"create", "failed", "classify"} \subseteq Pcs
    BY HarmlessPcs DEF Harmless, Ended
<1>7. /\ Walks(p) /\ loc'[p].task = loc[p].task
      /\ \/ loc'[p].pc = "create"
         \/ loc'[p].pc = "failed"
         \/ loc[p].task = "repair" /\ loc'[p].pc = "classify"
    BY <1>1, <1>3, <1>6, ToEffect DEF Stays
<1>8. loc'[p].pc \in Harmless /\ Place(loc'[p]) /\ Aimed(loc'[p])
    BY <1>2, <1>7, HarmlessFits DEF Ended
<1>9. UNCHANGED <<mark, steal, remote, moved, slept>>
    BY DEF CreateParent
<1>10. Kinds'
    BY <1>4, <1>5, <1>7, <1>9 DEF Typed, Kinds, Walks, Exists
<1>11. LockSide(p) /\ ClaimSide(p) /\ \A m \in Marks : ThiefSide(p, m)
    BY <1>2, <1>8, <1>9, HarmlessSides
<1> QED BY <1>1, <1>5, <1>7, <1>8, <1>9, <1>10, <1>11, HarmlessActs

LEMMA InstallDoneActs ==
    ASSUME Typed, NEW p \in Clients, InstallDone(p)
    PROVE  Acts(p)
<1>1. loc[p].pc = "installing" /\ loc[p].pc \notin Ended \cup {"launch"} /\ loc \in [Clients -> Locals]
    BY DEF InstallDone, At, Ended, Typed, Kinds
<1>2. loc[p].task \in {"install", "repair"} /\ remote[p] = {} /\ ~Over(p)
    BY <1>1, Placed DEF Over
<1>3. UNCHANGED <<mark, steal, remote, faults, moved, slept>>
    BY DEF InstallDone
<1>4. dir' \in Dirs /\ dir'.present = dir.present /\ dir'.alive = dir.alive
    BY DirEffect DEF InstallDone
<1>5. "launch" \in Pcs
    BY DEF Pcs, InstallPcs
<1>6. Walks(p) /\ loc'[p].task = loc[p].task /\ loc'[p].pc = "launch"
    BY <1>1, <1>5, ToEffect DEF InstallDone, Stays
<1>7. Place(loc'[p]) /\ Returns(loc'[p]) /\ Leaves(loc'[p], remote'[p])
    BY <1>2, <1>3, <1>6 DEF Place, Returns, Leaves, InstallPcs, RepairPcs
<1>8. HasLock(p) /\ ~Guarded(p)' /\ ~UsesClaim(p)' /\ ~Idle(p)
    BY <1>1, <1>2, <1>3, <1>6 DEF HasLock, Guarded, UsesClaim, Idle, Outside, Stealers, Ended, At,
                                  Task, GcPcs
<1>9. faults' \in 0..MaxFaults /\ remote' \in [Clients -> SUBSET {"npm", "start"}]
    BY <1>3 DEF Typed, Kinds
<1> QED BY <1>2, <1>3, <1>4, <1>6, <1>7, <1>8, <1>9, WorkActs

LEMMA InstallFailsActs ==
    ASSUME Typed, NEW p \in Clients, InstallFails(p)
    PROVE  Acts(p)
<1>1. loc[p].pc = "installing" /\ loc[p].pc \notin Ended \cup {"launch"} /\ loc \in [Clients -> Locals]
      /\ faults \in 0..MaxFaults
    BY DEF InstallFails, At, Ended, Typed, Kinds
<1>2. loc[p].task \in {"install", "repair"} /\ remote[p] = {} /\ ~Over(p)
    BY <1>1, Placed DEF Over
<1>3. UNCHANGED <<dir, mark, steal, moved, slept>>
    BY DEF InstallFails
<1>4. PICK o \in Outcomes, c \in BOOLEAN :
         /\ Count(o)
         /\ remote' = IF c THEN remote ELSE [remote EXCEPT ![p] = remote[p] \cup {"npm"}]
         /\ \/ /\ loc[p].task = "repair"
               /\ loc' = [loc EXCEPT ![p].pc = "launch", ![p].ownsInstallLock = c]
            \/ loc[p].task = "install" /\ c /\ RemoveThen(p, "abandon", "failed")
            \/ loc[p].task = "install" /\ ~c /\ To(p, "failed")
    BY <1>2 DEF InstallFails, Task
<1>5. faults' \in 0..MaxFaults
    BY <1>1, <1>4, CountEffect
<1>6. /\ remote' \in [Clients -> SUBSET {"npm", "start"}]
      /\ remote'[p] = IF c THEN {} ELSE {"npm"}
      /\ \A q \in Clients : q # p => remote'[q] = remote[q]
  <2>1. CASE c
      BY <1>2, <1>4, <2>1 DEF Typed, Kinds
  <2>2. CASE ~c
    <3>1. remote' = [remote EXCEPT ![p] = {"npm"}]
        BY <1>2, <1>4, <2>2
    <3>2. {"npm"} \in SUBSET {"npm", "start"}
        OBVIOUS
    <3> QED BY <2>2, <3>1, <3>2, LeaveEffect
  <2> QED BY <2>1, <2>2
<1>7. {"launch", "abandon", "failed"} \subseteq Pcs /\ "failed" \in Thens
    BY DEF Pcs, InstallPcs, Ended, Thens
<1>8. /\ Walks(p) /\ loc'[p].task = loc[p].task
      /\ \/ loc[p].task = "repair" /\ loc'[p].pc = "launch" /\ loc'[p].ownsInstallLock = c
         \/ loc[p].task = "install" /\ c /\ loc'[p].pc = "abandon" /\ loc'[p].then = "failed"
         \/ loc[p].task = "install" /\ ~c /\ loc'[p].pc = "failed"
  <2>1. CASE /\ loc[p].task = "repair"
             /\ loc' = [loc EXCEPT ![p].pc = "launch", ![p].ownsInstallLock = c]
      BY <1>1, <1>7, <2>1 DEF Walks, Locals
  <2>2. CASE loc[p].task = "install" /\ c /\ RemoveThen(p, "abandon", "failed")
      BY <1>1, <1>7, <2>2, RemoveThenEffect DEF Stays
  <2>3. CASE loc[p].task = "install" /\ ~c /\ To(p, "failed")
      BY <1>1, <1>7, <2>3, ToEffect DEF Stays
  <2> QED BY <1>4, <2>1, <2>2, <2>3
<1>9. Place(loc'[p]) /\ Returns(loc'[p]) /\ Leaves(loc'[p], remote'[p])
    BY <1>6, <1>8 DEF Place, Returns, Leaves, InstallPcs, RepairPcs, Ended
<1>10. HasLock(p) /\ ~Guarded(p)' /\ ~UsesClaim(p)' /\ ~Idle(p)
    BY <1>1, <1>8 DEF HasLock, Guarded, UsesClaim, Idle, Outside, Stealers, Ended, At, Task, GcPcs
<1>11. dir' \in Dirs
    BY <1>3 DEF Typed, Kinds
<1> QED BY <1>2, <1>3, <1>5, <1>6, <1>8, <1>9, <1>10, <1>11, WorkActs DEF Ended

LEMMA LaunchDoneActs ==
    ASSUME Typed, NEW p \in Clients, LaunchDone(p)
    PROVE  Acts(p)
<1>1. loc[p].pc = "launch" /\ loc \in [Clients -> Locals] /\ ~Over(p)
    BY DEF LaunchDone, At, Over, Ended, Typed, Kinds
<1>2. /\ loc[p].task \in {"install", "repair", "fence"}
      /\ remote[p] # {} => loc[p].task = "repair" /\ ~loc[p].ownsInstallLock
      /\ loc[p].ownsInstallLock => loc[p].task # "fence"
      /\ "npm" \in remote[p] => loc[p].task \in {"install", "repair"}
    BY <1>1, Placed DEF Fits, Leaves, Unlocked, Ended
<1>3. UNCHANGED <<mark, steal, remote, faults, moved, slept>>
    BY DEF LaunchDone
<1>4. dir' \in Dirs /\ dir'.present = dir.present
    BY DirEffect DEF LaunchDone
<1>5. {"abandon", "dropClaim", "done"} \subseteq Pcs /\ "done" \in Thens
    BY DEF Pcs, InstallPcs, Ended, Thens
<1>6. \/ loc[p].ownsInstallLock /\ RemoveThen(p, "abandon", "done")
      \/ loc[p].task = "fence" /\ RemoveThen(p, "dropClaim", "done")
      \/ loc[p].task # "fence" /\ To(p, "done")
    BY DEF LaunchDone, Task
<1>7. /\ Walks(p) /\ loc'[p].task = loc[p].task
      /\ \/ loc[p].ownsInstallLock /\ loc'[p].pc = "abandon" /\ loc'[p].then = "done"
         \/ loc[p].task = "fence" /\ loc'[p].pc = "dropClaim" /\ loc'[p].then = "done"
         \/ loc[p].task # "fence" /\ loc'[p].pc = "done"
    BY <1>1, <1>5, <1>6, ToEffect, RemoveThenEffect DEF Stays
<1>8. Place(loc'[p]) /\ Returns(loc'[p]) /\ Leaves(loc'[p], remote'[p])
    BY <1>2, <1>3, <1>7 DEF Place, Returns, Leaves, InstallPcs, RepairPcs, FencePcs, Ended
<1>9. HasLock(p)' => HasLock(p)
    BY <1>1, <1>2, <1>3, <1>7 DEF HasLock, At, Task
<1>10. ~Guarded(p)' /\ (UsesClaim(p)' => UsesClaim(p)) /\ ~Idle(p)
    BY <1>1, <1>2, <1>3, <1>7 DEF Guarded, UsesClaim, Idle, Outside, Stealers, Ended, At, Task, GcPcs
<1>11. faults' \in 0..MaxFaults /\ remote' \in [Clients -> SUBSET {"npm", "start"}]
    BY <1>3 DEF Typed, Kinds
<1> QED BY <1>1, <1>3, <1>4, <1>7, <1>8, <1>9, <1>10, <1>11, WorkActs DEF At, Ended

LEMMA LaunchFailsActs ==
    ASSUME Typed, NEW p \in Clients, LaunchFails(p)
    PROVE  Acts(p)
<1>1. loc[p].pc = "launch" /\ loc \in [Clients -> Locals] /\ ~Over(p) /\ faults \in 0..MaxFaults
    BY DEF LaunchFails, At, Over, Ended, Typed, Kinds
<1>2. /\ loc[p].task \in {"install", "repair", "fence"} /\ remote[p] \in SUBSET {"npm", "start"}
      /\ "npm" \in remote[p] => loc[p].task \in {"install", "repair"}
    BY <1>1, Placed DEF Fits, Leaves
<1>3. UNCHANGED <<dir, mark, steal, moved, slept>>
    BY DEF LaunchFails
<1>4. PICK o \in Outcomes, left \in SUBSET {"start"} :
         Count(o) /\ remote' = [remote EXCEPT ![p] = remote[p] \cup left]
    BY DEF LaunchFails
<1>5. faults' \in 0..MaxFaults
    BY <1>1, <1>4, CountEffect
<1>6. /\ remote' \in [Clients -> SUBSET {"npm", "start"}]
      /\ \A q \in Clients : q # p => remote'[q] = remote[q]
      /\ "npm" \in remote'[p] => "npm" \in remote[p]
  <2>1. remote[p] \cup left \in SUBSET {"npm", "start"}
      BY <1>2
  <2> QED BY <1>4, <2>1, LeaveEffect
<1>7. "failed" \in Pcs
    BY DEF Pcs, Ended
<1>8. Walks(p) /\ loc'[p].task = loc[p].task /\ loc'[p].pc = "failed"
    BY <1>1, <1>7, ToEffect DEF LaunchFails, Stays
<1>9. Place(loc'[p]) /\ Returns(loc'[p]) /\ Leaves(loc'[p], remote'[p])
    BY <1>2, <1>6, <1>8 DEF Place, Returns, Leaves, Ended
<1>10. (HasLock(p)' => HasLock(p)) /\ (Guarded(p)' => Guarded(p)) /\ (UsesClaim(p)' => UsesClaim(p))
    BY <1>1, <1>8 DEF HasLock, Guarded, UsesClaim, At, Task, GcPcs
<1>11. ~Idle(p) /\ dir' \in Dirs
    BY <1>1, <1>3 DEF Idle, Outside, Stealers, Ended, Typed, Kinds
<1> QED BY <1>1, <1>3, <1>5, <1>6, <1>8, <1>9, <1>10, <1>11, WorkActs DEF Ended

LEMMA CrashActs ==
    ASSUME Typed, NEW p \in Clients, Crash(p)
    PROVE  Acts(p)
<1>1. loc[p].pc \notin Ended /\ loc \in [Clients -> Locals] /\ ~Over(p) /\ faults \in 0..MaxFaults
    BY DEF Crash, Over, Typed, Kinds
<1>2. UNCHANGED <<dir, mark, steal, moved, slept>>
    BY DEF Crash
<1>3. faults' \in 0..MaxFaults
    BY <1>1, EnvAssumption DEF Crash
<1>4. PICK left \in SUBSET {"npm", "start"} :
         /\ "npm" \in left => At(p, "installing")
         /\ "start" \in left => At(p, "launch")
         /\ remote' = [remote EXCEPT ![p] = remote[p] \cup left]
    BY DEF Crash
<1>5. /\ remote' \in [Clients -> SUBSET {"npm", "start"}] /\ remote'[p] = remote[p] \cup left
      /\ \A q \in Clients : q # p => remote'[q] = remote[q]
  <2>1. remote[p] \cup left \in SUBSET {"npm", "start"}
      BY Placed
  <2> QED BY <1>4, <2>1, LeaveEffect
<1>6. /\ At(p, "installing") => Task(p) \in {"install", "repair"}
      /\ At(p, "launch") => Task(p) \in {"install", "repair", "fence"}
      /\ remote[p] # {} => At(p, "launch")
      /\ "npm" \in remote[p] => Task(p) \in {"install", "repair"}
    BY <1>1, Placed DEF Fits, Leaves, At, Task
<1>7. Walks(p) /\ loc'[p].task = Task(p) /\ loc'[p].pc = "dead"
  <2>1. Task(p) \in Tasks /\ "dead" \in Pcs
      BY <1>1 DEF Task, Locals, Pcs, Ended
  <2> QED BY <1>1, <2>1, BeginEffect DEF Crash, Enters
<1>8. remote'[p] # {} => At(p, "installing") \/ At(p, "launch")
    BY <1>4, <1>5, <1>6
<1>9. Place(loc'[p]) /\ Returns(loc'[p]) /\ Leaves(loc'[p], remote'[p])
    BY <1>4, <1>5, <1>6, <1>7, <1>8 DEF Place, Returns, Leaves, Ended
<1>10. (HasLock(p)' => HasLock(p)) /\ (Guarded(p)' => Guarded(p)) /\ (UsesClaim(p)' => UsesClaim(p))
    BY <1>6, <1>7, <1>8 DEF HasLock, Guarded, UsesClaim, At, Task, GcPcs
<1>11. Idle(p) => Idle(p)'
    BY <1>7, <1>8 DEF Idle, Outside, Stealers, Ended, At
<1>12. dir' \in Dirs
    BY <1>2 DEF Typed, Kinds
<1> QED BY <1>1, <1>2, <1>3, <1>5, <1>7, <1>9, <1>10, <1>11, <1>12, WorkActs DEF Ended

LEMMA RemoteEndsActs ==
    ASSUME Typed, NEW p \in Clients, RemoteEnds(p)
    PROVE  Acts(p)
<1>1. PICK r \in remote[p] :
         /\ remote' = [remote EXCEPT ![p] = remote[p] \ {r}]
         /\ dir' = dir \/ dir' = [dir EXCEPT !.alive = TRUE]
    BY DEF RemoteEnds
<1>2. UNCHANGED <<mark, steal, loc, faults, moved, slept>>
    BY DEF RemoteEnds
<1>3. /\ loc \in [Clients -> Locals] /\ remote[p] \in SUBSET {"npm", "start"} /\ ~Over(p)
      /\ Fits(loc[p], remote[p]) /\ loc[p].pc \in Ended \cup {"launch"}
    BY <1>1, Placed DEF Over, Typed, Kinds
<1>4. /\ remote' \in [Clients -> SUBSET {"npm", "start"}] /\ remote'[p] = remote[p] \ {r}
      /\ \A q \in Clients : q # p => remote'[q] = remote[q]
  <2>1. remote[p] \ {r} \in SUBSET {"npm", "start"}
      BY <1>3
  <2> QED BY <1>1, <2>1, LeaveEffect
<1>5. dir' \in Dirs /\ dir'.present = dir.present
    BY <1>1, DirEffect DEF Typed, Kinds
<1>6. Walks(p)
    BY <1>2, <1>3 DEF Walks, Fits, Unlocked
<1>7. Place(loc'[p]) /\ Returns(loc'[p]) /\ Leaves(loc'[p], remote'[p])
    BY <1>2, <1>3, <1>4 DEF Fits, Leaves
<1>8. (HasLock(p)' => HasLock(p)) /\ (Guarded(p)' => Guarded(p)) /\ (UsesClaim(p)' => UsesClaim(p))
    BY <1>2, <1>4 DEF HasLock, Guarded, UsesClaim, At, Task
<1>9. Idle(p) => Idle(p)'
    BY <1>1 DEF Idle
<1>10. faults' \in 0..MaxFaults
    BY <1>2 DEF Typed, Kinds
<1> QED BY <1>1, <1>2, <1>3, <1>4, <1>5, <1>6, <1>7, <1>8, <1>9, <1>10, WorkActs

LEMMA GcMoveActs ==
    ASSUME Typed, NEW p \in Clients, GcMove(p)
    PROVE  Acts(p)
<1>1. loc[p].pc = "gcMove" /\ loc[p].pc \notin Ended \cup {"launch"} /\ loc \in [Clients -> Locals]
      /\ faults \in 0..MaxFaults /\ mark \in [Marks -> MarkType] /\ steal \in [Marks -> SUBSET Clients]
    BY DEF GcMove, At, Ended, Typed, Kinds
<1>2. loc[p].task = "gc" /\ remote[p] = {} /\ ~Over(p)
    BY <1>1, Placed DEF Over
<1>3. UNCHANGED <<remote, slept>>
    BY DEF GcMove
<1>4. PICK o \in Outcomes :
         /\ Count(o)
         /\ \/ /\ dir' = NoDir /\ moved' = TRUE
               /\ mark' = [mark EXCEPT !["lock"] = Absent]
               /\ steal' = [steal EXCEPT !["lock"] = {}]
            \/ UNCHANGED <<dir, mark, steal, moved>>
         /\ \/ RemoveThen(p, "dropClaim", "done")
            \/ To(p, "done")
    BY DEF GcMove
<1>5. faults' \in 0..MaxFaults
    BY <1>1, <1>4, CountEffect
<1>6. {"dropClaim", "done"} \subseteq Pcs /\ "done" \in Thens
    BY DEF Pcs, InstallPcs, Ended, Thens
<1>7. /\ Walks(p) /\ loc'[p].task = "gc"
      /\ \/ loc'[p].pc = "dropClaim" /\ loc'[p].then = "done"
         \/ loc'[p].pc = "done"
    BY <1>1, <1>2, <1>4, <1>6, ToEffect, RemoveThenEffect DEF Stays
<1>8. /\ mark' \in [Marks -> MarkType] /\ steal' \in [Marks -> SUBSET Clients]
      /\ mark'["claim"] = mark["claim"] /\ steal'["claim"] = steal["claim"]
      /\ dir' \in Dirs /\ moved' \in BOOLEAN /\ (dir'.alive => dir.alive)
      /\ \/ moved' /\ mark'["lock"] = Absent
         \/ mark' = mark /\ steal' = steal /\ moved' = moved /\ dir' = dir
  <2>1. CASE UNCHANGED <<dir, mark, steal, moved>>
      BY <1>1, <2>1 DEF Typed, Kinds
  <2>2. CASE /\ dir' = NoDir /\ moved' = TRUE
             /\ mark' = [mark EXCEPT !["lock"] = Absent]
             /\ steal' = [steal EXCEPT !["lock"] = {}]
      BY <1>1, <2>2, MarkTypes, MarkEffect, StealEffect, DirEffect DEF Marks
  <2> QED BY <1>4, <2>1, <2>2
<1>9. Kinds'
    BY <1>3, <1>5, <1>7, <1>8 DEF Typed, Kinds, Walks, Exists
<1>10. /\ UsesClaim(p) /\ ~HasLock(p)' /\ ~Guarded(p)' /\ ~Sure(p)' /\ ~Idle(p)
       /\ \A m \in Marks : ~Stealing(p, m)'
    BY <1>1, <1>2, <1>3, <1>7 DEF UsesClaim, HasLock, Guarded, Sure, Idle, Outside, Stealers, Ended,
                                  Stealing, At, Task, GcPcs
<1>11. LockSide(p)
    BY <1>8, <1>10 DEF LockSide
<1>12. ClaimSide(p)
    BY <1>7, <1>8, <1>10 DEF ClaimSide
<1>13. StealSide(p)
    BY <1>7, <1>8, <1>10 DEF StealSide, ThiefSide, Marks
<1>14. Sight(p) /\ DirSide(p)
    BY <1>1, <1>7, <1>8, <1>10 DEF Sight, DirSide, At
<1>15. Fits(loc'[p], remote'[p])
  <2>1. Place(loc'[p]) /\ Aimed(loc'[p]) /\ Returns(loc'[p])
      BY <1>7 DEF Place, Aimed, Returns, GcRunPcs, Stealers, Ended
  <2> QED BY <1>2, <1>3, <1>7, <2>1, WalksUnlocked DEF Fits, Leaves
<1> QED BY <1>2, <1>3, <1>7, <1>9, <1>11, <1>12, <1>13, <1>14, <1>15 DEF Acts, Others, Walks

-----------------------------------------------------------------------------
(* Every step keeps the invariant.                                         *)

LEMMA ClientActs ==
    ASSUME Typed, NEW p \in Clients, Step(p) \/ GiveUp(p) \/ Crash(p) \/ RemoteEnds(p)
    PROVE  Acts(p)
<1>1. CASE StealRead(p) \/ StealCheck(p) \/ StealMove(p) \/ StealCreate(p)
    BY <1>1, StealReadActs, StealCheckActs, StealMoveActs, StealCreateActs
<1>2. CASE AcquireClaim(p) \/ WriteOwner(p) \/ DropClaim(p) \/ WaitClaim(p)
    BY <1>2, AcquireClaimActs, WriteOwnerActs, DropClaimActs, WaitClaimActs
<1>3. CASE Start(p) \/ RepairProbe(p) \/ CreateParent(p) \/ CreateLock(p) \/ Recheck(p)
    BY <1>3, StartActs, RepairProbeActs, CreateParentActs, CreateLockActs, RecheckActs
<1>4. CASE BackOff(p) \/ StaleCheck(p) \/ Poll(p) \/ Classify(p) \/ GiveUp(p)
    BY <1>4, BackOffActs, WaitingActs, ClassifyActs
<1>5. CASE Held(p) \/ InstallDone(p) \/ InstallFails(p) \/ Abandon(p)
    BY <1>5, HeldActs, InstallDoneActs, InstallFailsActs, AbandonActs
<1>6. CASE Fenced(p) \/ LaunchDone(p) \/ LaunchFails(p)
    BY <1>6, FencedActs, LaunchDoneActs, LaunchFailsActs
<1>7. CASE GcLock(p) \/ GcComplete(p) \/ GcSocket(p) \/ GcOwned(p) \/ GcMove(p)
    BY <1>7, GcLockActs, GcCompleteActs, GcSocketActs, GcOwnedActs, GcMoveActs
<1>8. CASE Crash(p) \/ RemoteEnds(p)
    BY <1>8, CrashActs, RemoteEndsActs
<1> QED BY <1>1, <1>2, <1>3, <1>4, <1>5, <1>6, <1>7, <1>8 DEF Step

\* Parts of the invariant that a step which changes nobody's place keeps.
LEMMA AgeingKeeps ==
    ASSUME Inv, NEW m \in Marks, Exists(m), mark' = [mark EXCEPT ![m].old = TRUE],
           UNCHANGED <<dir, steal, loc, remote, moved>>,
           faults' \in 0..MaxFaults, slept' \in BOOLEAN, slept => slept',
           m = "lock" => Over(mark["lock"].by),
           m = "claim" => slept' \/ ~UsesClaim(mark["claim"].by)
    PROVE  Inv'
<1> DEFINE x == [mark[m] EXCEPT !.old = TRUE]
<1>1. Typed /\ mark \in [Marks -> MarkType] /\ mark[m] \in MarkType
    BY DEF Inv, Typed, Kinds
<1>2. x \in MarkType /\ x.by = mark[m].by /\ x.owner = mark[m].owner /\ x.old
    BY <1>1 DEF MarkType
<1>3. mark' = [mark EXCEPT ![m] = x]
    OBVIOUS
<1> HIDE DEF x
<1>4. /\ mark' \in [Marks -> MarkType] /\ mark'[m] = x
      /\ \A k \in Marks : k # m => mark'[k] = mark[k]
    BY <1>1, <1>2, <1>3, MarkEffect
<1>5. \A k \in Marks : mark'[k].by = mark[k].by /\ mark'[k].owner = mark[k].owner
    BY <1>2, <1>4
<1>6. "lock" \in Marks /\ "claim" \in Marks
    BY DEF Marks
<1>7. Typed'
    BY <1>1, <1>4, <1>5, <1>6 DEF Typed, Kinds, Exists
<1>8. LockAges'
    BY <1>4, <1>5, <1>6 DEF Inv, LockAges, Stale, Exists, Over
<1>9. LockIsOwn'
    BY <1>5, <1>6 DEF Inv, LockIsOwn, HasLock, At, Task
<1>10. OneThief'
    BY DEF Inv, OneThief, Stealing
<1>11. Thieves'
  <2> SUFFICES ASSUME NEW k \in Marks, Unspoilt(k)', NEW q \in Clients, At(q, "stealMove")',
                      loc'[q].aim = k
               PROVE  SameMark(q, k)'
      BY DEF Thieves
  <2>1. SameMark(q, k)
      BY DEF Inv, Thieves, Unspoilt, At
  <2>2. mark'[k].by = mark[k].by /\ (mark[k].old => mark'[k].old)
      BY <1>2, <1>4
  <2> QED BY <2>1, <2>2 DEF SameMark, Stale, Exists
<1>12. ClaimIsOwn'
  <2> SUFFICES ASSUME ~slept' PROVE ClaimIsOwn'
      BY DEF ClaimIsOwn
  <2>1. mark'["claim"].by = mark["claim"].by /\ mark'["claim"].owner = mark["claim"].owner
      BY <1>5, <1>6
  <2>2. Stale("claim")' => ~UsesClaim(mark["claim"].by)'
    <3>1. CASE m = "claim"
        BY <2>1, <3>1 DEF UsesClaim, At, Task
    <3>2. CASE m # "claim"
        BY <1>4, <1>6, <2>1, <3>2 DEF Inv, ClaimIsOwn, Stale, Exists, UsesClaim, At, Task
    <3> QED BY <3>1, <3>2
  <2> QED BY <2>1, <2>2 DEF Inv, ClaimIsOwn, Guarded, At, Task
<1>13. Excluded'
    BY <1>5, <1>6 DEF Inv, Excluded, Sure, Idle, Task
<1>14. Asleep'
    BY DEF Inv, Asleep, At
<1> QED BY <1>7, <1>8, <1>9, <1>10, <1>11, <1>12, <1>13, <1>14 DEF Inv

LEMMA SleepKeeps ==
    ASSUME Inv, Sleep
    PROVE  Inv'
<1>1. faults' \in 0..MaxFaults
    BY EnvAssumption DEF Sleep, Inv, Typed, Kinds
<1>2. "claim" \in Marks /\ "claim" # "lock"
    BY DEF Marks
<1> QED BY <1>1, <1>2, AgeingKeeps DEF Sleep

LEMMA AgesKeeps ==
    ASSUME Inv, NEW m \in Marks, Ages(m)
    PROVE  Inv'
<1>1. faults' \in 0..MaxFaults /\ slept' \in BOOLEAN
    BY DEF Ages, Inv, Typed, Kinds
<1>2. m = "lock" => Over(mark["lock"].by)
    BY DEF Ages
<1>3. m = "claim" => ~UsesClaim(mark["claim"].by)
    BY DEF Ages
<1> QED BY <1>1, <1>2, <1>3, AgeingKeeps DEF Ages

LEMMA DaemonExitsKeeps ==
    ASSUME Inv, DaemonExits
    PROVE  Inv'
<1>1. dir' \in Dirs /\ ~dir'.alive
    BY DirEffect DEF DaemonExits, Inv
<1>2. UNCHANGED <<mark, steal, loc, remote, faults, moved, slept>>
    BY DEF DaemonExits
<1>3. Typed'
    BY <1>1, <1>2 DEF Inv, Typed, Kinds, Exists
<1>4. LockAges' /\ LockIsOwn' /\ OneThief'
    BY <1>2 DEF Inv, LockAges, LockIsOwn, OneThief, Stale, Exists, Over, HasLock, Stealing, At, Task
<1>5. Thieves' /\ Excluded'
    BY <1>2 DEF Inv, Thieves, Excluded, Unspoilt, SameMark, Stale, Exists, Sure, Idle, At, Task
<1>6. ClaimIsOwn'
    BY <1>2 DEF Inv, ClaimIsOwn, Stale, Exists, UsesClaim, Guarded, At, Task
<1>7. Asleep'
    BY <1>1 DEF Asleep
<1> QED BY <1>3, <1>4, <1>5, <1>6, <1>7 DEF Inv

LEMMA StutterKeeps ==
    ASSUME Inv, UNCHANGED vars
    PROVE  Inv'
<1>1. UNCHANGED <<dir, mark, steal, loc, remote, faults, moved, slept>>
    BY DEF vars
<1>2. Typed'
    BY <1>1 DEF Inv, Typed, Kinds, Exists
<1>3. LockAges' /\ LockIsOwn' /\ OneThief'
    BY <1>1 DEF Inv, LockAges, LockIsOwn, OneThief, Stale, Exists, Over, HasLock, Stealing, At, Task
<1>4. Thieves' /\ Excluded'
    BY <1>1 DEF Inv, Thieves, Excluded, Unspoilt, SameMark, Stale, Exists, Sure, Idle, At, Task
<1>5. ClaimIsOwn' /\ Asleep'
    BY <1>1 DEF Inv, ClaimIsOwn, Asleep, Stale, Exists, UsesClaim, Guarded, At, Task
<1> QED BY <1>2, <1>3, <1>4, <1>5 DEF Inv

LEMMA InitInv ==
    ASSUME Init
    PROVE  Inv
<1>1. /\ \A m \in Marks : mark[m] = Absent /\ steal[m] = {}
      /\ "lock" \in Marks /\ "claim" \in Marks
      /\ ~moved /\ ~slept /\ faults = 0
      /\ \A p \in Clients : remote[p] = {}
    BY DEF Init, Marks
<1>2. /\ Local("start", "start") \in Locals /\ Fits(Local("start", "start"), {})
      /\ Local("scan", "gcLock") \in Locals /\ Fits(Local("scan", "gcLock"), {})
  <2>1. {"start", "gcLock"} \subseteq Pcs /\ {"start", "scan"} \subseteq Tasks /\ "done" \in Thens
      BY DEF Pcs, GcRunPcs, GcPcs, Tasks, Thens
  <2> QED BY <2>1 DEF Local, Locals, Marks, Fits, Place, Aimed, Returns, Unlocked, Leaves, Stealers,
                      Ended
<1>3. \A p \in Clients : loc[p] \in {Local("start", "start"), Local("scan", "gcLock")}
    BY DEF Init
<1>4. Kinds
  <2>1. loc \in [Clients -> Locals]
      BY <1>2 DEF Init
  <2>2. mark \in [Marks -> MarkType] /\ mark["claim"].owner = Nobody
      BY MarkTypes DEF Init, Marks
  <2>3. dir \in Dirs /\ faults \in 0..MaxFaults
      BY EnvAssumption DEF Init
  <2>4. /\ steal \in [Marks -> SUBSET Clients] /\ remote \in [Clients -> SUBSET {"npm", "start"}]
        /\ moved \in BOOLEAN /\ slept \in BOOLEAN
      BY DEF Init
  <2> QED BY <1>1, <2>1, <2>2, <2>3, <2>4 DEF Kinds
<1>5. Typed
    BY <1>1, <1>2, <1>3, <1>4 DEF Typed
<1>6. \A p \in Clients : loc[p].pc \in {"start", "gcLock"} /\ loc[p].task \in {"start", "scan"}
    BY <1>3 DEF Local
<1>7. ~Exists("lock") /\ ~Exists("claim") /\ mark["claim"].owner = Nobody
    BY <1>1, MarkTypes DEF Exists
<1>8. \A p \in Clients : ~HasLock(p) /\ ~Guarded(p) /\ ~Sure(p) /\ ~At(p, "writeOwner")
                         /\ ~At(p, "stealMove") /\ loc[p].pc \notin {"gcOwned", "gcMove"}
                         /\ \A m \in Marks : ~Stealing(p, m)
    BY <1>1, <1>6 DEF HasLock, Guarded, Sure, Stealing, At, Task, GcPcs
<1>9. LockAges /\ LockIsOwn /\ OneThief /\ Thieves
    BY <1>7, <1>8 DEF LockAges, LockIsOwn, OneThief, Thieves, Stale
<1>10. ClaimIsOwn /\ Excluded /\ Asleep
    BY <1>7, <1>8 DEF ClaimIsOwn, Excluded, Asleep, Stale
<1> QED BY <1>5, <1>9, <1>10 DEF Inv

LEMMA NextInv ==
    ASSUME Inv, [Next]_vars
    PROVE  Inv'
<1>1. ASSUME NEW p \in Clients, Step(p) \/ GiveUp(p) \/ Crash(p) \/ RemoteEnds(p) PROVE Inv'
    BY <1>1, ClientActs, ActsKeeps DEF Inv
<1>2. CASE DaemonExits
    BY <1>2, DaemonExitsKeeps
<1>3. CASE Sleep
    BY <1>3, SleepKeeps
<1>4. ASSUME NEW m \in Marks, Ages(m) PROVE Inv'
    BY <1>4, AgesKeeps
<1>5. CASE UNCHANGED vars
    BY <1>5, StutterKeeps
<1> QED BY <1>1, <1>2, <1>3, <1>4, <1>5 DEF Next

LEMMA SpecInv == Spec => []Inv
<1>1. Init => Inv
    BY InitInv
<1>2. Inv /\ [Next]_vars => Inv'
    BY NextInv
<1> QED BY <1>1, <1>2, PTL DEF Spec

\* Every field of the model keeps its type: a lock or a claim is somebody's or
\* absent, and nobody but a client has a .steal.N directory or a command running.
THEOREM RelayTypeCorrect == Spec => []TypeOK
<1>1. Inv => TypeOK
    BY DEF Inv, Typed, Kinds, TypeOK, MarkType, Locals
<1> QED BY <1>1, SpecInv, PTL

\* acquireInstallLock and tryAcquireRelayRepairLock admit one client at a time to
\* the version directory until a collector has moved it away, whatever is stolen,
\* whoever crashes, whichever reply is lost, and whatever npm is left running.
THEOREM OneInstallerAtATime == Spec => []OneInstallerUntilMoved
<1>1. Inv => OneInstallerUntilMoved
  <2> SUFFICES ASSUME Inv, ~moved, NEW p \in Clients, NEW q \in Clients, Mutates(p), Mutates(q)
               PROVE  p = q
      BY DEF OneInstallerUntilMoved, OneInstaller
  <2>1. \A r \in Clients : Mutates(r) => HasLock(r)
      BY DEF Inv, Typed, Fits, Leaves, Mutates, HasLock, At, Task
  <2> QED BY <2>1 DEF Inv, LockIsOwn
<1> QED BY <1>1, SpecInv, PTL

\* Only gcOldRelayVersions moves the directory, with its claim if no machine has slept.
LEMMA MovesAreCollectors ==
    ASSUME Inv, [Next]_vars, dir.present, ~dir'.present
    PROVE  \E g \in Clients : Sure(g) /\ At(g, "gcMove") /\ (~slept => mark["claim"].owner = g)
<1>1. ASSUME NEW p \in Clients, Step(p) \/ GiveUp(p) \/ Crash(p) \/ RemoteEnds(p)
      PROVE  Sure(p) /\ At(p, "gcMove") /\ (~slept => mark["claim"].owner = p)
  <2>1. Acts(p)
      BY <1>1, ClientActs DEF Inv
  <2>2. At(p, "gcMove")
      BY <2>1 DEF Acts, DirSide
  <2>3. Sure(p) /\ Guarded(p)
      BY <2>2, Placed DEF Inv, Sure, Guarded, At, Task, GcPcs
  <2>4. ~slept => mark["claim"].owner = p
      BY <2>3 DEF Inv, ClaimIsOwn
  <2> QED BY <2>2, <2>3, <2>4
<1>2. dir' # dir /\ ~DaemonExits /\ ~Sleep /\ \A m \in Marks : ~Ages(m)
    BY DirEffect DEF Inv, DaemonExits, Sleep, Ages
<1> QED BY <1>1, <1>2 DEF Next, vars

\* gcOldRelayVersions never moves the directory away under a client that works
\* under the install lock which is there, or that left a command running: the
\* lock check under the claim and the claim check under the lock exclude each
\* other, through crashes, lost replies and thefts.  It does so only when a machine
\* has slept while it held the claim, and then only if no collector that is about
\* to move the directory has the claim any more.
THEOREM MovesAreFenced == Spec => MoveIsFenced
<1>1. ASSUME Inv, [Next]_vars
      PROVE  [dir.present /\ ~dir'.present
                => \A p \in Clients : Working(p) /\ mark["lock"].by = p
                                       => slept /\ ~MoverHasClaim]_vars
  <2> SUFFICES ASSUME dir.present, ~dir'.present, NEW p \in Clients, Working(p),
                      mark["lock"].by = p
               PROVE  slept /\ ~MoverHasClaim
      OBVIOUS
  <2>1. ~Idle(p)
      BY DEF Idle, Outside, Stealers, Ended, Working, At
  <2>2. \A g \in Clients : Sure(g) => mark["claim"].owner # g
      BY <1>1, <2>1 DEF Inv, Excluded
  <2>3. PICK g \in Clients : Sure(g) /\ (~slept => mark["claim"].owner = g)
      BY <1>1, MovesAreCollectors
  <2>4. slept
      BY <1>1, <2>2, <2>3 DEF Inv, Typed, Kinds
  <2>5. ~MoverHasClaim
    <3> SUFFICES ASSUME NEW c \in Collectors, At(c, "gcMove"), mark["claim"].owner = c
                 PROVE  FALSE
        BY DEF MoverHasClaim
    <3>1. c \in Clients
        BY DEF Clients
    <3>2. Sure(c)
        BY <1>1, <3>1, Placed DEF Inv, Sure, At, Task
    <3> QED BY <2>2, <3>1, <3>2
  <2> QED BY <2>4, <2>5
<1> QED BY <1>1, SpecInv, PTL DEF Spec, MoveIsFenced

\* The first directory that gcOldRelayVersions moves away has no live relay in it,
\* unless a machine has slept while it held a claim: a launch holds its fence until
\* its socket is up, and the socket is probed again under the claim.
THEOREM MovedRelayIsDown == Spec => NoLiveMove
<1>1. ASSUME Inv, [Next]_vars
      PROVE  [dir.present /\ ~dir'.present /\ ~moved /\ ~slept => ~dir.alive]_vars
  <2> SUFFICES ASSUME dir.present, ~dir'.present, ~moved, ~slept
               PROVE  ~dir.alive
      OBVIOUS
  <2>1. PICK g \in Clients : At(g, "gcMove")
      BY <1>1, MovesAreCollectors
  <2> QED BY <1>1, <2>1 DEF Inv, Asleep, At
<1> QED BY <1>1, SpecInv, PTL DEF Spec, NoLiveMove
====
