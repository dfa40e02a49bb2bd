------------------------- MODULE AutomationProofs -------------------------
(***************************************************************************)
(* Proofs about Automations, for every schedule, number of automations and *)
(* runs, and bound: an occurrence is run once, what is shown as skipped    *)
(* never ran, and results find their rows.                                 *)
(***************************************************************************)
EXTENDS Automations, TLAPS, FiniteSetTheorems, WellFoundedInduction

-----------------------------------------------------------------------------
(* Numbers and schedules.                                                  *)

LEMMA Least ==
    ASSUME NEW S, S \subseteq Nat, S # {}
    PROVE  \E m \in S : \A k \in S : m <= k
<1>1. PICK m \in S : \A k \in S : <<k, m>> \notin OpToRel(<, Nat)
    BY NatLessThanWellFounded, WFMin
<1>2. \A k \in S : ~(k < m)
    BY <1>1, Zenon DEF OpToRel
<1> QED BY <1>2

LEMMA Greatest ==
    ASSUME NEW S, S \subseteq Nat, S # {}, NEW n \in Nat, \A k \in S : k <= n
    PROVE  \E m \in S : \A k \in S : k <= m
<1> DEFINE Bounds == {b \in Nat : \A k \in S : k <= b}
<1>1. PICK m \in Bounds : \A b \in Bounds : m <= b
  <2>1. n \in Bounds /\ Bounds \subseteq Nat
      OBVIOUS
  <2> HIDE DEF Bounds
  <2> QED BY <2>1, Least
<1>2. m \in S
  <2> SUFFICES ASSUME m \notin S PROVE FALSE
      OBVIOUS
  <2>1. \A k \in S : k < m
      BY <1>1
  <2>2. m - 1 \in Nat /\ \A k \in S : k <= m - 1
    <3>1. PICK k \in S : TRUE
        OBVIOUS
    <3>2. m \in Nat /\ k \in Nat /\ k < m
        BY <2>1
    <3>3. m - 1 \in Nat
        BY <3>2
    <3>4. ASSUME NEW j \in S PROVE j <= m - 1
      <4>1. j \in Nat /\ j < m
          BY <2>1
      <4> QED BY <3>2, <4>1
    <3> QED BY <3>3, <3>4
  <2>3. m <= m - 1
    <3>1. m - 1 \in Bounds
        BY <2>2
    <3> QED BY <1>1, <3>1
  <2> QED BY <1>1, <2>3
<1> QED BY <1>1, <1>2

LEMMA Moments == MaxTime \in Nat /\ Never \in Nat /\ \A t \in 0..MaxTime : t \in Nat /\ t < Never
BY LimitAssumption DEF Never

LEMMA NextOccurrence ==
    ASSUME NEW s \in Schedules, NEW t \in 0..MaxTime
    PROVE  LET o == nextAutomationOccurrenceAfter(s, t)
           IN  o \in Occurrences[s] \cup {Never} /\ o \in 0..Never /\ t < o
<1> DEFINE later == {o \in Occurrences[s] : o > t}
<1>1. Occurrences[s] \subseteq 0..MaxTime
    BY ScheduleAssumption
<1>2. CASE later = {}
    BY <1>2, Moments DEF nextAutomationOccurrenceAfter, Never
<1>3. CASE later # {}
  <2>1. later \subseteq Nat
      BY <1>1, Moments
  <2>2. \E m \in later : \A k \in later : m <= k
      BY <1>3, <2>1, Least
  <2>3. nextAutomationOccurrenceAfter(s, t) \in later
      BY <1>3, <2>2 DEF nextAutomationOccurrenceAfter
  <2> QED BY <1>1, <2>3, Moments
<1> QED BY <1>2, <1>3

LEMMA LatestOccurrence ==
    ASSUME NEW s \in Schedules, NEW t \in 0..MaxTime
    PROVE  LET o == latestAutomationOccurrenceAtOrBefore(s, t)
           IN  /\ o = -1 \/ (o \in Occurrences[s] /\ o \in 0..MaxTime)
               /\ o <= t
               /\ \A p \in Occurrences[s] : p <= t => p <= o
<1> DEFINE past == {o \in Occurrences[s] : o <= t}
<1>1. Occurrences[s] \subseteq 0..MaxTime
    BY ScheduleAssumption
<1>2. CASE past = {}
    BY <1>2, Moments DEF latestAutomationOccurrenceAtOrBefore
<1>3. CASE past # {}
  <2>1. past \subseteq Nat /\ t \in Nat /\ \A k \in past : k <= t
      BY <1>1, Moments
  <2>2. \E m \in past : \A k \in past : k <= m
      BY <1>3, <2>1, Greatest
  <2>3. /\ latestAutomationOccurrenceAtOrBefore(s, t) \in past
        /\ \A k \in past : k <= latestAutomationOccurrenceAtOrBefore(s, t)
      BY <1>3, <2>2 DEF latestAutomationOccurrenceAtOrBefore
  <2> QED BY <1>1, <2>3
<1> QED BY <1>2, <1>3

-----------------------------------------------------------------------------
(* The store's runs.                                                       *)

Row == [stored: BOOLEAN, auto: {0} \cup Ids, status: Open \cup Final,
        trigger: {"scheduled", "manual"}, scheduledFor: 0..MaxTime,
        number: Nat, usage: BOOLEAN]
Table == [RunIds -> Row]

LEMMA Numbers ==
    /\ \A a \in Ids : a \in Nat /\ a # 0
    /\ \A r \in RunIds : r \in Nat /\ r >= 1
    /\ MaxRuns \in Nat /\ IsFiniteSet(RunIds)
<1>1. IsFiniteSet(1..MaxRuns)
    BY LimitAssumption, FS_Interval
<1> QED BY <1>1, LimitAssumption DEF Ids, RunIds

\* But for whether it is stored, and its status, row x is row y.
SameRun(x, y) ==
    /\ x.auto = y.auto /\ x.trigger = y.trigger
    /\ x.scheduledFor = y.scheduledFor /\ x.number = y.number

\* Of r's row in M, eviction leaves N: a row is gone only if it has ended, and a
\* newer one of its automation stays.
Evicted(M, N, r) ==
    /\ SameRun(N[r], M[r]) /\ N[r].status = M[r].status
    /\ N[r].stored => M[r].stored
    /\ M[r].stored => \/ N[r].stored
                      \/ /\ M[r].status \in Final
                         /\ \E q \in RunIds : q > r /\ N[q].stored /\ N[q].auto = M[r].auto

LEMMA Pruned ==
    ASSUME NEW rows \in Table
    PROVE  /\ pruneAutomationRuns(rows) \in Table
           /\ \A r \in RunIds : Evicted(rows, pruneAutomationRuns(rows), r)
<1> DEFINE ended(a) == {r \in RunsOf(rows, a) : rows[r].status \in Final}
           newer(r) == {q \in ended(rows[r].auto) : q > r}
           gone(r) == r \in ended(rows[r].auto) /\ Cardinality(newer(r)) >= MaxKept
           N == pruneAutomationRuns(rows)
<1>1. N = [r \in RunIds |-> IF gone(r) THEN [rows[r] EXCEPT !.stored = FALSE] ELSE rows[r]]
    BY DEF pruneAutomationRuns
<1>2. ASSUME NEW r \in RunIds, gone(r)
      PROVE  /\ rows[r].status \in Final
             /\ \E q \in RunIds : /\ q > r /\ ~gone(q)
                                  /\ rows[q].stored /\ rows[q].auto = rows[r].auto
  <2>1. newer(r) # {}
    <3> SUFFICES ASSUME newer(r) = {} PROVE FALSE
        OBVIOUS
    <3>1. Cardinality(newer(r)) = 0
        BY FS_EmptySet
    <3>2. MaxKept \in Nat /\ MaxKept > 0
        BY LimitAssumption
    <3> QED BY <1>2, <3>1, <3>2
  <2>2. \A q \in newer(r) : /\ q \in RunIds /\ q \in Nat /\ q <= MaxRuns /\ q > r
                            /\ rows[q].stored /\ rows[q].auto = rows[r].auto
      BY Numbers DEF RunsOf, RunIds
  <2> DEFINE S == newer(r)
  <2>3. \E q \in S : \A p \in S : p <= q
    <3>1. S \subseteq Nat /\ S # {} /\ \A q \in S : q <= MaxRuns
        BY <2>1, <2>2
    <3> HIDE DEF S
    <3> QED BY <3>1, Greatest, LimitAssumption
  <2>4. PICK q \in newer(r) : \A p \in newer(r) : p <= q
      BY <2>3
  <2>5. newer(q) = {}
    <3> SUFFICES ASSUME NEW p \in newer(q) PROVE FALSE
        OBVIOUS
    <3>1. p \in Nat /\ p > q /\ p > r /\ p \in newer(r)
        BY <2>2, <2>4, Numbers DEF RunsOf
    <3> QED BY <2>2, <2>4, <3>1
  <2>6. ~gone(q)
    <3>1. Cardinality(newer(q)) = 0
        BY <2>5, FS_EmptySet
    <3>2. MaxKept \in Nat /\ MaxKept > 0
        BY LimitAssumption
    <3> QED BY <3>1, <3>2
  <2>7. rows[r].status \in Final
      BY <1>2
  <2> QED BY <2>2, <2>4, <2>6, <2>7
<1> HIDE DEF gone
<1>3. \A r \in RunIds : N[r] = IF gone(r) THEN [rows[r] EXCEPT !.stored = FALSE] ELSE rows[r]
    BY <1>1
<1> HIDE DEF N
<1>4. \A r \in RunIds : N[r] \in Row
    BY <1>3 DEF Table, Row
<1>5. N \in Table
    BY <1>1, <1>4 DEF Table
<1>6. \A r \in RunIds : /\ SameRun(N[r], rows[r]) /\ N[r].status = rows[r].status
                        /\ N[r].stored = (rows[r].stored /\ ~gone(r))
  <2>1. \A r \in RunIds : rows[r] \in Row
      BY DEF Table
  <2> QED BY <2>1, <1>3 DEF SameRun, Row
<1>7. ASSUME NEW r \in RunIds PROVE Evicted(rows, N, r)
  <2>1. CASE gone(r)
    <3>1. PICK q \in RunIds : /\ q > r /\ ~gone(q)
                              /\ rows[q].stored /\ rows[q].auto = rows[r].auto
        BY <1>2, <2>1
    <3>2. N[q].stored /\ N[q].auto = rows[r].auto
        BY <1>6, <3>1 DEF SameRun
    <3> QED BY <1>2, <1>6, <2>1, <3>1, <3>2 DEF Evicted
  <2>2. CASE ~gone(r)
      BY <1>6, <2>2 DEF Evicted
  <2> QED BY <2>1, <2>2
<1> QED BY <1>5, <1>7 DEF N

LEMMA Typed == TypeOK => run \in Table /\ nRun \in 0..MaxRuns
BY DEF TypeOK, Table, Row

-----------------------------------------------------------------------------
(* The inductive invariant.                                                *)

\* Rows are numbered in the order of their creation; what is beyond the counter
\* does not exist yet.
Known ==
    /\ \A r \in RunIds : r <= nRun => run[r].auto \in Ids /\ auto[run[r].auto].life # "new"
    /\ \A r \in RunIds : r > nRun =>
          /\ ~run[r].stored /\ job[r] = NoJob /\ agent[r] = "none" /\ sent[r] = 0
          /\ \A c \in collect : c.run # r
          /\ run[r].number = 0 /\ run[r].auto = 0
    /\ serve => ~listening /\ ~ready
    /\ \A r \in RunIds : job[r].pc = "precheck" => serve

\* Within an automation later runs have greater numbers, and the newest run of one
\* that is not deleted is stored.
Numbered ==
    /\ \A r \in RunIds : run[r].number <= r
    /\ \A r, q \in RunIds : q <= nRun /\ r < q /\ run[r].auto = run[q].auto
                                  /\ Live(run[q].auto) =>
          run[r].number < run[q].number
    /\ \A r \in RunIds : r <= nRun /\ Live(run[r].auto) =>
          run[r].stored \/ \E q \in RunIds : q > r /\ run[q].auto = run[r].auto /\ run[q].stored

\* A run this process has dispatched or is about to.
Handled(r) == restarts = 0 \/ sent[r] > 0 \/ job[r].pc = "precheck"

\* The occurrence a pass would serve now.
OccurrenceOf(a) == latestAutomationOccurrenceAtOrBefore(pass.schedule[a], pass.now)

\* The pass waits for run r.
ByPass(r) == job[r].by = "pass"

Passing ==
    /\ pass.now <= now
    /\ pass.pc = "idle" => pass = IdlePass
    /\ pass.pc # "idle" => pass.evaluating
    /\ pass.pc \in {"waiting", "advance"} => pass.auto \in Ids
    /\ \A a \in pass.left : auto[a].life # "new"
    /\ \A r \in RunIds : ByPass(r) =>
          /\ serve /\ pass.pc = "waiting" /\ run[r].auto = pass.auto
          /\ job[r].pc \in {"precheck", "launching"}
    /\ \A r, q \in RunIds : ByPass(r) /\ ByPass(q) => r = q

Scheduled(r) == run[r].stored /\ run[r].trigger = "scheduled"

\* The pass is about to advance the schedule of the run's automation.
AdvanceComes(r) ==
    ByPass(r) \/ (pass.pc = "advance" /\ pass.auto = run[r].auto)

\* An automation is next due after every occurrence it was run for.
Served ==
    /\ \A a \in Ids : Live(a) =>
          auto[a].nextRunAt \in Occurrences[auto[a].schedule] \cup {Never}
    /\ \A r \in RunIds : Scheduled(r) =>
          /\ run[r].scheduledFor <= now
          /\ pass.pc # "idle" => run[r].scheduledFor <= pass.now
    /\ \A r \in RunIds : Scheduled(r) /\ Handled(r) /\ Live(run[r].auto) =>
          AdvanceComes(r) \/ run[r].scheduledFor < auto[run[r].auto].nextRunAt
    /\ \A a \in pass.left : pass.pc = "next" \/ a # pass.auto =>
          \A r \in RunIds : Scheduled(r) /\ Handled(r) /\ run[r].auto = a =>
              run[r].scheduledFor < OccurrenceOf(a)

Once ==
    /\ \A r \in RunIds : sent[r] <= 1
    /\ \A r \in RunIds : job[r].pc = "precheck" => sent[r] = 0

Skipped(r) ==
    run[r].status = "skipped" \/ \E c \in collect : c.run = r /\ c.status = "skipped"
Collected(r) == \E c \in collect : c.run = r

\* Where a run is: before its launch, launched and not yet reported, or over.
Staged ==
    restarts = 0 => \A r \in RunIds :
        /\ Skipped(r) => agent[r] = "none" /\ job[r].pc = "none"
        /\ job[r].pc \in {"precheck", "requested", "launching"} =>
              /\ agent[r] = "none" /\ run[r].status \in Open /\ ~Collected(r)
              /\ ~serve => run[r].status = "dispatching"
        /\ job[r].pc \in {"running", "collecting"} /\ ~job[r].marked /\ ~serve =>
              /\ run[r].status = "dispatching" /\ ~Collected(r)
              /\ agent[r] \in {"live", "early", "failed"}
-----------------------------------------------------------------------------
(* Creating and requesting runs.                                           *)

\* createAutomationRun for a at t returns run r and the table rows; n more runs.
Created(a, t, trigger, r, rows) ==
    /\ r \in RunIds /\ rows \in Table
    /\ rows[r].stored /\ rows[r].auto = a
    /\ rows[r].trigger = trigger /\ rows[r].scheduledFor = t
    /\ \/ rows = run /\ nRun' = nRun /\ r <= nRun /\ trigger = "scheduled"
       \/ /\ r = nRun + 1 /\ nRun' = nRun + 1
          /\ rows[r].status = "pending" /\ rows[r].number = nextAutomationRunNumber(a)
          /\ \A q \in RunIds : q # r => Evicted(run, rows, q)
          /\ trigger = "scheduled" =>
                \A q \in RunIds : ~(/\ run[q].stored /\ run[q].auto = a
                                    /\ run[q].trigger = "scheduled" /\ run[q].scheduledFor = t)

\* The greatest number of the automation's runs that are stored, and one more.
LEMMA NextNumber ==
    ASSUME TypeOK, Known, Numbered, NEW a \in Ids
    PROVE  LET n == nextAutomationRunNumber(a)
           IN  /\ n \in Nat /\ n <= nRun + 1
               /\ \A r \in RunIds : run[r].stored /\ run[r].auto = a => run[r].number < n
<1> DEFINE S == RunsOf(run, a)
           known == {run[r].number : r \in S} \cup {Cardinality(S)}
<1>1. nRun \in Nat /\ run \in Table
    BY Typed, LimitAssumption
<1>2. S \subseteq 1..nRun /\ \A r \in S : run[r].number \in Nat /\ run[r].number <= nRun
  <2>1. ASSUME NEW r \in S PROVE r \in 1..nRun /\ run[r].number \in Nat /\ run[r].number <= nRun
    <3>1. r \in RunIds /\ run[r].stored
        BY DEF RunsOf
    <3>2. r \in Nat /\ r >= 1 /\ r <= nRun
        BY <1>1, <3>1, Numbers DEF Known
    <3>3. run[r].number \in Nat /\ run[r].number <= r
        BY <1>1, <3>1 DEF Numbered, Table, Row
    <3> QED BY <1>1, <3>2, <3>3
  <2> QED BY <2>1
<1>3. Cardinality(S) \in Nat /\ Cardinality(S) <= nRun
  <2>1. IsFiniteSet(1..nRun) /\ Cardinality(1..nRun) = nRun
      BY <1>1, FS_Interval
  <2>2. IsFiniteSet(S) /\ Cardinality(S) <= Cardinality(1..nRun)
      BY <1>2, <2>1, FS_Subset
  <2> QED BY <2>1, <2>2, FS_CardinalityType
<1>4. known \subseteq Nat /\ known # {} /\ \A k \in known : k <= nRun
    BY <1>2, <1>3
<1>5. \A r \in RunIds : run[r].stored /\ run[r].auto = a => run[r].number \in known
    BY DEF RunsOf
<1>6. nextAutomationRunNumber(a) = 1 + CHOOSE n \in known : \A k \in known : k <= n
    BY DEF nextAutomationRunNumber
<1> DEFINE m == CHOOSE n \in known : \A k \in known : k <= n
<1> HIDE DEF known
<1>7. m \in known /\ \A k \in known : k <= m
  <2>1. \E n \in known : \A k \in known : k <= n
      BY <1>1, <1>4, Greatest
  <2> QED BY <2>1
<1>8. m \in Nat /\ m <= nRun
    BY <1>4, <1>7
<1>9. nextAutomationRunNumber(a) = 1 + m
    BY <1>6
<1> HIDE DEF m
<1>10. ASSUME NEW r \in RunIds, run[r].stored, run[r].auto = a
       PROVE  run[r].number < 1 + m
  <2>1. run[r].number \in known
      BY <1>5, <1>10
  <2>2. run[r].number \in Nat /\ run[r].number <= m
      BY <1>4, <1>7, <2>1
  <2> QED BY <1>8, <2>2
<1> QED BY <1>1, <1>8, <1>9, <1>10

LEMMA RunCreated ==
    ASSUME TypeOK, Known, Numbered, NEW a \in Ids, NEW t \in 0..MaxTime,
           NEW trigger \in {"scheduled", "manual"}, CountRun(a, t, trigger)
    PROVE  Created(a, t, trigger, RunFor(a, t, trigger), RowsWith(a, t, trigger))
<1>1. run \in Table /\ nRun \in Nat /\ nRun <= MaxRuns
    BY Typed, LimitAssumption
<1>2. CASE Finds(a, t, trigger)
  <2>1. RunFor(a, t, trigger) \in ExistingRun(a, t) /\ trigger = "scheduled"
      BY <1>2 DEF Finds, RunFor
  <2>2. RowsWith(a, t, trigger) = run /\ nRun' = nRun
      BY <1>2 DEF RowsWith, CountRun
  <2> DEFINE r == RunFor(a, t, trigger)
  <2> HIDE DEF r
  <2>3. /\ r \in RunIds /\ run[r].stored /\ run[r].auto = a
        /\ run[r].trigger = "scheduled" /\ run[r].scheduledFor = t
      BY <2>1 DEF ExistingRun, RunsOf, r
  <2>4. r <= nRun
      BY <1>1, <2>3, Numbers DEF Known
  <2>5. Created(a, t, trigger, r, run)
      BY <1>1, <2>1, <2>2, <2>3, <2>4 DEF Created
  <2> QED BY <2>2, <2>5 DEF r
<1>3. CASE ~Finds(a, t, trigger)
  <2> DEFINE r == nRun + 1
             new == NewRun(a, t, trigger)
             M == [run EXCEPT ![r] = new]
             N == pruneAutomationRuns(M)
  <2>1. RunFor(a, t, trigger) = r /\ RowsWith(a, t, trigger) = N /\ nRun' = r /\ nRun < MaxRuns
      BY <1>3 DEF RunFor, RowsWith, CountRun
  <2>2. r \in RunIds
      BY <1>1, <2>1, LimitAssumption DEF RunIds
  <2>3. /\ new \in Row /\ new.stored /\ new.auto = a /\ new.status = "pending"
        /\ new.trigger = trigger /\ new.scheduledFor = t
        /\ new.number = nextAutomationRunNumber(a)
    <3>1. nextAutomationRunNumber(a) \in Nat
        BY NextNumber
    <3> QED BY <3>1 DEF NewRun, Row, Open
  <2> HIDE DEF new
  <2>4. M \in Table /\ M[r] = new /\ \A q \in RunIds : q # r => M[q] = run[q]
      BY <1>1, <2>2, <2>3 DEF Table
  <2>5. N \in Table /\ \A q \in RunIds : Evicted(M, N, q)
    <3> HIDE DEF M
    <3> QED BY <2>4, Pruned
  <2> HIDE DEF M, N
  <2>6. N[r].stored /\ SameRun(N[r], new) /\ N[r].status = "pending"
    <3>1. Evicted(M, N, r) /\ "pending" \notin Final
        BY <2>2, <2>5 DEF Final
    <3> QED BY <2>3, <2>4, <3>1 DEF Evicted
  <2>7. ~run[r].stored /\ r \in Nat /\ r > nRun
      BY <1>1, <2>2 DEF Known
  <2>8. \A q \in RunIds : q # r => Evicted(run, N, q)
      BY <2>4, <2>5 DEF Evicted
  <2>9. trigger = "scheduled" => ExistingRun(a, t) = {}
      BY <1>3 DEF Finds
  <2>10. Created(a, t, trigger, r, N)
      BY <1>1, <2>1, <2>2, <2>3, <2>5, <2>6, <2>8, <2>9 DEF Created, SameRun, ExistingRun, RunsOf
  <2> QED BY <2>1, <2>10
<1> QED BY <1>2, <1>3

\* requestDispatch of run r, which createAutomationRun gave for a at t: what it
\* leaves in the tables.
Requested(a, t, trigger, r, by) ==
    /\ r \in RunIds /\ run' \in Table
    /\ run'[r].stored /\ run'[r].auto = a
    /\ run'[r].trigger = trigger /\ run'[r].scheduledFor = t
    /\ \/ /\ r <= nRun /\ nRun' = nRun /\ trigger = "scheduled"
          /\ run[r].stored /\ SameRun(run'[r], run[r])
       \/ /\ r = nRun + 1 /\ nRun' = nRun + 1
          /\ run'[r].number = nextAutomationRunNumber(a)
          /\ trigger = "scheduled" =>
                \A q \in RunIds : ~(/\ run[q].stored /\ run[q].auto = a
                                    /\ run[q].trigger = "scheduled" /\ run[q].scheduledFor = t)
    /\ \A q \in RunIds : q # r => Evicted(run, run', q)
    /\ \/ run'[r].status = "skipped" /\ UNCHANGED <<job, sent>>
       \/ /\ serve /\ (r > nRun => run'[r].status = "pending")
          /\ job' = [job EXCEPT ![r] = [NoJob EXCEPT !.pc = "precheck", !.by = by]]
          /\ UNCHANGED sent
       \/ /\ ~serve /\ ready /\ run'[r].status = "dispatching"
          /\ sent' = [sent EXCEPT ![r] = @ + 1]
          /\ job' \in {job, [job EXCEPT ![r] = [NoJob EXCEPT !.pc = "requested"]]}

LEMMA CreatedRequested ==
    ASSUME TypeOK, NEW a \in Ids, NEW t, NEW trigger, NEW r, NEW rows, NEW by,
           Created(a, t, trigger, r, rows),
           \/ run' = WithStatus(rows, r, "skipped") /\ UNCHANGED <<job, sent>>
           \/ /\ serve /\ run' = rows
              /\ job' = [job EXCEPT ![r] = [NoJob EXCEPT !.pc = "precheck", !.by = by]]
              /\ UNCHANGED sent
           \/ /\ ~serve /\ ready /\ run' = WithStatus(rows, r, "dispatching")
              /\ sent' = [sent EXCEPT ![r] = @ + 1]
              /\ job' \in {job, [job EXCEPT ![r] = [NoJob EXCEPT !.pc = "requested"]]}
    PROVE  Requested(a, t, trigger, r, by)
<1>1. r \in RunIds /\ rows \in Table /\ run \in Table /\ nRun \in Nat /\ rows[r] \in Row
    BY Typed, LimitAssumption DEF Created, Table
<1>2. \A s \in Open \cup Final :
         LET M == WithStatus(rows, r, s)
         IN  /\ M \in Table /\ M[r].status = s /\ SameRun(M[r], rows[r])
             /\ M[r].stored = rows[r].stored
             /\ \A q \in RunIds : q # r => M[q] = rows[q]
  <2> TAKE s \in Open \cup Final
  <2> DEFINE x == [rows[r] EXCEPT !.status = s]
             M == [rows EXCEPT ![r] = x]
  <2>1. WithStatus(rows, r, s) = M
      BY DEF WithStatus
  <2>2. x \in Row /\ x.status = s /\ SameRun(x, rows[r]) /\ x.stored = rows[r].stored
      BY <1>1 DEF Row, SameRun
  <2> HIDE DEF x
  <2>3. M \in Table /\ M[r] = x /\ \A q \in RunIds : q # r => M[q] = rows[q]
      BY <1>1, <2>2 DEF Table
  <2> QED BY <2>1, <2>2, <2>3
<1>3. PICK s \in {"skipped", "pending", "dispatching"} :
         /\ run' = (IF s = "pending" THEN rows ELSE WithStatus(rows, r, s))
         /\ \/ s = "skipped" /\ UNCHANGED <<job, sent>>
            \/ /\ s = "pending" /\ serve
               /\ job' = [job EXCEPT ![r] = [NoJob EXCEPT !.pc = "precheck", !.by = by]]
               /\ UNCHANGED sent
            \/ /\ s = "dispatching" /\ ~serve /\ ready
               /\ sent' = [sent EXCEPT ![r] = @ + 1]
               /\ job' \in {job, [job EXCEPT ![r] = [NoJob EXCEPT !.pc = "requested"]]}
    OBVIOUS
<1>4. /\ run' \in Table /\ SameRun(run'[r], rows[r]) /\ run'[r].stored = rows[r].stored
      /\ run'[r].status = IF s = "pending" THEN rows[r].status ELSE s
      /\ \A q \in RunIds : q # r => run'[q] = rows[q]
  <2>1. s \in Open \cup Final
      BY DEF Open, Final
  <2> QED BY <1>1, <1>2, <1>3, <2>1 DEF SameRun
<1>5. \A q \in RunIds : q # r => Evicted(run, run', q)
  <2> SUFFICES ASSUME NEW q \in RunIds, q # r PROVE Evicted(run, run', q)
      OBVIOUS
  <2>1. CASE rows = run
      BY <1>4, <2>1 DEF Evicted, SameRun
  <2>2. CASE Evicted(run, rows, q)
    <3>1. \A p \in RunIds : rows[p].stored = run'[p].stored /\ rows[p].auto = run'[p].auto
        BY <1>4 DEF SameRun
    <3> QED BY <1>4, <2>2, <3>1 DEF Evicted, SameRun
  <2> QED BY <2>1, <2>2 DEF Created
<1>6. /\ run'[r].stored /\ run'[r].auto = a
      /\ run'[r].trigger = trigger /\ run'[r].scheduledFor = t
    BY <1>4 DEF Created, SameRun
<1>7. \/ /\ r <= nRun /\ nRun' = nRun /\ trigger = "scheduled"
         /\ run[r].stored /\ SameRun(run'[r], run[r])
      \/ /\ r = nRun + 1 /\ nRun' = nRun + 1
         /\ run'[r].number = nextAutomationRunNumber(a)
         /\ trigger = "scheduled" =>
                \A q \in RunIds : ~(/\ run[q].stored /\ run[q].auto = a
                                    /\ run[q].trigger = "scheduled" /\ run[q].scheduledFor = t)
    BY <1>4 DEF Created, SameRun
<1>8. \/ run'[r].status = "skipped" /\ UNCHANGED <<job, sent>>
      \/ /\ serve /\ (r > nRun => run'[r].status = "pending")
         /\ job' = [job EXCEPT ![r] = [NoJob EXCEPT !.pc = "precheck", !.by = by]]
         /\ UNCHANGED sent
      \/ /\ ~serve /\ ready /\ run'[r].status = "dispatching"
         /\ sent' = [sent EXCEPT ![r] = @ + 1]
         /\ job' \in {job, [job EXCEPT ![r] = [NoJob EXCEPT !.pc = "requested"]]}
  <2>1. r > nRun => rows[r].status = "pending"
      BY <1>1, Numbers DEF Created
  <2> QED BY <1>3, <1>4, <2>1
<1> QED BY <1>1, <1>4, <1>5, <1>6, <1>7, <1>8 DEF Requested

\* What evaluating automation a may do: nothing but advance it, or give it a run
\* that is skipped, dispatched, or dispatched and waited for.
Evaluated(a, t) ==
    \/ AdvanceThen(a) /\ UNCHANGED <<run, nRun, job, sent>>
    \/ /\ t \in 0..MaxTime /\ t \in Occurrences[pass.schedule[a]]
       /\ \E r \in RunIds :
          /\ Requested(a, t, "scheduled", r, "pass")
          /\ \/ AdvanceThen(a) /\ UNCHANGED <<job, sent>>
             \/ /\ UNCHANGED auto /\ pass' = [pass EXCEPT !.pc = "advance", !.auto = a]
                /\ UNCHANGED job \/ ~serve
             \/ /\ UNCHANGED <<auto, sent>> /\ pass' = [pass EXCEPT !.pc = "waiting", !.auto = a]
                /\ serve
                /\ job' = [job EXCEPT ![r] = [NoJob EXCEPT !.pc = "precheck", !.by = "pass"]]

LEMMA EvaluationSteps ==
    ASSUME TypeOK, Known, Numbered, EvaluateAutomation
    PROVE  /\ pass.pc = "next"
           /\ \E a \in pass.left : a \in Ids /\ Evaluated(a, OccurrenceOf(a))
<1> DEFINE a == CHOOSE b \in pass.left : \A c \in pass.left : b <= c
<1>1. a \in pass.left /\ a \in Ids
  <2> DEFINE S == pass.left
  <2>1. S \subseteq Nat /\ S # {} /\ S \subseteq Ids
      BY Numbers DEF TypeOK, EvaluateAutomation
  <2> HIDE DEF S
  <2>2. \E m \in S : \A k \in S : m <= k
      BY <2>1, Least
  <2> QED BY <2>1, <2>2 DEF S
<1> DEFINE t == OccurrenceOf(a)
           r == RunFor(a, t, "scheduled")
           rows == RowsWith(a, t, "scheduled")
           GoTo(pc) == pass' = [pass EXCEPT !.pc = pc, !.auto = a]
<1>2. /\ pass.pc = "next"
      /\ IF t = -1
         THEN AdvanceThen(a) /\ UNCHANGED <<run, nRun, job, sent>>
         ELSE /\ CountRun(a, t, "scheduled")
              /\ IF pass.now - t > Grace
                 THEN /\ run' = WithStatus(rows, r, "skipped")
                      /\ AdvanceThen(a)
                      /\ UNCHANGED <<job, sent>>
                 ELSE /\ RequestDispatch(r, rows, "pass", GoTo("advance"), GoTo("waiting"))
                      /\ UNCHANGED auto
    BY DEF EvaluateAutomation, OccurrenceOf
<1>3. t = -1 \/ (t \in Occurrences[pass.schedule[a]] /\ t \in 0..MaxTime)
  <2>1. pass.schedule[a] \in Schedules /\ pass.now \in 0..MaxTime
      BY <1>1 DEF TypeOK
  <2> QED BY <2>1, LatestOccurrence DEF OccurrenceOf
<1> HIDE DEF a, t
<1>4. CASE t = -1
    BY <1>1, <1>2, <1>4 DEF Evaluated, t
<1>5. CASE t # -1
  <2>1. t \in 0..MaxTime /\ t \in Occurrences[pass.schedule[a]] /\ CountRun(a, t, "scheduled")
      BY <1>2, <1>3, <1>5
  <2>2. Created(a, t, "scheduled", r, rows) /\ r \in RunIds
      BY <1>1, <2>1, RunCreated DEF Created
  <2> HIDE DEF r, rows
  <2>3. CASE run' = WithStatus(rows, r, "skipped") /\ AdvanceThen(a) /\ UNCHANGED <<job, sent>>
    <3>1. Requested(a, t, "scheduled", r, "pass")
        BY <1>1, <2>2, <2>3, CreatedRequested
    <3> QED BY <1>1, <1>2, <2>1, <2>2, <2>3, <3>1 DEF Evaluated, t
  <2>4. CASE RequestDispatch(r, rows, "pass", GoTo("advance"), GoTo("waiting")) /\ UNCHANGED auto
    <3>1. Requested(a, t, "scheduled", r, "pass")
      <4>1. \/ run' = WithStatus(rows, r, "skipped") /\ UNCHANGED <<job, sent>>
            \/ /\ serve /\ run' = rows
               /\ job' = [job EXCEPT ![r] = [NoJob EXCEPT !.pc = "precheck", !.by = "pass"]]
               /\ UNCHANGED sent
            \/ /\ ~serve /\ ready /\ run' = WithStatus(rows, r, "dispatching")
               /\ sent' = [sent EXCEPT ![r] = @ + 1]
               /\ job' \in {job, [job EXCEPT ![r] = [NoJob EXCEPT !.pc = "requested"]]}
          BY <2>4 DEF RequestDispatch
      <4> QED BY <1>1, <2>2, <4>1, CreatedRequested
    <3>2. \/ /\ GoTo("advance")
             /\ UNCHANGED job \/ ~serve
          \/ /\ UNCHANGED sent /\ GoTo("waiting") /\ serve
             /\ job' = [job EXCEPT ![r] = [NoJob EXCEPT !.pc = "precheck", !.by = "pass"]]
        BY <2>4 DEF RequestDispatch
    <3> QED BY <1>1, <1>2, <2>1, <2>2, <2>4, <3>1, <3>2 DEF Evaluated, t
  <2> QED BY <1>2, <1>5, <2>3, <2>4 DEF r, rows
<1> QED BY <1>4, <1>5

LEMMA RunNowRequests ==
    ASSUME TypeOK, Known, Numbered, NEW a \in Ids, RunNow(a)
    PROVE  /\ \E r \in RunIds : Requested(a, now, "manual", r, "call")
           /\ Live(a) /\ UNCHANGED <<auto, pass>>
<1> DEFINE r == nRun + 1
           rows == RowsWith(a, now, "manual")
<1>1. r = RunFor(a, now, "manual") /\ CountRun(a, now, "manual") /\ Live(a) /\ UNCHANGED auto
    BY DEF RunNow, RunFor, Finds
<1>2. RequestDispatch(r, rows, "call", UNCHANGED pass, UNCHANGED pass)
    BY DEF RunNow
<1>3. now \in 0..MaxTime
    BY DEF TypeOK
<1>4. Created(a, now, "manual", r, rows) /\ r \in RunIds
    BY <1>1, <1>3, RunCreated DEF Created
<1> HIDE DEF r, rows
<1>5. \/ run' = WithStatus(rows, r, "skipped") /\ UNCHANGED <<job, sent>>
      \/ /\ serve /\ run' = rows
         /\ job' = [job EXCEPT ![r] = [NoJob EXCEPT !.pc = "precheck", !.by = "call"]]
         /\ UNCHANGED sent
      \/ /\ ~serve /\ ready /\ run' = WithStatus(rows, r, "dispatching")
         /\ sent' = [sent EXCEPT ![r] = @ + 1]
         /\ job' \in {job, [job EXCEPT ![r] = [NoJob EXCEPT !.pc = "requested"]]}
    BY <1>2 DEF RequestDispatch
<1>6. UNCHANGED pass
    BY <1>2 DEF RequestDispatch
<1>7. Requested(a, now, "manual", r, "call")
    BY <1>4, <1>5, CreatedRequested
<1> QED BY <1>1, <1>4, <1>6, <1>7

-----------------------------------------------------------------------------
(* Types.                                                                  *)

Automation == [life: {"new", "live", "deleted"}, enabled: BOOLEAN,
               schedule: Schedules, nextRunAt: 0..Never]
Pass == [evaluating: BOOLEAN, pc: {"idle", "next", "waiting", "advance"},
         now: 0..MaxTime, left: SUBSET Ids, schedule: [Ids -> Schedules],
         auto: {0} \cup Ids]
Job == [pc: {"none", "precheck", "requested", "launching", "running", "collecting"},
        by: {"pass", "call", "main", "hook"}, marked: BOOLEAN]
Ends == {"none", "live", "early", "done", "failed"}

\* The parts of TypeOK, and what they say in the next state.
LEMMA Types ==
    TypeOK <=> /\ now \in 0..MaxTime /\ serve \in BOOLEAN
               /\ ready \in BOOLEAN /\ listening \in BOOLEAN
               /\ auto \in [Ids -> Automation] /\ run \in Table /\ nRun \in 0..MaxRuns
               /\ pass \in Pass /\ job \in [RunIds -> Job] /\ agent \in [RunIds -> Ends]
               /\ collect \subseteq Collections /\ sent \in [RunIds -> Nat]
               /\ edits \in Nat /\ restarts \in Nat /\ reloads \in Nat
               /\ edits + restarts + reloads <= MaxUpsets
BY DEF TypeOK, Automation, Table, Row, Pass, Job, Ends, Upsets

LEMMA TypesNext ==
    TypeOK' <=> /\ now' \in 0..MaxTime /\ serve' \in BOOLEAN
                /\ ready' \in BOOLEAN /\ listening' \in BOOLEAN
                /\ auto' \in [Ids -> Automation] /\ run' \in Table /\ nRun' \in 0..MaxRuns
                /\ pass' \in Pass /\ job' \in [RunIds -> Job] /\ agent' \in [RunIds -> Ends]
                /\ collect' \subseteq Collections /\ sent' \in [RunIds -> Nat]
                /\ edits' \in Nat /\ restarts' \in Nat /\ reloads' \in Nat
                /\ edits' + restarts' + reloads' <= MaxUpsets
BY DEF TypeOK, Automation, Table, Row, Pass, Job, Ends, Upsets

LEMMA Constants ==
    /\ IdlePass \in Pass /\ NoJob \in Job
    /\ AnySchedule \in Schedules
    /\ IdlePass.pc = "idle" /\ IdlePass.left = {} /\ IdlePass.now = 0
    /\ NoJob.pc = "none" /\ NoJob.by = "hook" /\ ~NoJob.marked
<1>1. AnySchedule \in Schedules
    BY ScheduleAssumption DEF AnySchedule
<1> QED BY <1>1, Moments DEF IdlePass, Pass, NoJob, Job

\* The schedule of an automation that was not deleted moves past the pass's clock.
LEMMA Advances ==
    ASSUME TypeOK, NEW a \in Ids, AdvanceThen(a)
    PROVE  /\ auto' \in [Ids -> Automation] /\ pass' \in Pass
           /\ \A b \in Ids : /\ auto'[b].life = auto[b].life
                             /\ auto'[b].schedule = auto[b].schedule
                             /\ b # a => auto'[b] = auto[b]
           /\ \/ /\ Live(a) /\ pass' = [pass EXCEPT !.pc = "next", !.left = @ \ {a}, !.auto = 0]
                 /\ auto'[a].nextRunAt \in Occurrences[auto[a].schedule] \cup {Never}
                 /\ pass.now < auto'[a].nextRunAt
              \/ ~Live(a) /\ pass' = IdlePass /\ auto' = auto
<1>1. auto \in [Ids -> Automation] /\ auto[a] \in Automation /\ pass \in Pass
    BY Types
<1>2. CASE Live(a)
  <2> DEFINE o == nextAutomationOccurrenceAfter(auto[a].schedule, pass.now)
             x == [auto[a] EXCEPT !.nextRunAt = o]
  <2>1. auto' = [auto EXCEPT ![a] = x] /\ pass' = [pass EXCEPT !.pc = "next", !.left = @ \ {a}, !.auto = 0]
      BY <1>2 DEF AdvanceThen, Advanced
  <2>2. o \in Occurrences[auto[a].schedule] \cup {Never} /\ o \in 0..Never /\ pass.now < o
    <3>1. auto[a].schedule \in Schedules /\ pass.now \in 0..MaxTime
        BY <1>1 DEF Automation, Pass
    <3> QED BY <3>1, NextOccurrence
  <2> HIDE DEF o
  <2>3. x \in Automation /\ x.nextRunAt = o /\ x.life = auto[a].life /\ x.schedule = auto[a].schedule
      BY <1>1, <2>2 DEF Automation
  <2> HIDE DEF x
  <2>4. auto' \in [Ids -> Automation] /\ auto'[a] = x /\ \A b \in Ids : b # a => auto'[b] = auto[b]
      BY <1>1, <2>1, <2>3
  <2>5. pass' \in Pass
      BY <1>1, <2>1 DEF Pass
  <2> QED BY <1>2, <2>1, <2>2, <2>3, <2>4, <2>5
<1>3. CASE ~Live(a)
    BY <1>1, <1>3, Constants DEF AdvanceThen, Aborted
<1> QED BY <1>2, <1>3

\* A report changes the status of one run, if its row is there, and may begin to
\* collect its usage.
LEMMA Reports ==
    ASSUME TypeOK, NEW r \in RunIds, NEW s \in Open \cup Final, NEW by \in {"hook", "page", "main"},
           MarkDispatchResult(r, s, by)
    PROVE  /\ run' \in Table /\ collect' \subseteq Collections
           /\ \A q \in RunIds : /\ SameRun(run'[q], run[q]) /\ run'[q].stored = run[q].stored
                                /\ q # r => run'[q] = run[q]
           /\ run'[r].status = IF run[r].stored THEN s ELSE run[r].status
           /\ collect \subseteq collect'
           /\ \A c \in collect' \ collect : /\ c.run = r /\ c.by = by /\ c.status = s
                                            /\ s \in Final /\ run[r].stored
<1>1. run \in Table /\ run[r] \in Row /\ collect \subseteq Collections
    BY Types DEF Table
<1>2. CASE run[r].stored
  <2> DEFINE x == [run[r] EXCEPT !.status = s]
             c == [run |-> r, by |-> by, status |-> s]
  <2>1. run' = [run EXCEPT ![r] = x]
      BY <1>2 DEF MarkDispatchResult, WithStatus
  <2>2. x \in Row /\ x.status = s /\ SameRun(x, run[r]) /\ x.stored = run[r].stored
      BY <1>1 DEF Row, SameRun
  <2> HIDE DEF x
  <2>3. run' \in Table /\ run'[r] = x /\ \A q \in RunIds : q # r => run'[q] = run[q]
      BY <1>1, <2>1, <2>2 DEF Table
  <2>4. \/ collect' = collect
        \/ s \in Final /\ collect' = collect \cup {c}
    <3>1. collect' = IF s \in Final /\ ~run[r].usage THEN collect \cup {c} ELSE collect
        BY <1>2 DEF MarkDispatchResult
    <3> QED BY <3>1
  <2>5. s \in Final => c \in Collections
      BY DEF Collections
  <2>6. \A q \in RunIds : SameRun(run'[q], run[q]) /\ run'[q].stored = run[q].stored
      BY <2>2, <2>3 DEF SameRun
  <2>7. c.run = r /\ c.by = by /\ c.status = s
      OBVIOUS
  <2> HIDE DEF c
  <2> QED BY <1>1, <1>2, <2>2, <2>3, <2>4, <2>5, <2>6, <2>7
<1>3. CASE ~run[r].stored
    BY <1>1, <1>3 DEF MarkDispatchResult, SameRun
<1> QED BY <1>2, <1>3

LEMMA RequestTyped ==
    ASSUME TypeOK, NEW a, NEW t, NEW trigger, NEW r, NEW by \in {"pass", "call"},
           Requested(a, t, trigger, r, by)
    PROVE  /\ run' \in Table /\ nRun' \in 0..MaxRuns
           /\ job' \in [RunIds -> Job] /\ sent' \in [RunIds -> Nat]
<1>1. r \in RunIds /\ run' \in Table /\ job \in [RunIds -> Job] /\ sent \in [RunIds -> Nat]
      /\ nRun \in 0..MaxRuns /\ MaxRuns \in Nat
    BY Types, Numbers DEF Requested
<1>2. nRun' \in 0..MaxRuns
  <2>1. nRun' = nRun \/ nRun' = r
      BY DEF Requested
  <2> QED BY <1>1, <2>1 DEF RunIds
<1>3. /\ [NoJob EXCEPT !.pc = "precheck", !.by = by] \in Job
      /\ [NoJob EXCEPT !.pc = "requested"] \in Job
    BY DEF Job, NoJob
<1>4. job' \in [RunIds -> Job] /\ sent' \in [RunIds -> Nat]
  <2>1. CASE UNCHANGED <<job, sent>>
      BY <1>1, <2>1
  <2>2. CASE job' = [job EXCEPT ![r] = [NoJob EXCEPT !.pc = "precheck", !.by = by]] /\ UNCHANGED sent
      BY <1>1, <1>3, <2>2
  <2>3. CASE /\ sent' = [sent EXCEPT ![r] = @ + 1]
             /\ job' \in {job, [job EXCEPT ![r] = [NoJob EXCEPT !.pc = "requested"]]}
      BY <1>1, <1>3, <2>3
  <2> QED BY <2>1, <2>2, <2>3 DEF Requested
<1> QED BY <1>1, <1>2, <1>4

LEMMA JobSet ==
    ASSUME TypeOK, NEW r \in RunIds, NEW pc \in {"none", "launching", "running", "collecting"},
           SetJob(r, pc)
    PROVE  /\ job' \in [RunIds -> Job]
           /\ \A q \in RunIds : q # r => job'[q] = job[q]
           /\ pc = "none" => job'[r] = NoJob
           /\ pc # "none" => /\ job'[r].pc = pc
                             /\ job'[r].by = job[r].by /\ job'[r].marked = job[r].marked
<1>1. job \in [RunIds -> Job] /\ job[r] \in Job
    BY Types
<1> DEFINE x == IF pc = "none" THEN NoJob ELSE [job[r] EXCEPT !.pc = pc]
<1>2. job' = [job EXCEPT ![r] = x]
    BY DEF SetJob
<1>3. /\ x \in Job /\ (pc = "none" => x = NoJob)
      /\ pc # "none" => x.pc = pc /\ x.by = job[r].by /\ x.marked = job[r].marked
    BY <1>1, Constants DEF Job
<1> HIDE DEF x
<1> QED BY <1>1, <1>2, <1>3

\* The end of a headless dispatch.
LEMMA HeadlessEnded ==
    ASSUME TypeOK, NEW r \in RunIds, NEW resolved \in BOOLEAN, NEW left \in {"none", "running"},
           HeadlessEnds(r, resolved, left)
    PROVE  /\ job' \in [RunIds -> Job] /\ pass' \in Pass
           /\ \A q \in RunIds : q # r => job'[q] = job[q]
           /\ job'[r].pc = left /\ job'[r].by = "main" /\ ~job'[r].marked
           /\ pass' = IF ~ByPass(r) THEN pass
                      ELSE IF resolved THEN [pass EXCEPT !.pc = "advance"] ELSE IdlePass
<1>1. job \in [RunIds -> Job] /\ pass \in Pass
    BY Types
<1> DEFINE x == [NoJob EXCEPT !.pc = left, !.by = "main"]
<1>2. job' = [job EXCEPT ![r] = x]
    BY DEF HeadlessEnds
<1>3. x \in Job /\ x.pc = left /\ x.by = "main" /\ ~x.marked
    BY DEF Job, NoJob
<1> HIDE DEF x
<1>4. pass' = IF ~ByPass(r) THEN pass
              ELSE IF resolved THEN [pass EXCEPT !.pc = "advance"] ELSE IdlePass
    BY DEF HeadlessEnds, ByPass, Aborted
<1>5. [pass EXCEPT !.pc = "advance"] \in Pass
    BY <1>1 DEF Pass
<1> QED BY <1>1, <1>2, <1>3, <1>4, <1>5, Constants

\* A run gets a new status, if it is stored.
LEMMA StatusSet ==
    ASSUME TypeOK, NEW r \in RunIds, NEW s \in Open \cup Final,
           run' = IF run[r].stored THEN WithStatus(run, r, s) ELSE run
    PROVE  /\ run' \in Table
           /\ \A q \in RunIds : /\ SameRun(run'[q], run[q]) /\ run'[q].stored = run[q].stored
                                /\ q # r => run'[q] = run[q]
           /\ run'[r].status = IF run[r].stored THEN s ELSE run[r].status
<1>1. run \in Table /\ run[r] \in Row
    BY Types DEF Table
<1> DEFINE x == [run[r] EXCEPT !.status = s]
<1>2. x \in Row /\ x.status = s /\ SameRun(x, run[r]) /\ x.stored = run[r].stored
    BY <1>1 DEF Row, SameRun
<1>3. run[r].stored => run' = [run EXCEPT ![r] = x]
    BY DEF WithStatus
<1> HIDE DEF x
<1>4. CASE run[r].stored
  <2>1. run' \in Table /\ run'[r] = x /\ \A q \in RunIds : q # r => run'[q] = run[q]
      BY <1>1, <1>2, <1>3, <1>4 DEF Table
  <2> QED BY <1>2, <1>4, <2>1 DEF SameRun
<1>5. CASE ~run[r].stored
    BY <1>1, <1>5 DEF SameRun
<1> QED BY <1>4, <1>5

\* The history of what has been dispatched.
LEMMA SentOnce ==
    ASSUME TypeOK, NEW r \in RunIds, sent' = [sent EXCEPT ![r] = @ + 1]
    PROVE  /\ sent' \in [RunIds -> Nat] /\ sent'[r] = sent[r] + 1
           /\ \A q \in RunIds : q # r => sent'[q] = sent[q]
BY Types

LEMMA PassTyped ==
    ASSUME TypeOK, NEW a \in {0} \cup Ids, NEW pc \in {"next", "waiting", "advance"}
    PROVE  [pass EXCEPT !.pc = pc, !.auto = a] \in Pass
BY Types DEF Pass

LEMMA InitTyped == Init => TypeOK
<1> SUFFICES ASSUME Init PROVE TypeOK
    OBVIOUS
<1>1. auto \in [Ids -> Automation]
    BY Constants, Moments DEF Init, Automation
<1>2. run \in Table
    BY LimitAssumption DEF Init, Table, Row, Open
<1>3. job \in [RunIds -> Job] /\ pass \in Pass
    BY Constants DEF Init
<1>4. edits + restarts + reloads <= MaxUpsets
    BY LimitAssumption DEF Init
<1>5. now \in 0..MaxTime /\ nRun \in 0..MaxRuns
    BY LimitAssumption DEF Init
<1> QED BY <1>1, <1>2, <1>3, <1>4, <1>5, Types DEF Init, Ends

LEMMA NextTyped ==
    ASSUME TypeOK, Known, Numbered, Passing, [Next]_vars
    PROVE  TypeOK'
<1>0. /\ now \in 0..MaxTime /\ serve \in BOOLEAN
      /\ ready \in BOOLEAN /\ listening \in BOOLEAN
      /\ auto \in [Ids -> Automation] /\ run \in Table /\ nRun \in 0..MaxRuns
      /\ pass \in Pass /\ job \in [RunIds -> Job] /\ agent \in [RunIds -> Ends]
      /\ collect \subseteq Collections /\ sent \in [RunIds -> Nat]
      /\ edits \in Nat /\ restarts \in Nat /\ reloads \in Nat
      /\ edits + restarts + reloads <= MaxUpsets
    BY Types
<1> USE TypesNext
<1>1. CASE UNCHANGED vars
    BY <1>0, <1>1 DEF vars
<1>2. ASSUME EvaluateDueRuns PROVE TypeOK'
  <2>1. pass' \in Pass
    <3>1. [a \in Ids |-> auto[a].schedule] \in [Ids -> Schedules]
        BY <1>0 DEF Automation
    <3> QED BY <1>0, <1>2, <3>1 DEF EvaluateDueRuns, Pass
  <2> QED BY <1>0, <1>2, <2>1 DEF EvaluateDueRuns
<1>3. ASSUME EvaluateAutomation PROVE TypeOK'
  <2>1. PICK a \in pass.left : a \in Ids /\ Evaluated(a, OccurrenceOf(a))
      BY <1>3, EvaluationSteps
  <2>2. UNCHANGED <<now, serve, ready, listening, agent, collect, edits, restarts, reloads>>
      BY <1>3 DEF EvaluateAutomation
  <2>3. CASE AdvanceThen(a) /\ UNCHANGED <<run, nRun, job, sent>>
      BY <1>0, <2>1, <2>2, <2>3, Advances
  <2>4. ASSUME NEW r \in RunIds, Requested(a, OccurrenceOf(a), "scheduled", r, "pass"),
               AdvanceThen(a) \/ (UNCHANGED auto /\ \E pc \in {"waiting", "advance"} :
                                      pass' = [pass EXCEPT !.pc = pc, !.auto = a])
        PROVE  TypeOK'
    <3>1. auto' \in [Ids -> Automation] /\ pass' \in Pass
        BY <1>0, <2>1, <2>4, Advances, PassTyped
    <3>2. /\ run' \in Table /\ nRun' \in 0..MaxRuns
          /\ job' \in [RunIds -> Job] /\ sent' \in [RunIds -> Nat]
        BY <2>4, RequestTyped
    <3> QED BY <1>0, <2>2, <3>1, <3>2
  <2> QED BY <2>1, <2>3, <2>4 DEF Evaluated
<1>4. ASSUME Advance PROVE TypeOK'
  <2>1. pass.auto \in Ids /\ AdvanceThen(pass.auto)
      BY <1>4 DEF Advance, Passing
  <2> QED BY <1>0, <1>4, <2>1, Advances DEF Advance
<1>5. ASSUME PassEnds PROVE TypeOK'
    BY <1>0, <1>5, Constants DEF PassEnds
<1>6. ASSUME NEW r \in RunIds, HeadlessPrecheck(r) PROVE TypeOK'
  <2>1. CASE SetJob(r, "launching") /\ sent' = [sent EXCEPT ![r] = @ + 1] /\ UNCHANGED <<run, pass>>
      BY <1>0, <1>6, <2>1, JobSet, SentOnce DEF HeadlessPrecheck
  <2>2. CASE /\ IF run[r].stored THEN run' = WithStatus(run, r, "skipped") ELSE UNCHANGED run
             /\ HeadlessEnds(r, run[r].stored, "none")
             /\ UNCHANGED sent
    <3>1. run' \in Table
        BY <2>2, StatusSet DEF Final
    <3>2. run[r].stored \in BOOLEAN
        BY <1>0 DEF Table, Row
    <3>3. job' \in [RunIds -> Job] /\ pass' \in Pass
        BY <2>2, <3>2, HeadlessEnded
    <3> QED BY <1>0, <1>6, <2>2, <3>1, <3>3 DEF HeadlessPrecheck
  <2> QED BY <1>6, <2>1, <2>2 DEF HeadlessPrecheck
<1>7. ASSUME NEW r \in RunIds, HeadlessLaunch(r) PROVE TypeOK'
  <2>1. PICK ok \in BOOLEAN :
           /\ agent' = IF ok THEN [agent EXCEPT ![r] = "live"] ELSE agent
           /\ IF run[r].stored
              THEN run' = WithStatus(run, r, IF ok THEN "dispatched" ELSE "dispatch_failed")
              ELSE UNCHANGED run
           /\ HeadlessEnds(r, run[r].stored, IF ok /\ run[r].stored THEN "running" ELSE "none")
      BY <1>7 DEF HeadlessLaunch
  <2>2. run' \in Table
      BY <2>1, StatusSet DEF Final, Open
  <2>3. run[r].stored \in BOOLEAN
      BY <1>0 DEF Table, Row
  <2>4. job' \in [RunIds -> Job] /\ pass' \in Pass
      BY <2>1, <2>3, HeadlessEnded
  <2>5. agent' \in [RunIds -> Ends]
      BY <1>0, <2>1 DEF Ends
  <2> QED BY <1>0, <1>7, <2>2, <2>4, <2>5 DEF HeadlessLaunch
<1>8. ASSUME NEW r \in RunIds, HeadlessCompletes(r) PROVE TypeOK'
  <2>1. run' \in Table /\ collect' \subseteq Collections
      BY <1>8, Reports DEF HeadlessCompletes, Final
  <2>2. job' \in [RunIds -> Job]
      BY <1>8, JobSet DEF HeadlessCompletes
  <2> QED BY <1>0, <1>8, <2>1, <2>2 DEF HeadlessCompletes
<1>9. ASSUME NEW r \in RunIds, HookPrepares(r) PROVE TypeOK'
  <2>1. run' \in Table /\ collect' \subseteq Collections
      BY <1>0, <1>9, Reports DEF HookPrepares, Final
  <2>2. job' \in [RunIds -> Job]
      BY <1>9, JobSet DEF HookPrepares
  <2> QED BY <1>0, <1>9, <2>1, <2>2 DEF HookPrepares, HookStep
<1>10. ASSUME NEW r \in RunIds, HookLaunches(r) PROVE TypeOK'
  <2>1. run' \in Table /\ collect' \subseteq Collections
      BY <1>0, <1>10, Reports DEF HookLaunches, HookFails, Final
  <2>2. job' \in [RunIds -> Job]
      BY <1>10, JobSet DEF HookLaunches, HookFails
  <2>3. agent' \in [RunIds -> Ends]
      BY <1>0, <1>10 DEF HookLaunches, Ends
  <2> QED BY <1>0, <1>10, <2>1, <2>2, <2>3 DEF HookLaunches, HookStep
<1>11. ASSUME NEW r \in RunIds, HookMarks(r) PROVE TypeOK'
  <2>1. run' \in Table /\ collect' \subseteq Collections
      BY <1>0, <1>11, Reports DEF HookMarks, HookFails, Final, Open
  <2>2. job' \in [RunIds -> Job]
    <3>1. CASE job' = [job EXCEPT ![r].marked = TRUE]
        BY <1>0, <3>1 DEF Job
    <3>2. CASE SetJob(r, "none")
        BY <3>2, JobSet
    <3> QED BY <1>11, <3>1, <3>2 DEF HookMarks, HookFails
  <2> QED BY <1>0, <1>11, <2>1, <2>2 DEF HookMarks, HookStep
<1>12. ASSUME NEW r \in RunIds, HookCompletes(r) PROVE TypeOK'
  <2>1. run' \in Table /\ collect' \subseteq Collections
      BY <1>0, <1>12, Reports DEF HookCompletes, Final
  <2>2. job' \in [RunIds -> Job]
      BY <1>12, JobSet DEF HookCompletes
  <2> QED BY <1>0, <1>12, <2>1, <2>2 DEF HookCompletes, HookStep
<1>13. ASSUME NEW r \in RunIds, HookRetires(r) PROVE TypeOK'
  <2>1. run' \in Table /\ collect' \subseteq Collections
      BY <1>0, <1>13, Reports DEF HookRetires, Final
  <2>2. job' \in [RunIds -> Job]
      BY <1>13, JobSet DEF HookRetires
  <2> QED BY <1>0, <1>13, <2>1, <2>2 DEF HookRetires, HookStep
<1>14. ASSUME NEW r \in RunIds, PageCompletes(r) PROVE TypeOK'
  <2>1. run' \in Table /\ collect' \subseteq Collections
      BY <1>0, <1>14, Reports DEF PageCompletes, Final
  <2> QED BY <1>0, <1>14, <2>1 DEF PageCompletes, HookStep
<1>15. ASSUME NEW r \in RunIds, AgentEnds(r) PROVE TypeOK'
  <2>1. agent' \in [RunIds -> Ends]
      BY <1>0, <1>15 DEF AgentEnds, Ends
  <2> QED BY <1>0, <1>15, <2>1 DEF AgentEnds, HookStep
<1>16. ASSUME NEW c \in collect, CollectEnds(c) PROVE TypeOK'
  <2>1. c.run \in RunIds /\ c.status \in Final
      BY <1>0 DEF Collections
  <2>2. run' \in Table
    <3> DEFINE x == [[run[c.run] EXCEPT !.status = c.status] EXCEPT !.usage = TRUE]
    <3>1. run[c.run].stored => run' = [run EXCEPT ![c.run] = x]
        BY <1>0, <1>16, <2>1 DEF CollectEnds, Table, Row
    <3>2. x \in Row
      <4> DEFINE z == run[c.run]
                 y == [z EXCEPT !.status = c.status]
      <4>1. z \in Row
          BY <1>0, <2>1 DEF Table
      <4> HIDE DEF z
      <4>2. y \in Row
          BY <2>1, <4>1 DEF Row
      <4>3. x = [y EXCEPT !.usage = TRUE]
          BY DEF z
      <4> HIDE DEF x, y
      <4> QED BY <4>2, <4>3 DEF Row
    <3> HIDE DEF x
    <3> QED BY <1>0, <1>16, <2>1, <3>1, <3>2 DEF CollectEnds, Table
  <2> QED BY <1>0, <1>16, <2>2 DEF CollectEnds, HookStep
<1>17. ASSUME NEW a \in Ids, NEW s \in Schedules, CreateAutomation(a, s) PROVE TypeOK'
  <2>1. nextAutomationOccurrenceAfter(s, now) \in 0..Never
      BY <1>0, NextOccurrence
  <2>2. auto' \in [Ids -> Automation]
      BY <1>0, <1>17, <2>1 DEF CreateAutomation, Automation
  <2> QED BY <1>0, <1>17, <2>2 DEF CreateAutomation
<1>18. ASSUME NEW a \in Ids, NEW s \in Schedules, UpdateSchedule(a, s) PROVE TypeOK'
  <2>1. nextAutomationOccurrenceAfter(s, now) \in 0..Never
      BY <1>0, NextOccurrence
  <2>2. auto' \in [Ids -> Automation]
      BY <1>0, <1>18, <2>1 DEF UpdateSchedule, Automation
  <2> QED BY <1>0, <1>18, <2>2, LimitAssumption DEF UpdateSchedule, Edit, Upsets
<1>19. ASSUME NEW a \in Ids, UpdateEnabled(a) PROVE TypeOK'
  <2>2. auto' \in [Ids -> Automation]
      BY <1>0, <1>19 DEF UpdateEnabled, Automation
  <2> QED BY <1>0, <1>19, <2>2, LimitAssumption DEF UpdateEnabled, Edit, Upsets
<1>20. ASSUME NEW a \in Ids, DeleteAutomation(a) PROVE TypeOK'
  <2>1. auto' \in [Ids -> Automation]
      BY <1>0, <1>20 DEF DeleteAutomation, Automation
  <2>2. run' \in Table
      BY <1>0, <1>20 DEF DeleteAutomation, Table, Row
  <2> QED BY <1>0, <1>20, <2>1, <2>2, LimitAssumption DEF DeleteAutomation, Edit, Upsets
<1>21. ASSUME NEW a \in Ids, RunNow(a) PROVE TypeOK'
  <2>1. PICK r \in RunIds : Requested(a, now, "manual", r, "call")
      BY <1>21, RunNowRequests
  <2>2. /\ run' \in Table /\ nRun' \in 0..MaxRuns
        /\ job' \in [RunIds -> Job] /\ sent' \in [RunIds -> Nat]
      BY <2>1, RequestTyped
  <2>3. UNCHANGED <<auto, pass>>
      BY <1>21, RunNowRequests
  <2> QED BY <1>0, <1>21, <2>2, <2>3, LimitAssumption DEF RunNow, Edit, Upsets
<1>22. ASSUME Mount PROVE TypeOK'
    BY <1>0, <1>22 DEF Mount
<1>23. ASSUME Unmount PROVE TypeOK'
  <2>1. job' \in [RunIds -> Job]
      BY <1>23, Constants DEF Unmount
  <2>2. ready' \in BOOLEAN /\ listening' \in BOOLEAN
      BY <1>23 DEF Unmount
  <2>3. reloads' \in Nat /\ edits' + restarts' + reloads' <= MaxUpsets
      BY <1>0, <1>23, LimitAssumption DEF Unmount, Upsets
  <2> QED BY <1>0, <1>23, <2>1, <2>2, <2>3 DEF Unmount
<1>24. ASSUME Restart PROVE TypeOK'
  <2>1. job' \in [RunIds -> Job] /\ pass' \in Pass
      BY <1>24, Constants DEF Restart
  <2>2. run' \in Table
      BY <1>0, <1>24, Pruned DEF Restart
  <2>3. sent' \in [RunIds -> Nat]
      BY <1>24 DEF Restart
  <2>4. restarts' \in Nat /\ edits' + restarts' + reloads' <= MaxUpsets
      BY <1>0, <1>24, LimitAssumption DEF Restart, Upsets
  <2> QED BY <1>0, <1>24, <2>1, <2>2, <2>3, <2>4 DEF Restart
<1>25. ASSUME Clock PROVE TypeOK'
  <2>1. now' \in 0..MaxTime
      BY <1>0, <1>25, LimitAssumption DEF Clock
  <2> QED BY <1>0, <1>25, <2>1 DEF Clock
<1> QED BY <1>1, <1>2, <1>3, <1>4, <1>5, <1>6, <1>7, <1>8, <1>9, <1>10, <1>11, <1>12, <1>13,
           <1>14, <1>15, <1>16, <1>17, <1>18, <1>19, <1>20, <1>21, <1>22, <1>23, <1>24, <1>25
        DEF Next, Headless, Hook, User

-----------------------------------------------------------------------------
(* What steps do to the runs.                                              *)

\* A step of what drives, ran or collects run r.
Local(r) ==
    /\ r <= nRun /\ nRun' = nRun
    /\ \A q \in RunIds :
          /\ SameRun(run'[q], run[q]) /\ run'[q].stored = run[q].stored
          /\ run'[q].status # run[q].status => run[q].stored
          /\ q # r => /\ run'[q].status = run[q].status /\ job'[q] = job[q]
                      /\ agent'[q] = agent[q] /\ sent'[q] = sent[q]
    /\ \A c : c.run # r => (c \in collect' <=> c \in collect)
    /\ job'[r].pc # "none" => job[r].pc # "none"
    /\ job'[r].pc = "precheck" => job[r].pc = "precheck"
    /\ sent'[r] = sent[r] \/ (sent'[r] = sent[r] + 1 /\ job[r].pc = "precheck")
    /\ UNCHANGED <<now, serve, auto, ready, listening, edits, restarts, reloads>>

Report(r) == HookPrepares(r) \/ HookLaunches(r) \/ HookMarks(r) \/ HookCompletes(r)
             \/ HookRetires(r) \/ PageCompletes(r) \/ AgentEnds(r) \/ HeadlessCompletes(r)

\* What is driven, ran or is collected exists.
LEMMA Exists ==
    ASSUME TypeOK, Known, NEW r \in RunIds,
           job[r].pc # "none" \/ agent[r] # "none" \/ run[r].stored \/ (\E c \in collect : c.run = r)
    PROVE  r <= nRun
<1>1. r \in Nat /\ nRun \in Nat
    BY Numbers, Types
<1>2. ~(r > nRun)
    BY Constants DEF Known
<1> QED BY <1>1, <1>2

LEMMA ReportLocal ==
    ASSUME TypeOK, Known, NEW r \in RunIds, Report(r)
    PROVE  Local(r) /\ UNCHANGED <<pass, sent>>
<1>1. /\ UNCHANGED <<now, serve, auto, nRun, pass, ready, listening, sent,
                     edits, restarts, reloads>>
    BY DEF Report, HookStep, HookPrepares, HookLaunches, HookMarks, HookCompletes, HookRetires,
           PageCompletes, AgentEnds, HeadlessCompletes
<1>2. r <= nRun
  <2>1. job[r].pc # "none" \/ agent[r] # "none" \/ run[r].stored
      BY DEF Report, HookPrepares, HookLaunches, HookMarks, HookCompletes, HookRetires,
             PageCompletes, AgentEnds, HeadlessCompletes, MayComplete
  <2> QED BY <2>1, Exists
<1>3. \/ UNCHANGED <<run, collect>>
      \/ \E s \in Open \cup Final : \E by \in {"hook", "page", "main"} : MarkDispatchResult(r, s, by)
    BY DEF Report, HookPrepares, HookLaunches, HookMarks, HookCompletes, HookRetires, HookFails,
           PageCompletes, AgentEnds, HeadlessCompletes, Open, Final
<1>4. /\ \A q \in RunIds : /\ SameRun(run'[q], run[q]) /\ run'[q].stored = run[q].stored
                           /\ run'[q].status # run[q].status => run[q].stored
                           /\ q # r => run'[q].status = run[q].status
      /\ \A c : c.run # r => (c \in collect' <=> c \in collect)
  <2>1. CASE UNCHANGED <<run, collect>>
      BY <2>1 DEF SameRun
  <2>2. ASSUME NEW s \in Open \cup Final, NEW by \in {"hook", "page", "main"},
               MarkDispatchResult(r, s, by)
        PROVE  <1>4!1 /\ <1>4!2
    <3>1. /\ \A q \in RunIds : /\ SameRun(run'[q], run[q]) /\ run'[q].stored = run[q].stored
                               /\ q # r => run'[q] = run[q]
          /\ run'[r].status = IF run[r].stored THEN s ELSE run[r].status
        BY <2>2, Reports
    <3>2. collect \subseteq collect' /\ \A c \in collect' \ collect : c.run = r
        BY <2>2, Reports
    <3> QED BY <3>1, <3>2
  <2> QED BY <1>3, <2>1, <2>2
<1>5. /\ \A q \in RunIds : q # r => job'[q] = job[q] /\ agent'[q] = agent[q]
      /\ job'[r].pc # "none" => job[r].pc # "none"
      /\ job'[r].pc = "precheck" => job[r].pc = "precheck"
  <2>1. job \in [RunIds -> Job] /\ agent \in [RunIds -> Ends]
      BY Types
  <2>2. \/ job' = job
        \/ \E pc \in {"none", "launching", "running", "collecting"} :
              SetJob(r, pc) /\ (pc # "none" => job[r].pc # "none")
        \/ job' = [job EXCEPT ![r].marked = TRUE]
      BY DEF Report, HookPrepares, HookLaunches, HookMarks, HookCompletes, HookRetires, HookFails,
             PageCompletes, AgentEnds, HeadlessCompletes, HookStep, MayComplete
  <2>3. \A q \in RunIds : q # r => agent'[q] = agent[q]
      BY <2>1 DEF Report, HookPrepares, HookLaunches, HookMarks, HookCompletes, HookRetires,
             PageCompletes, AgentEnds, HeadlessCompletes, HookStep
  <2>4. CASE job' = job
      BY <2>3, <2>4
  <2>5. ASSUME NEW pc \in {"none", "launching", "running", "collecting"},
               SetJob(r, pc), pc # "none" => job[r].pc # "none"
        PROVE  <1>5!1 /\ <1>5!2 /\ <1>5!3
      BY <2>3, <2>5, JobSet, Constants
  <2>6. CASE job' = [job EXCEPT ![r].marked = TRUE]
    <3>1. job'[r].pc = job[r].pc
        BY <2>1, <2>6 DEF Job
    <3> QED BY <2>1, <2>3, <2>6, <3>1
  <2> QED BY <2>2, <2>4, <2>5, <2>6
<1> QED BY <1>1, <1>2, <1>4, <1>5 DEF Local

LEMMA CollectLocal ==
    ASSUME TypeOK, Known, NEW c \in collect, CollectEnds(c)
    PROVE  /\ c.run \in RunIds /\ Local(c.run) /\ UNCHANGED <<pass, sent, job, agent>>
           /\ collect' = collect \ {c} /\ c.status \in Final
           /\ run'[c.run].status = IF run[c.run].stored THEN c.status ELSE run[c.run].status
<1>1. c.run \in RunIds /\ c.status \in Final /\ run \in Table
    BY Types DEF Collections
<1> DEFINE r == c.run
           x == [run[r] EXCEPT !.status = c.status, !.usage = TRUE]
<1>2. run[r] \in Row /\ x \in Row /\ SameRun(x, run[r]) /\ x.stored = run[r].stored /\ x.status = c.status
    BY <1>1 DEF Table, Row, SameRun
<1>3. run[r].stored => run' = [run EXCEPT ![r] = x]
    BY <1>1, <1>2 DEF CollectEnds, Table, Row
<1> HIDE DEF x
<1>4. /\ \A q \in RunIds : /\ SameRun(run'[q], run[q]) /\ run'[q].stored = run[q].stored
                           /\ run'[q].status # run[q].status => run[q].stored
                           /\ q # r => run'[q].status = run[q].status
      /\ run'[r].status = IF run[r].stored THEN c.status ELSE run[r].status
  <2>1. CASE run[r].stored
      BY <1>1, <1>2, <1>3, <2>1 DEF SameRun, Table
  <2>2. CASE ~run[r].stored
      BY <2>2 DEF CollectEnds, SameRun
  <2> QED BY <2>1, <2>2
<1>5. r <= nRun
    BY <1>1, Exists
<1> QED BY <1>1, <1>4, <1>5 DEF CollectEnds, HookStep, Local

LEMMA HeadlessLocal ==
    ASSUME TypeOK, Known, Passing, NEW r \in RunIds, HeadlessPrecheck(r) \/ HeadlessLaunch(r)
    PROVE  /\ Local(r) /\ collect' = collect /\ serve /\ job[r].pc \in {"precheck", "launching"}
           /\ \/ /\ pass' = pass /\ job'[r].by = job[r].by /\ job'[r].pc = "launching"
                 /\ job[r].pc = "precheck" /\ sent'[r] = sent[r] + 1
                 /\ run' = run /\ agent' = agent
              \/ /\ job'[r].by = "main" /\ job'[r].pc \in {"none", "running"} /\ sent' = sent
                 /\ pass' = IF ~ByPass(r) THEN pass
                            ELSE IF run[r].stored THEN [pass EXCEPT !.pc = "advance"]
                            ELSE IdlePass
                 /\ \/ /\ job[r].pc = "precheck" /\ agent' = agent /\ job'[r].pc = "none"
                       /\ run'[r].status \in {"skipped", run[r].status}
                       /\ run[r].stored => run'[r].status = "skipped"
                    \/ /\ job[r].pc = "launching"
                       /\ run[r].stored => run'[r].status \in {"dispatched", "dispatch_failed"}
                       /\ ~run[r].stored => run'[r].status = run[r].status
                       /\ \/ agent' = agent /\ job'[r].pc = "none"
                          \/ /\ agent'[r] = "live"
                             /\ run[r].stored => run'[r].status = "dispatched"
                             /\ job'[r].pc = "running" => run[r].stored
<1>1. UNCHANGED <<now, serve, auto, nRun, ready, listening, collect, edits, restarts, reloads>>
    BY DEF HeadlessPrecheck, HeadlessLaunch
<1>2. /\ job[r].pc \in {"precheck", "launching"} /\ serve
      /\ run[r].stored \in BOOLEAN
    BY Types DEF HeadlessPrecheck, HeadlessLaunch, Table, Row
<1>3. r <= nRun
    BY <1>2, Exists
<1>4. CASE /\ job[r].pc = "precheck"
           /\ SetJob(r, "launching") /\ sent' = [sent EXCEPT ![r] = @ + 1]
           /\ UNCHANGED <<run, pass, agent>>
  <2>1. /\ \A q \in RunIds : q # r => job'[q] = job[q]
        /\ job'[r].pc = "launching" /\ job'[r].by = job[r].by
      BY <1>4, JobSet
  <2>2. sent'[r] = sent[r] + 1 /\ \A q \in RunIds : q # r => sent'[q] = sent[q]
      BY <1>4, SentOnce
  <2>3. Local(r)
      BY <1>1, <1>3, <1>4, <2>1, <2>2 DEF Local, SameRun
  <2> QED BY <1>1, <1>2, <1>4, <2>1, <2>2, <2>3
<1>5. CASE /\ job[r].pc = "precheck"
           /\ run' = IF run[r].stored THEN WithStatus(run, r, "skipped") ELSE run
           /\ HeadlessEnds(r, run[r].stored, "none")
           /\ UNCHANGED <<sent, agent>>
  <2>1. /\ \A q \in RunIds : /\ SameRun(run'[q], run[q]) /\ run'[q].stored = run[q].stored
                             /\ q # r => run'[q] = run[q]
        /\ run'[r].status = IF run[r].stored THEN "skipped" ELSE run[r].status
      BY <1>5, StatusSet DEF Final
  <2>2. /\ \A q \in RunIds : q # r => job'[q] = job[q]
        /\ job'[r].pc = "none" /\ job'[r].by = "main"
        /\ pass' = IF ~ByPass(r) THEN pass
                   ELSE IF run[r].stored THEN [pass EXCEPT !.pc = "advance"] ELSE IdlePass
      BY <1>2, <1>5, HeadlessEnded
  <2>3. Local(r)
      BY <1>1, <1>3, <1>5, <2>1, <2>2 DEF Local
  <2> QED BY <1>1, <1>2, <1>5, <2>1, <2>2, <2>3
<1>6. ASSUME NEW ok \in BOOLEAN,
             /\ job[r].pc = "launching"
             /\ agent' = IF ok THEN [agent EXCEPT ![r] = "live"] ELSE agent
             /\ run' = IF run[r].stored
                       THEN WithStatus(run, r, IF ok THEN "dispatched" ELSE "dispatch_failed")
                       ELSE run
             /\ HeadlessEnds(r, run[r].stored, IF ok /\ run[r].stored THEN "running" ELSE "none")
             /\ UNCHANGED sent
      PROVE  /\ Local(r)
             /\ job'[r].by = "main" /\ job'[r].pc \in {"none", "running"} /\ sent' = sent
             /\ pass' = IF ~ByPass(r) THEN pass
                        ELSE IF run[r].stored THEN [pass EXCEPT !.pc = "advance"] ELSE IdlePass
             /\ run[r].stored => run'[r].status \in {"dispatched", "dispatch_failed"}
             /\ ~run[r].stored => run'[r].status = run[r].status
             /\ \/ agent' = agent /\ job'[r].pc = "none"
                \/ /\ agent'[r] = "live"
                   /\ run[r].stored => run'[r].status = "dispatched"
                   /\ job'[r].pc = "running" => run[r].stored
  <2> DEFINE s == IF ok THEN "dispatched" ELSE "dispatch_failed"
             left == IF ok /\ run[r].stored THEN "running" ELSE "none"
  <2>0. s \in Open \cup Final /\ left \in {"none", "running"}
      BY DEF Open, Final
  <2>1. /\ \A q \in RunIds : /\ SameRun(run'[q], run[q]) /\ run'[q].stored = run[q].stored
                             /\ q # r => run'[q] = run[q]
        /\ run'[r].status = IF run[r].stored THEN s ELSE run[r].status
      BY <1>6, <2>0, StatusSet
  <2>2. /\ \A q \in RunIds : q # r => job'[q] = job[q]
        /\ job'[r].pc = left /\ job'[r].by = "main"
        /\ pass' = IF ~ByPass(r) THEN pass
                   ELSE IF run[r].stored THEN [pass EXCEPT !.pc = "advance"] ELSE IdlePass
      BY <1>2, <1>6, <2>0, HeadlessEnded
  <2>3. /\ \A q \in RunIds : q # r => agent'[q] = agent[q]
        /\ IF ok THEN agent'[r] = "live" ELSE agent' = agent
      BY <1>6, Types
  <2>4. Local(r)
      BY <1>1, <1>2, <1>3, <1>6, <2>1, <2>2, <2>3 DEF Local
  <2> QED BY <1>6, <2>1, <2>2, <2>3, <2>4
<1>7. CASE HeadlessPrecheck(r)
  <2>1. \/ /\ job[r].pc = "precheck"
           /\ SetJob(r, "launching") /\ sent' = [sent EXCEPT ![r] = @ + 1]
           /\ UNCHANGED <<run, pass, agent>>
        \/ /\ job[r].pc = "precheck"
           /\ run' = IF run[r].stored THEN WithStatus(run, r, "skipped") ELSE run
           /\ HeadlessEnds(r, run[r].stored, "none")
           /\ UNCHANGED <<sent, agent>>
      BY <1>7 DEF HeadlessPrecheck
  <2>2. CASE /\ job[r].pc = "precheck"
             /\ SetJob(r, "launching") /\ sent' = [sent EXCEPT ![r] = @ + 1]
             /\ UNCHANGED <<run, pass, agent>>
      BY <1>4, <2>2
  <2>3. CASE /\ job[r].pc = "precheck"
             /\ run' = IF run[r].stored THEN WithStatus(run, r, "skipped") ELSE run
             /\ HeadlessEnds(r, run[r].stored, "none")
             /\ UNCHANGED <<sent, agent>>
      BY <1>5, <2>3
  <2> QED BY <2>1, <2>2, <2>3
<1>8. CASE HeadlessLaunch(r)
  <2>1. PICK ok \in BOOLEAN :
           /\ job[r].pc = "launching"
           /\ agent' = IF ok THEN [agent EXCEPT ![r] = "live"] ELSE agent
           /\ run' = IF run[r].stored
                     THEN WithStatus(run, r, IF ok THEN "dispatched" ELSE "dispatch_failed")
                     ELSE run
           /\ HeadlessEnds(r, run[r].stored, IF ok /\ run[r].stored THEN "running" ELSE "none")
           /\ UNCHANGED sent
      BY <1>8 DEF HeadlessLaunch
  <2> QED BY <1>1, <1>2, <1>6, <2>1
<1> QED BY <1>7, <1>8

\* A step that leaves the runs alone.
Quiet == UNCHANGED <<serve, run, nRun, job, agent, collect, sent, restarts>>

\* The pass, or a caller, requests run r of automation a for t.
Request(r) ==
    /\ UNCHANGED <<now, serve, ready, listening, agent, collect, restarts>>
    /\ \/ \E a \in pass.left :
             /\ a \in Ids /\ pass.pc = "next" /\ OccurrenceOf(a) \in 0..MaxTime
             /\ OccurrenceOf(a) \in Occurrences[pass.schedule[a]]
             /\ Requested(a, OccurrenceOf(a), "scheduled", r, "pass")
             /\ \/ AdvanceThen(a) /\ UNCHANGED <<job, sent>>
                \/ /\ UNCHANGED auto /\ pass' = [pass EXCEPT !.pc = "advance", !.auto = a]
                   /\ UNCHANGED job \/ ~serve
                \/ /\ UNCHANGED <<auto, sent>> /\ pass' = [pass EXCEPT !.pc = "waiting", !.auto = a]
                   /\ serve
                   /\ job' = [job EXCEPT ![r] = [NoJob EXCEPT !.pc = "precheck", !.by = "pass"]]
       \/ \E a \in Ids : Live(a) /\ Requested(a, now, "manual", r, "call") /\ UNCHANGED <<auto, pass>>

\* The schedule of a is moved on, by a pass.
PassAdvances ==
    \E a \in Ids : /\ AdvanceThen(a)
                   /\ \/ pass.pc = "advance" /\ a = pass.auto
                      \/ pass.pc = "next" /\ a \in pass.left

LEMMA RequestLeaves ==
    ASSUME NEW r, Request(r)
    PROVE  UNCHANGED <<now, serve, ready, listening, agent, collect, restarts>>
BY DEF Request

LEMMA Kinds ==
    ASSUME TypeOK, Known, Numbered, Passing, [Next]_vars
    PROVE  \/ /\ Quiet /\ now' = now /\ listening' = listening /\ ready' = ready
              /\ \/ EvaluateDueRuns \/ PassEnds \/ PassAdvances
                 \/ \E a \in Ids : UpdateEnabled(a)
                 \/ \E a \in Ids, s \in Schedules : CreateAutomation(a, s) \/ UpdateSchedule(a, s)
                 \/ UNCHANGED <<auto, pass>>
           \/ Quiet /\ (Mount \/ Clock)
           \/ \E r \in RunIds :
                 \/ Report(r)
                 \/ HeadlessPrecheck(r) \/ HeadlessLaunch(r)
                 \/ Request(r)
           \/ \E c \in collect : CollectEnds(c)
           \/ Unmount \/ Restart \/ \E a \in Ids : DeleteAutomation(a)
<1>1. CASE UNCHANGED vars
    BY <1>1 DEF vars, Quiet
<1>2. ASSUME EvaluateAutomation
      PROVE  \/ Quiet /\ UNCHANGED <<now, listening, ready>> /\ PassAdvances
             \/ \E r \in RunIds : Request(r)
  <2>1. PICK a \in pass.left : a \in Ids /\ pass.pc = "next" /\ Evaluated(a, OccurrenceOf(a))
      BY <1>2, EvaluationSteps
  <2>2. UNCHANGED <<now, serve, ready, listening, agent, collect, edits, restarts, reloads>>
      BY <1>2 DEF EvaluateAutomation
  <2>3. CASE AdvanceThen(a) /\ UNCHANGED <<run, nRun, job, sent>>
      BY <2>1, <2>2, <2>3 DEF Quiet, PassAdvances
  <2>4. CASE ~(AdvanceThen(a) /\ UNCHANGED <<run, nRun, job, sent>>)
      BY <2>1, <2>2, <2>4 DEF Evaluated, Request
  <2> QED BY <2>3, <2>4
<1>3. ASSUME NEW a \in Ids, RunNow(a) PROVE \E r \in RunIds : Request(r)
  <2>1. UNCHANGED <<now, serve, ready, listening, agent, collect, restarts>>
      BY <1>3 DEF RunNow, Edit
  <2> QED BY <1>3, <2>1, RunNowRequests DEF Request
<1>4. Advance => PassAdvances
    BY DEF Advance, Passing, PassAdvances
<1>5. EvaluateDueRuns \/ PassEnds \/ Advance => Quiet /\ UNCHANGED <<now, listening, ready>>
    BY DEF EvaluateDueRuns, PassEnds, Advance, Quiet
<1>6. \A a \in Ids : UpdateEnabled(a) => Quiet /\ UNCHANGED <<now, listening, ready>>
    BY DEF UpdateEnabled, Edit, Quiet
<1>7. \A a \in Ids, s \in Schedules : CreateAutomation(a, s) \/ UpdateSchedule(a, s) =>
         Quiet /\ UNCHANGED <<now, listening, ready>>
    BY DEF CreateAutomation, UpdateSchedule, Edit, Quiet
<1>8. Mount \/ Clock => Quiet
    BY DEF Mount, Clock, Quiet
<1>9. \/ UNCHANGED vars \/ Advance \/ Restart \/ EvaluateDueRuns \/ EvaluateAutomation \/ PassEnds
      \/ Mount \/ Unmount \/ Clock
      \/ \E r \in RunIds : HeadlessPrecheck(r) \/ HeadlessLaunch(r) \/ Report(r)
      \/ \E c \in collect : CollectEnds(c)
      \/ \E a \in Ids, s \in Schedules : CreateAutomation(a, s) \/ UpdateSchedule(a, s)
      \/ \E a \in Ids : UpdateEnabled(a) \/ DeleteAutomation(a) \/ RunNow(a)
  <2>1. Next => <1>9
    <3>1. \A r \in RunIds : Headless(r) => HeadlessPrecheck(r) \/ HeadlessLaunch(r) \/ Report(r)
        BY DEF Headless, Report
    <3>2. \A r \in RunIds : Hook(r) \/ PageCompletes(r) \/ AgentEnds(r) => Report(r)
        BY DEF Hook, Report
    <3>3. User => \/ \E a \in Ids, s \in Schedules : CreateAutomation(a, s) \/ UpdateSchedule(a, s)
                  \/ \E a \in Ids : UpdateEnabled(a) \/ DeleteAutomation(a) \/ RunNow(a)
        BY DEF User
    <3> QED BY <3>1, <3>2, <3>3, Zenon DEF Next
  <2> QED BY <2>1
<1>10. CASE UNCHANGED vars
    BY <1>10 DEF vars, Quiet
<1>11. CASE ~UNCHANGED vars
    BY <1>2, <1>3, <1>4, <1>5, <1>6, <1>7, <1>8, <1>9, <1>11, ZenonT(30)
<1> QED BY <1>10, <1>11


-----------------------------------------------------------------------------
(* What steps do to the automations and to the rows.                       *)

\* An automation that was created never becomes new again, nor live once deleted.
LEMMA Lives ==
    ASSUME TypeOK, Known, Numbered, Passing, [Next]_vars, NEW a \in Ids
    PROVE  /\ auto[a].life # "new" => auto'[a].life # "new"
           /\ auto'[a].life = "live" => auto[a].life \in {"new", "live"}
           /\ serve' = serve
<1>1. auto \in [Ids -> Automation]
    BY Types
<1>2. CASE UNCHANGED <<auto, serve>>
    BY <1>1, <1>2 DEF Automation
<1>3. CASE PassAdvances /\ UNCHANGED serve
    BY <1>1, <1>3, Advances DEF PassAdvances, Automation
<1>4. CASE UNCHANGED serve /\ \E b \in Ids : UpdateEnabled(b) \/ DeleteAutomation(b)
    BY <1>1, <1>4 DEF UpdateEnabled, DeleteAutomation, Live, Automation
<1>5. CASE UNCHANGED serve /\ \E b \in Ids, s \in Schedules : CreateAutomation(b, s) \/ UpdateSchedule(b, s)
    BY <1>1, <1>5 DEF CreateAutomation, UpdateSchedule, Live, Automation
<1>6. ASSUME NEW r \in RunIds, Request(r), UNCHANGED serve
      PROVE  /\ auto[a].life # "new" => auto'[a].life # "new"
             /\ auto'[a].life = "live" => auto[a].life \in {"new", "live"}
  <2>1. UNCHANGED auto \/ \E b \in Ids : AdvanceThen(b)
      BY <1>6 DEF Request
  <2> QED BY <1>1, <1>2, <1>6, <2>1, Advances DEF Automation
<1>7. \A r \in RunIds : Report(r) \/ HeadlessPrecheck(r) \/ HeadlessLaunch(r) => UNCHANGED <<auto, serve>>
    BY ReportLocal, HeadlessLocal DEF Local
<1>8. \A c \in collect : CollectEnds(c) => UNCHANGED <<auto, serve>>
    BY CollectLocal DEF Local
<1>9. Unmount \/ Restart \/ EvaluateDueRuns \/ PassEnds \/ Mount \/ Clock => UNCHANGED <<auto, serve>>
    BY DEF Unmount, Restart, EvaluateDueRuns, PassEnds, Mount, Clock
<1>10. \A b \in Ids : DeleteAutomation(b) => UNCHANGED serve
    BY DEF DeleteAutomation, Edit
<1> QED BY <1>2, <1>3, <1>4, <1>5, <1>6, <1>7, <1>8, <1>9, <1>10, RequestLeaves, Kinds DEF Quiet

\* A run's row may go with its automation, or once it has ended and a newer one
\* of its automation stays.
Stays(q) ==
    /\ SameRun(run'[q], run[q])
    /\ run'[q].stored => run[q].stored
    /\ run[q].stored =>
          \/ run'[q].stored
          \/ auto'[run[q].auto].life = "deleted"
          \/ /\ run[q].status \in Final
             /\ \E p \in RunIds : p > q /\ run'[p].stored /\ run'[p].auto = run[q].auto

\* What a step that requests no run leaves of what drives, ran and collects it.
Rests(q) ==
    /\ job'[q] = job[q] \/ job'[q] = NoJob
    /\ agent'[q] = agent[q]
    /\ sent'[q] = sent[q] \/ sent'[q] = 0
    /\ run'[q].status = run[q].status
    /\ \A c \in collect' : c.run = q => c \in collect

\* A request is made for an automation that was created, at a moment of the past.
Asked(r, a, t, trigger, by) ==
    /\ Requested(a, t, trigger, r, by)
    /\ t \in 0..MaxTime /\ trigger \in {"scheduled", "manual"} /\ by \in {"pass", "call"}
    /\ auto[a].life # "new"

LEMMA RequestAsks ==
    ASSUME TypeOK, Passing, NEW r \in RunIds, Request(r)
    PROVE  \E a \in Ids, t \in 0..MaxTime, trigger \in {"scheduled", "manual"}, by \in {"pass", "call"} :
              Asked(r, a, t, trigger, by)
<1>1. now \in 0..MaxTime
    BY Types
<1>2. \A a \in pass.left : auto[a].life # "new"
    BY DEF Passing
<1>3. CASE \E a \in pass.left :
              /\ a \in Ids /\ OccurrenceOf(a) \in 0..MaxTime
              /\ Requested(a, OccurrenceOf(a), "scheduled", r, "pass")
    BY <1>2, <1>3 DEF Asked
<1>4. CASE \E a \in Ids : Live(a) /\ Requested(a, now, "manual", r, "call")
    BY <1>1, <1>4 DEF Asked, Live
<1> QED BY <1>3, <1>4 DEF Request

NoneAsked ==
    /\ nRun' = nRun
    /\ \A q \in RunIds : Stays(q)
    /\ \A q \in RunIds : q > nRun => Rests(q)

OneAsked ==
    \E r \in RunIds, a \in Ids, t \in 0..MaxTime, trigger \in {"scheduled", "manual"},
       by \in {"pass", "call"} :
        /\ Asked(r, a, t, trigger, by)
        /\ \A q \in RunIds : q # r => Stays(q) /\ Rests(q)

LEMMA RowSteps ==
    ASSUME TypeOK, Known, Numbered, Passing, [Next]_vars
    PROVE  NoneAsked \/ OneAsked
<1>1. job \in [RunIds -> Job] /\ agent \in [RunIds -> Ends] /\ sent \in [RunIds -> Nat]
      /\ run \in Table /\ nRun \in Nat
    BY Types, LimitAssumption
<1>2. ASSUME NEW r \in RunIds, Request(r), UNCHANGED <<agent, collect>>
      PROVE  OneAsked
  <2>1. PICK a \in Ids, t \in 0..MaxTime, trigger \in {"scheduled", "manual"}, by \in {"pass", "call"} :
           Asked(r, a, t, trigger, by)
      BY <1>2, RequestAsks
  <2>2. \A q \in RunIds : q # r => Evicted(run, run', q)
      BY <2>1 DEF Asked, Requested
  <2>3. \A q \in RunIds : q # r => Stays(q)
      BY <2>2 DEF Evicted, Stays
  <2>4. \A q \in RunIds : q # r => job'[q] = job[q] /\ sent'[q] = sent[q]
      BY <1>1, <2>1 DEF Asked, Requested
  <2>5. \A q \in RunIds : q # r => Rests(q)
      BY <1>2, <2>2, <2>4 DEF Rests, Evicted
  <2> QED BY <2>1, <2>3, <2>5 DEF OneAsked
<1>3. ASSUME NEW r \in RunIds, Local(r)
      PROVE  NoneAsked
  <2>1. \A q \in RunIds : Stays(q)
      BY <1>3 DEF Local, Stays
  <2>2. ASSUME NEW q \in RunIds, q > nRun PROVE Rests(q)
    <3>1. q # r
        BY <1>1, <1>3, <2>2, Numbers DEF Local
    <3> QED BY <1>3, <3>1 DEF Local, Rests
  <2> QED BY <1>3, <2>1, <2>2 DEF Local, NoneAsked
<1>4. ASSUME UNCHANGED <<run, nRun, agent, collect, sent>>, UNCHANGED job \/ Unmount
      PROVE  NoneAsked
    BY <1>1, <1>4 DEF NoneAsked, Stays, Rests, SameRun, Unmount
<1>5. CASE Restart
  <2>1. \A q \in RunIds : Evicted(run, run', q)
      BY <1>1, <1>5, Pruned DEF Restart
  <2> QED BY <1>1, <1>5, <2>1 DEF NoneAsked, Restart, Evicted, Stays, Rests
<1>6. ASSUME NEW a \in Ids, DeleteAutomation(a)
      PROVE  NoneAsked
  <2>1. UNCHANGED <<nRun, job, sent, agent, collect>>
      BY <1>6 DEF DeleteAutomation, Edit
  <2>2. auto'[a].life = "deleted"
      BY <1>6, Types DEF DeleteAutomation, Automation
  <2>3. ASSUME NEW q \in RunIds
        PROVE  /\ SameRun(run'[q], run[q]) /\ run'[q].status = run[q].status
               /\ run'[q].stored => run[q].stored
               /\ run[q].stored /\ ~run'[q].stored => run[q].auto = a
    <3>1. run[q] \in Row
        BY <1>1 DEF Table
    <3>2. run'[q] = IF run[q].auto = a THEN [run[q] EXCEPT !.stored = FALSE] ELSE run[q]
        BY <1>6 DEF DeleteAutomation
    <3> QED BY <3>1, <3>2 DEF SameRun, Row
  <2>4. \A q \in RunIds : Stays(q)
      BY <2>2, <2>3 DEF Stays
  <2>5. \A q \in RunIds : Rests(q)
      BY <2>1, <2>3 DEF Rests
  <2> QED BY <2>1, <2>4, <2>5 DEF NoneAsked
<1>7. \A r \in RunIds : Report(r) \/ HeadlessPrecheck(r) \/ HeadlessLaunch(r) => Local(r)
    BY ReportLocal, HeadlessLocal
<1>8. \A c \in collect : CollectEnds(c) => c.run \in RunIds /\ Local(c.run)
    BY CollectLocal
<1>9. Unmount => UNCHANGED <<run, nRun, agent, collect, sent>>
    BY DEF Unmount
<1>10. Quiet => UNCHANGED <<run, nRun, agent, collect, sent, job>>
    BY DEF Quiet
<1>11. \/ Quiet \/ Unmount \/ Restart
       \/ \E r \in RunIds : Local(r) \/ (Request(r) /\ UNCHANGED <<agent, collect>>)
       \/ \E a \in Ids : DeleteAutomation(a)
    BY <1>7, <1>8, RequestLeaves, Kinds
<1>12. UNCHANGED <<run, nRun, agent, collect, sent>> /\ (UNCHANGED job \/ Unmount) => NoneAsked
    BY <1>4
<1> QED BY <1>2, <1>3, <1>5, <1>6, <1>9, <1>10, <1>11, <1>12

-----------------------------------------------------------------------------
(* Each part of the invariant is kept.                                     *)

LEMMA InitKnown == Init => Known /\ Numbered /\ Passing
BY Constants, Numbers, LimitAssumption DEF Init, Known, Numbered, Passing, ByPass

LEMMA NextKnown ==
    ASSUME TypeOK, Known, Numbered, Passing, [Next]_vars
    PROVE  Known'
<1>1. /\ nRun \in Nat /\ nRun' \in Nat /\ run \in Table
      /\ \A r \in RunIds : r \in Nat /\ job[r] \in Job /\ agent[r] \in Ends
    BY Types, NextTyped, TypesNext, Numbers, LimitAssumption
<1>2. \A a \in Ids : auto[a].life # "new" => auto'[a].life # "new"
    BY Lives
<1>3. ASSUME nRun' = nRun, \A q \in RunIds : Stays(q), \A q \in RunIds : q > nRun => Rests(q)
      PROVE  Known!1' /\ Known!2'
  <2>1. \A q \in RunIds : run'[q].auto = run[q].auto /\ run'[q].number = run[q].number
                           /\ (run'[q].stored => run[q].stored)
      BY <1>3 DEF Stays, SameRun
  <2>2. \A q \in RunIds : q > nRun =>
           /\ ~run[q].stored /\ job[q] = NoJob /\ agent[q] = "none" /\ sent[q] = 0
           /\ \A c \in collect : c.run # q
           /\ run[q].number = 0 /\ run[q].auto = 0
      BY DEF Known
  <2>3. \A q \in RunIds : q > nRun =>
           /\ job'[q] = NoJob /\ agent'[q] = "none" /\ sent'[q] = 0
           /\ \A c \in collect' : c.run # q
      BY <1>3, <2>2 DEF Rests
  <2>4. \A q \in RunIds : q <= nRun => run[q].auto \in Ids /\ auto[run[q].auto].life # "new"
      BY DEF Known
  <2> QED BY <1>2, <1>3, <2>1, <2>2, <2>3, <2>4
<1>4. ASSUME NEW r \in RunIds, NEW a \in Ids, NEW t, NEW trigger, NEW by,
             Asked(r, a, t, trigger, by),
             \A q \in RunIds : q # r => Stays(q) /\ Rests(q)
      PROVE  Known!1' /\ Known!2'
  <2>1. /\ r <= nRun' /\ run'[r].auto = a /\ (nRun' = nRun \/ (nRun' = nRun + 1 /\ r = nRun'))
        /\ auto[a].life # "new"
      BY <1>1, <1>4 DEF Asked, Requested
  <2>2. \A q \in RunIds : q # r => /\ run'[q].auto = run[q].auto /\ run'[q].number = run[q].number
                                   /\ (run'[q].stored => run[q].stored)
      BY <1>4 DEF Stays, SameRun
  <2>3. ASSUME NEW q \in RunIds, q <= nRun'
        PROVE  run'[q].auto \in Ids /\ auto'[run'[q].auto].life # "new"
    <3>1. CASE q = r
        BY <1>2, <2>1, <3>1
    <3>2. CASE q # r
      <4>1. q <= nRun
          BY <1>1, <2>1, <2>3, <3>2
      <4> QED BY <1>2, <2>2, <3>2, <4>1 DEF Known
    <3> QED BY <3>1, <3>2
  <2>4. ASSUME NEW q \in RunIds, q > nRun'
        PROVE  /\ ~run'[q].stored /\ job'[q] = NoJob /\ agent'[q] = "none" /\ sent'[q] = 0
               /\ \A c \in collect' : c.run # q
               /\ run'[q].number = 0 /\ run'[q].auto = 0
    <3>1. q # r /\ q > nRun
        BY <1>1, <2>1, <2>4
    <3>2. Rests(q) /\ run'[q].auto = run[q].auto /\ run'[q].number = run[q].number
          /\ (run'[q].stored => run[q].stored)
        BY <1>4, <2>2, <3>1
    <3> QED BY <3>1, <3>2 DEF Known, Rests
  <2> QED BY <2>3, <2>4
<1>5. Known!1' /\ Known!2'
    BY <1>3, <1>4, RowSteps DEF NoneAsked, OneAsked
<1>6. /\ serve => ~listening /\ ~ready
      /\ \A r \in RunIds : job[r].pc = "precheck" => serve
    BY DEF Known
<1>7. (serve' => ~listening' /\ ~ready') /\ \A r \in RunIds : job'[r].pc = "precheck" => serve'
  <2>1. CASE Quiet /\ (UNCHANGED <<listening, ready>> \/ Mount \/ Clock)
      BY <1>6, <2>1 DEF Quiet, Mount, Clock
  <2>2. CASE Unmount \/ Restart
    <3>1. \A r \in RunIds : job'[r].pc = "none"
        BY <2>2, Constants DEF Unmount, Restart
    <3>2. serve' => ~listening' /\ ~ready'
        BY <1>6, <2>2, Zenon DEF Unmount, Restart
    <3> QED BY <3>1, <3>2
  <2>3. ASSUME NEW r \in RunIds, Local(r)
        PROVE  <1>7
      BY <1>6, <2>3 DEF Local
  <2>4. ASSUME NEW r \in RunIds, Request(r), UNCHANGED <<serve, ready, listening>>
        PROVE  <1>7
    <3>1. PICK a \in Ids, t \in 0..MaxTime, trigger \in {"scheduled", "manual"}, by \in {"pass", "call"} :
             Asked(r, a, t, trigger, by)
        BY <2>4, RequestAsks
    <3>2. \/ UNCHANGED job
          \/ serve /\ job' = [job EXCEPT ![r] = [NoJob EXCEPT !.pc = "precheck", !.by = by]]
          \/ job' = [job EXCEPT ![r] = [NoJob EXCEPT !.pc = "requested"]]
        BY <3>1 DEF Asked, Requested
    <3>3. [NoJob EXCEPT !.pc = "requested"].pc = "requested"
        BY DEF NoJob
    <3>4. job \in [RunIds -> Job]
        BY Types
    <3> QED BY <1>6, <2>4, <3>2, <3>3, <3>4
  <2>5. ASSUME NEW a \in Ids, DeleteAutomation(a) PROVE <1>7
      BY <1>6, <2>5 DEF DeleteAutomation, Edit
  <2>6. \A r \in RunIds : Report(r) \/ HeadlessPrecheck(r) \/ HeadlessLaunch(r) => Local(r)
      BY ReportLocal, HeadlessLocal
  <2>7. \A c \in collect : CollectEnds(c) => c.run \in RunIds /\ Local(c.run)
      BY CollectLocal
  <2> QED BY <2>1, <2>2, <2>3, <2>4, <2>5, <2>6, <2>7, RequestLeaves, Kinds
<1> QED BY <1>5, <1>7 DEF Known

LEMMA NextNumbered ==
    ASSUME TypeOK, Known, Numbered, Passing, [Next]_vars
    PROVE  Numbered'
<1>1. /\ nRun \in Nat /\ nRun' \in Nat
      /\ \A r \in RunIds : /\ r \in Nat /\ run[r].number \in Nat /\ run'[r].number \in Nat
                           /\ run[r].stored \in BOOLEAN /\ run'[r].stored \in BOOLEAN
    BY Types, NextTyped, TypesNext, Numbers, LimitAssumption DEF Table, Row
<1>2. \A a \in Ids : auto[a].life # "new" /\ auto'[a].life = "live" => auto[a].life = "live"
    BY Lives
<1>3. /\ \A r \in RunIds : run[r].number <= r
      /\ \A r, q \in RunIds : q <= nRun /\ r < q /\ run[r].auto = run[q].auto
                                    /\ auto[run[q].auto].life = "live" =>
            run[r].number < run[q].number
      /\ \A r \in RunIds : r <= nRun /\ auto[run[r].auto].life = "live" =>
            run[r].stored \/ \E q \in RunIds : q > r /\ run[q].auto = run[r].auto /\ run[q].stored
    BY DEF Numbered, Live
<1>4. \A r \in RunIds : r <= nRun => run[r].auto \in Ids /\ auto[run[r].auto].life # "new"
    BY DEF Known
<1>5. \A r \in RunIds : run[r].stored => r <= nRun
    BY Exists
\* An older run whose row went leaves a newer row of its automation.
<1>6. ASSUME NEW r \in RunIds, r <= nRun, Stays(r), auto'[run[r].auto].life = "live",
             \A q \in RunIds : q > r /\ run[q].stored => Stays(q) \/ (run'[q].stored /\ SameRun(run'[q], run[q]))
      PROVE  run'[r].stored \/ \E q \in RunIds : q > r /\ run'[q].auto = run'[r].auto /\ run'[q].stored
  <2>1. auto[run[r].auto].life = "live" /\ run'[r].auto = run[r].auto
      BY <1>2, <1>4, <1>6 DEF Stays, SameRun
  <2>2. CASE run[r].stored
      BY <1>6, <2>1, <2>2 DEF Stays
  <2>3. CASE ~run[r].stored
    <3>1. PICK q \in RunIds : q > r /\ run[q].auto = run[r].auto /\ run[q].stored
        BY <1>3, <1>6, <2>1, <2>3
    <3>2. CASE run'[q].stored /\ SameRun(run'[q], run[q])
        BY <2>1, <3>1, <3>2 DEF SameRun
    <3>3. CASE Stays(q)
      <4>1. CASE run'[q].stored
          BY <2>1, <3>1, <3>3, <4>1 DEF Stays, SameRun
      <4>2. CASE ~run'[q].stored
        <5>1. PICK p \in RunIds : p > q /\ run'[p].stored /\ run'[p].auto = run[q].auto
            BY <1>6, <3>1, <3>3, <4>2 DEF Stays
        <5>2. p > r
            BY <1>1, <3>1, <5>1
        <5> QED BY <2>1, <3>1, <5>1, <5>2
      <4> QED BY <4>1, <4>2
    <3> QED BY <1>6, <3>1, <3>2, <3>3
  <2> QED BY <1>1, <2>2, <2>3
\* Two runs that were there before.
<1>7. ASSUME NEW r \in RunIds, NEW q \in RunIds, q <= nRun, r < q,
             SameRun(run'[r], run[r]), SameRun(run'[q], run[q]),
             run'[r].auto = run'[q].auto, auto'[run'[q].auto].life = "live"
      PROVE  run'[r].number < run'[q].number
    BY <1>2, <1>3, <1>4, <1>7 DEF SameRun
<1>8. CASE NoneAsked
  <2>1. /\ nRun' = nRun /\ \A r \in RunIds : Stays(r) /\ SameRun(run'[r], run[r])
      BY <1>8 DEF NoneAsked, Stays
  <2>2. \A r \in RunIds : run'[r].number <= r
      BY <1>3, <2>1 DEF SameRun
  <2>3. \A r, q \in RunIds : q <= nRun' /\ r < q /\ run'[r].auto = run'[q].auto
                                   /\ auto'[run'[q].auto].life = "live" =>
            run'[r].number < run'[q].number
      BY <1>7, <2>1
  <2>4. \A r \in RunIds : r <= nRun' /\ auto'[run'[r].auto].life = "live" =>
            run'[r].stored \/ \E q \in RunIds : q > r /\ run'[q].auto = run'[r].auto /\ run'[q].stored
      BY <1>6, <2>1 DEF SameRun
  <2> QED BY <2>2, <2>3, <2>4 DEF Numbered, Live
<1>9. CASE OneAsked
  <2>1. PICK n \in RunIds, a \in Ids, t \in 0..MaxTime, trigger \in {"scheduled", "manual"},
             by \in {"pass", "call"} :
           Asked(n, a, t, trigger, by) /\ \A q \in RunIds : q # n => Stays(q) /\ Rests(q)
      BY <1>9 DEF OneAsked
  <2>2. /\ run'[n].stored /\ run'[n].auto = a /\ auto[a].life # "new"
        /\ \/ n <= nRun /\ nRun' = nRun /\ SameRun(run'[n], run[n])
           \/ n = nRun + 1 /\ nRun' = nRun + 1 /\ run'[n].number = nextAutomationRunNumber(a)
      BY <2>1 DEF Asked, Requested
  <2>3. \A q \in RunIds : q # n => Stays(q) /\ SameRun(run'[q], run[q])
      BY <2>1 DEF Stays
  <2>4. /\ nextAutomationRunNumber(a) \in Nat /\ nextAutomationRunNumber(a) <= nRun + 1
        /\ \A r \in RunIds : run[r].stored /\ run[r].auto = a =>
              run[r].number < nextAutomationRunNumber(a)
      BY NextNumber
  <2> DEFINE new == nextAutomationRunNumber(a)
  <2> HIDE DEF new
  <2>5. ASSUME NEW r \in RunIds PROVE run'[r].number <= r
    <3>1. CASE SameRun(run'[r], run[r])
        BY <1>3, <3>1 DEF SameRun
    <3>2. CASE ~SameRun(run'[r], run[r])
        BY <2>2, <2>3, <2>4, <3>2
    <3> QED BY <3>1, <3>2
  <2>6. ASSUME NEW r \in RunIds, NEW q \in RunIds, q <= nRun', r < q, run'[r].auto = run'[q].auto,
               auto'[run'[q].auto].life = "live"
        PROVE  run'[r].number < run'[q].number
    <3>1. CASE q <= nRun
      <4>1. SameRun(run'[q], run[q])
          BY <1>1, <2>2, <2>3, <3>1
      <4>2. r <= nRun
          BY <1>1, <2>6, <3>1
      <4>3. SameRun(run'[r], run[r])
          BY <1>1, <2>2, <2>3, <4>2
      <4> QED BY <1>7, <2>6, <3>1, <4>1, <4>3
    <3>2. CASE q > nRun
      <4>1. q = n /\ n = nRun + 1 /\ run'[q].number = new /\ run'[q].auto = a
          BY <1>1, <2>2, <2>6, <3>2 DEF new
      <4>2. r <= nRun /\ r # n
          BY <1>1, <2>6, <4>1
      <4>3. SameRun(run'[r], run[r]) /\ run[r].auto = a /\ auto[a].life = "live"
          BY <1>2, <2>2, <2>3, <2>6, <4>1, <4>2 DEF SameRun
      <4>4. CASE run[r].stored
          BY <2>4, <4>1, <4>3, <4>4 DEF SameRun, new
      <4>5. CASE ~run[r].stored
        <5>1. PICK p \in RunIds : p > r /\ run[p].auto = a /\ run[p].stored
            BY <1>3, <4>2, <4>3, <4>5
        <5>2. run[r].number < run[p].number
            BY <1>3, <1>5, <4>3, <5>1
        <5>3. run[p].number < new /\ new \in Nat
            BY <2>4, <5>1 DEF new
        <5> QED BY <1>1, <4>1, <4>3, <5>2, <5>3 DEF SameRun
      <4> QED BY <4>4, <4>5
    <3> QED BY <1>1, <3>1, <3>2
  <2>7. ASSUME NEW r \in RunIds, r <= nRun', auto'[run'[r].auto].life = "live"
        PROVE  run'[r].stored \/ \E q \in RunIds : q > r /\ run'[q].auto = run'[r].auto /\ run'[q].stored
    <3>1. CASE r = n
        BY <2>2, <3>1
    <3>2. CASE r # n
      <4>1. r <= nRun /\ Stays(r) /\ run'[r].auto = run[r].auto
          BY <1>1, <2>2, <2>3, <2>7, <3>2 DEF SameRun
      <4>2. \A q \in RunIds : q > r /\ run[q].stored => Stays(q) \/ (run'[q].stored /\ SameRun(run'[q], run[q]))
          BY <1>1, <1>5, <2>2, <2>3
      <4> QED BY <1>6, <2>7, <4>1, <4>2
    <3> QED BY <3>1, <3>2
  <2> QED BY <2>5, <2>6, <2>7 DEF Numbered, Live
<1> QED BY <1>8, <1>9, RowSteps

\* A report ends no wait of the pass, and begins none.
LEMMA ReportByPass ==
    ASSUME TypeOK, Known, Passing, NEW r \in RunIds, Report(r)
    PROVE  \A q \in RunIds : job'[q].by = "pass" <=> ByPass(q)
<1>1. job \in [RunIds -> Job] /\ \A q \in RunIds : q # r => job'[q] = job[q]
    BY ReportLocal, Types DEF Local
<1>2. ByPass(r) => serve /\ job[r].pc \in {"precheck", "launching"}
    BY DEF Passing
<1>3. CASE ByPass(r)
  <2>1. job' = job
      BY <1>2, <1>3 DEF Report, HookPrepares, HookLaunches, HookMarks, HookCompletes, HookRetires,
             PageCompletes, AgentEnds, HeadlessCompletes, HookStep, MayComplete
  <2> QED BY <2>1 DEF ByPass
<1>4. CASE ~ByPass(r)
  <2>1. \/ job' = job
        \/ \E pc \in {"none", "launching", "running", "collecting"} : SetJob(r, pc)
        \/ job' = [job EXCEPT ![r].marked = TRUE]
      BY DEF Report, HookPrepares, HookLaunches, HookMarks, HookCompletes, HookRetires, HookFails,
             PageCompletes, AgentEnds, HeadlessCompletes, HookStep, MayComplete
  <2>2. ASSUME NEW pc \in {"none", "launching", "running", "collecting"}, SetJob(r, pc)
        PROVE  job'[r].by # "pass"
      BY <1>4, <2>2, JobSet, Constants DEF ByPass
  <2>3. job' = [job EXCEPT ![r].marked = TRUE] => job'[r].by = job[r].by
      BY <1>1 DEF Job
  <2>4. job'[r].by # "pass"
      BY <1>4, <2>1, <2>2, <2>3 DEF ByPass
  <2> QED BY <1>1, <1>4, <2>4 DEF ByPass
<1> QED BY <1>3, <1>4

\* A pass that waits for no run.
LEMMA NoneWaited == Passing /\ pass.pc # "waiting" => \A r \in RunIds : ~ByPass(r)
BY DEF Passing

LEMMA ServeStays ==
    ASSUME TypeOK, Known, Numbered, Passing, [Next]_vars
    PROVE  serve' = serve /\ now <= now'
<1>1. \A r \in RunIds : Report(r) \/ HeadlessPrecheck(r) \/ HeadlessLaunch(r) => UNCHANGED <<serve, now>>
    BY ReportLocal, HeadlessLocal DEF Local
<1>2. \A c \in collect : CollectEnds(c) => UNCHANGED <<serve, now>>
    BY CollectLocal DEF Local
<1>3. Unmount \/ Restart \/ Mount => UNCHANGED <<serve, now>>
    BY DEF Unmount, Restart, Mount
<1>4. \A a \in Ids : DeleteAutomation(a) => UNCHANGED <<serve, now>>
    BY DEF DeleteAutomation, Edit
<1>5. now \in Nat /\ (Clock => now' = now + 1)
    BY Types, Moments DEF Clock
<1>6. UNCHANGED <<serve, now>> \/ (Quiet /\ Clock)
    BY <1>1, <1>2, <1>3, <1>4, RequestLeaves, Kinds DEF Quiet
<1> QED BY <1>5, <1>6 DEF Quiet

\* What Passing says of the pass itself, in the next state.
PassNext ==
    /\ pass'.now <= now'
    /\ pass'.pc = "idle" => pass' = IdlePass
    /\ pass'.pc # "idle" => pass'.evaluating
    /\ pass'.pc \in {"waiting", "advance"} => pass'.auto \in Ids
    /\ \A a \in pass'.left : auto'[a].life # "new"

LEMMA NextPassing ==
    ASSUME TypeOK, Known, Numbered, Passing, [Next]_vars
    PROVE  Passing'
<1>1. /\ job \in [RunIds -> Job] /\ pass \in Pass /\ now \in Nat /\ 0 <= now' /\ now' \in Nat
      /\ pass.now \in Nat /\ now <= now' /\ pass.now <= now'
  <2>1. job \in [RunIds -> Job] /\ pass \in Pass /\ now \in Nat /\ now' \in Nat /\ pass.now \in Nat
      BY Types, NextTyped, TypesNext, Moments DEF Pass
  <2> QED BY <2>1, ServeStays DEF Passing
<1>2. \A a \in Ids : auto[a].life # "new" => auto'[a].life # "new"
    BY Lives
<1>3. serve' = serve
    BY ServeStays
<1>4. /\ pass.left \subseteq Ids
      /\ pass.pc = "idle" => pass = IdlePass
      /\ pass.pc # "idle" => pass.evaluating
      /\ pass.pc \in {"waiting", "advance"} => pass.auto \in Ids
      /\ \A a \in pass.left : auto[a].life # "new"
    BY <1>1 DEF Passing, Pass
<1>5. pass' = pass \/ pass' = IdlePass => PassNext
    BY <1>1, <1>2, <1>4, Constants DEF PassNext
\* The pass stays where it is, or waits for no run.
<1>6. ASSUME pass' = pass,
             \A q \in RunIds : job'[q].by = "pass" =>
                ByPass(q) /\ run'[q].auto = run[q].auto /\ job'[q].pc \in {"precheck", "launching"}
      PROVE  Passing'
    BY <1>3, <1>5, <1>6 DEF Passing, PassNext, ByPass
<1>7. ASSUME PassNext, \A q \in RunIds : job'[q].by # "pass"
      PROVE  Passing'
    BY <1>7 DEF Passing, PassNext, ByPass
<1>8. \A q \in RunIds : ByPass(q) => job[q].pc \in {"precheck", "launching"}
    BY DEF Passing
<1>9. CASE Quiet /\ (UNCHANGED pass \/ EvaluateDueRuns \/ PassEnds \/ PassAdvances)
  <2>1. UNCHANGED <<job, run>>
      BY <1>9 DEF Quiet
  <2>2. CASE pass' = pass
      BY <1>6, <1>8, <2>1, <2>2 DEF ByPass
  <2>3. CASE EvaluateDueRuns
    <3>1. pass.pc # "waiting"
        BY <1>4, <2>3 DEF EvaluateDueRuns
    <3>2. PassNext
      <4>1. pass' = [evaluating |-> TRUE, pc |-> "next", now |-> now,
                     left |-> {a \in Ids : Due(a)},
                     schedule |-> [a \in Ids |-> auto[a].schedule], auto |-> 0]
            /\ auto' = auto
          BY <2>3 DEF EvaluateDueRuns
      <4>2. \A a \in pass'.left : auto'[a].life # "new"
          BY <4>1 DEF Due, Live
      <4> QED BY <1>1, <4>1, <4>2 DEF PassNext
    <3>3. \A q \in RunIds : job'[q].by # "pass"
        BY <2>1, <3>1, NoneWaited DEF ByPass
    <3> QED BY <1>7, <3>2, <3>3
  <2>4. CASE PassEnds
    <3>1. pass.pc # "waiting" /\ PassNext
        BY <1>5, <2>4 DEF PassEnds
    <3>2. \A q \in RunIds : job'[q].by # "pass"
        BY <2>1, <3>1, NoneWaited DEF ByPass
    <3> QED BY <1>7, <3>1, <3>2
  <2>5. CASE PassAdvances
    <3>1. PICK a \in Ids : AdvanceThen(a) /\ pass.pc \in {"advance", "next"}
        BY <2>5 DEF PassAdvances
    <3>2. pass' = [pass EXCEPT !.pc = "next", !.left = @ \ {a}, !.auto = 0] \/ pass' = IdlePass
        BY <3>1, Advances
    <3>3. pass' = [pass EXCEPT !.pc = "next", !.left = @ \ {a}, !.auto = 0] => PassNext
        BY <1>1, <1>2, <1>4, <3>1 DEF PassNext, Pass
    <3>4. \A q \in RunIds : job'[q].by # "pass"
        BY <2>1, <3>1, NoneWaited DEF ByPass
    <3> QED BY <1>5, <1>7, <3>2, <3>3, <3>4
  <2> QED BY <1>9, <2>2, <2>3, <2>4, <2>5
<1>10. \A q, r \in RunIds : ByPass(q) /\ ByPass(r) => q = r
    BY DEF Passing
<1>11. ASSUME NEW r \in RunIds, Report(r) PROVE Passing'
  <2>1. \A q \in RunIds : (job'[q].by = "pass" <=> ByPass(q)) /\ run'[q].auto = run[q].auto
      BY <1>11, ReportByPass, ReportLocal DEF Local, SameRun
  <2>2. pass' = pass /\ \A q \in RunIds : q # r => job'[q] = job[q]
      BY <1>11, ReportLocal DEF Local
  <2>3. ByPass(r) => job'[r].pc \in {"precheck", "launching"}
    <3>1. ByPass(r) => serve /\ job[r].pc \in {"precheck", "launching"}
        BY DEF Passing
    <3>2. ByPass(r) => job' = job
        BY <1>11, <3>1 DEF Report, HookPrepares, HookLaunches, HookMarks, HookCompletes, HookRetires,
             PageCompletes, AgentEnds, HeadlessCompletes, HookStep, MayComplete
    <3> QED BY <1>8, <3>2
  <2>4. \A q \in RunIds : ByPass(q) => job'[q].pc \in {"precheck", "launching"}
      BY <1>8, <2>2, <2>3
  <2> QED BY <1>6, <2>1, <2>2, <2>4
<1>12. ASSUME NEW c \in collect, CollectEnds(c) PROVE Passing'
  <2>1. UNCHANGED <<pass, job>> /\ \A q \in RunIds : run'[q].auto = run[q].auto
      BY <1>12, CollectLocal DEF Local, SameRun
  <2> QED BY <1>6, <1>8, <2>1 DEF ByPass
<1>13. ASSUME NEW r \in RunIds, HeadlessPrecheck(r) \/ HeadlessLaunch(r) PROVE Passing'
  <2>1. Local(r)
      BY <1>13, HeadlessLocal
  <2>2. \A q \in RunIds : run'[q].auto = run[q].auto /\ (q # r => job'[q] = job[q])
      BY <2>1 DEF Local, SameRun
  <2>3. \/ pass' = pass /\ job'[r].by = job[r].by /\ job'[r].pc = "launching"
        \/ /\ job'[r].by = "main"
           /\ pass' = IF ~ByPass(r) THEN pass
                      ELSE IF run[r].stored THEN [pass EXCEPT !.pc = "advance"] ELSE IdlePass
      BY <1>13, HeadlessLocal
  <2>4. CASE pass' = pass /\ job'[r].by = job[r].by /\ job'[r].pc = "launching"
      BY <1>6, <1>8, <2>2, <2>4 DEF ByPass
  <2>5. CASE ~ByPass(r) /\ pass' = pass /\ job'[r].by = "main"
      BY <1>6, <1>8, <2>2, <2>5 DEF ByPass
  <2>6. CASE /\ ByPass(r) /\ job'[r].by = "main"
             /\ pass' \in {[pass EXCEPT !.pc = "advance"], IdlePass}
    <3>1. \A q \in RunIds : job'[q].by # "pass"
        BY <1>10, <2>2, <2>6 DEF ByPass
    <3>2. pass.pc = "waiting"
        BY <2>6 DEF Passing
    <3>3. pass' = [pass EXCEPT !.pc = "advance"] => PassNext
        BY <1>1, <1>2, <1>4, <3>2 DEF PassNext, Pass
    <3> QED BY <1>5, <1>7, <2>6, <3>1, <3>3
  <2> QED BY <2>3, <2>4, <2>5, <2>6
<1>14. ASSUME NEW r \in RunIds, Request(r) PROVE Passing'
  <2>1. CASE \E a \in Ids : Requested(a, now, "manual", r, "call") /\ UNCHANGED <<auto, pass>>
    <3>1. PICK a \in Ids : Requested(a, now, "manual", r, "call") /\ UNCHANGED pass
        BY <2>1
    <3>2. r > nRun /\ job[r] = NoJob
      <4>1. r = nRun + 1 /\ nRun \in Nat
          BY <3>1, Types, LimitAssumption DEF Requested
      <4> QED BY <4>1, Numbers DEF Known
    <3>3. /\ \A q \in RunIds : q # r => job'[q] = job[q] /\ run'[q].auto = run[q].auto
          /\ job'[r].by # "pass"
      <4>1. \A q \in RunIds : q # r => run'[q].auto = run[q].auto
          BY <3>1 DEF Requested, Evicted, SameRun
      <4>2. \/ UNCHANGED job
            \/ job' = [job EXCEPT ![r] = [NoJob EXCEPT !.pc = "precheck", !.by = "call"]]
            \/ job' = [job EXCEPT ![r] = [NoJob EXCEPT !.pc = "requested"]]
          BY <3>1 DEF Requested
      <4>3. /\ [NoJob EXCEPT !.pc = "precheck", !.by = "call"].by = "call"
            /\ [NoJob EXCEPT !.pc = "requested"].by = "hook"
          BY DEF NoJob
      <4> QED BY <1>1, <3>2, <4>1, <4>2, <4>3, Constants
    <3> QED BY <1>6, <1>8, <3>1, <3>3 DEF ByPass
  <2>2. ASSUME NEW a \in pass.left, a \in Ids, pass.pc = "next",
               Requested(a, OccurrenceOf(a), "scheduled", r, "pass"),
               \/ AdvanceThen(a) /\ UNCHANGED job
               \/ /\ UNCHANGED auto /\ pass' = [pass EXCEPT !.pc = "advance", !.auto = a]
                  /\ UNCHANGED job \/ ~serve
        PROVE  Passing'
    <3>1. \A q \in RunIds : ~ByPass(q)
        BY <2>2, NoneWaited
    <3>2. UNCHANGED job \/ job' = [job EXCEPT ![r] = [NoJob EXCEPT !.pc = "requested"]]
        BY <2>2 DEF Requested
    <3>3. \A q \in RunIds : job'[q].by # "pass"
      <4>1. [NoJob EXCEPT !.pc = "requested"].by = "hook"
          BY DEF NoJob
      <4> QED BY <1>1, <3>1, <3>2, <4>1 DEF ByPass
    <3>4. \/ pass' = [pass EXCEPT !.pc = "next", !.left = @ \ {a}, !.auto = 0]
          \/ pass' = IdlePass
          \/ pass' = [pass EXCEPT !.pc = "advance", !.auto = a]
        BY <2>2, Advances
    <3>5. pass' = [pass EXCEPT !.pc = "next", !.left = @ \ {a}, !.auto = 0] => PassNext
        BY <1>1, <1>2, <1>4, <2>2 DEF PassNext, Pass
    <3>6. pass' = [pass EXCEPT !.pc = "advance", !.auto = a] => PassNext
        BY <1>1, <1>2, <1>4, <2>2 DEF PassNext, Pass
    <3> QED BY <1>5, <1>7, <3>3, <3>4, <3>5, <3>6
  <2>3. ASSUME NEW a \in pass.left, a \in Ids, pass.pc = "next",
               Requested(a, OccurrenceOf(a), "scheduled", r, "pass"),
               pass' = [pass EXCEPT !.pc = "waiting", !.auto = a], serve,
               job' = [job EXCEPT ![r] = [NoJob EXCEPT !.pc = "precheck", !.by = "pass"]]
        PROVE  Passing'
    <3>1. \A q \in RunIds : ~ByPass(q)
        BY <2>3, NoneWaited
    <3>2. PassNext /\ pass'.pc = "waiting" /\ pass'.auto = a
        BY <1>1, <1>2, <1>4, <2>3 DEF PassNext, Pass
    <3>3. \A q \in RunIds : job'[q].by = "pass" => q = r
        BY <1>1, <2>3, <3>1 DEF ByPass
    <3>4. job'[r].pc = "precheck" /\ run'[r].auto = a
        BY <1>1, <2>3 DEF Requested, NoJob
    <3> QED BY <1>3, <2>3, <3>2, <3>3, <3>4 DEF Passing, PassNext, ByPass
  <2> QED BY <1>14, <2>1, <2>2, <2>3 DEF Request
<1>15. Unmount => Passing'
  <2> SUFFICES ASSUME Unmount PROVE Passing'
      OBVIOUS
  <2>1. pass' = pass /\ \A q \in RunIds : job'[q].by # "pass"
      BY Constants DEF Unmount
  <2> QED BY <1>5, <1>7, <2>1
<1>16. Restart => Passing'
  <2> SUFFICES ASSUME Restart PROVE Passing'
      OBVIOUS
  <2>1. pass' = IdlePass /\ \A q \in RunIds : job'[q].by # "pass"
      BY Constants DEF Restart
  <2> QED BY <1>5, <1>7, <2>1
<1>17. ASSUME NEW a \in Ids, DeleteAutomation(a) PROVE Passing'
  <2>1. UNCHANGED <<pass, job>>
      BY <1>17 DEF DeleteAutomation
  <2>2. \A q \in RunIds : run[q] \in Row
      BY Types DEF Table
  <2>3. \A q \in RunIds : run'[q].auto = run[q].auto
      BY <1>17, <2>2 DEF DeleteAutomation, Row
  <2> QED BY <1>6, <1>8, <2>1, <2>3 DEF ByPass
<1>18. /\ \A a \in Ids : UpdateEnabled(a) => UNCHANGED pass
       /\ \A a \in Ids, s \in Schedules : CreateAutomation(a, s) \/ UpdateSchedule(a, s) => UNCHANGED pass
       /\ Mount \/ Clock => UNCHANGED pass
    BY DEF UpdateEnabled, CreateAutomation, UpdateSchedule, Mount, Clock
<1> QED BY <1>9, <1>11, <1>12, <1>13, <1>14, <1>15, <1>16, <1>17, <1>18, Kinds

\* Only a request makes a run handled that was not.
LEMMA Unasked ==
    ASSUME TypeOK, Known, Numbered, Passing, [Next]_vars, ~\E r \in RunIds : Request(r),
           NEW q \in RunIds
    PROVE  /\ SameRun(run'[q], run[q]) /\ (run'[q].stored => run[q].stored)
           /\ Handled(q)' => Handled(q)
<1>1. /\ run \in Table /\ restarts \in Nat /\ sent[q] \in Nat /\ sent'[q] \in Nat
      /\ restarts' \in Nat
    BY Types, NextTyped, TypesNext
<1>2. CASE UNCHANGED <<run, restarts, sent>> /\ (UNCHANGED job \/ Unmount)
    BY <1>2, Constants DEF SameRun, Handled, Unmount
<1>3. ASSUME NEW r \in RunIds, Local(r)
      PROVE  /\ SameRun(run'[q], run[q]) /\ (run'[q].stored => run[q].stored)
             /\ Handled(q)' => Handled(q)
  <2>1. /\ SameRun(run'[q], run[q]) /\ run'[q].stored = run[q].stored /\ restarts' = restarts
        /\ q # r => job'[q] = job[q] /\ sent'[q] = sent[q]
        /\ job'[r].pc = "precheck" => job[r].pc = "precheck"
        /\ sent'[r] = sent[r] \/ job[r].pc = "precheck"
      BY <1>3 DEF Local
  <2> QED BY <2>1 DEF Handled
<1>4. CASE Restart
  <2>1. Evicted(run, run', q)
      BY <1>1, <1>4, Pruned DEF Restart
  <2>2. restarts' # 0 /\ sent'[q] = 0 /\ job'[q].pc = "none"
      BY <1>1, <1>4, Constants DEF Restart
  <2> QED BY <2>1, <2>2 DEF Evicted, Handled
<1>5. ASSUME NEW a \in Ids, DeleteAutomation(a)
      PROVE  /\ SameRun(run'[q], run[q]) /\ (run'[q].stored => run[q].stored)
             /\ Handled(q)' => Handled(q)
  <2>1. UNCHANGED <<restarts, sent, job>>
      BY <1>5 DEF DeleteAutomation, Edit
  <2>2. run'[q] = IF run[q].auto = a THEN [run[q] EXCEPT !.stored = FALSE] ELSE run[q]
      BY <1>5 DEF DeleteAutomation
  <2>3. SameRun(run'[q], run[q]) /\ (run'[q].stored => run[q].stored)
      BY <1>1, <2>2 DEF SameRun, Table, Row
  <2> QED BY <2>1, <2>3 DEF Handled
<1>6. \A r \in RunIds : Report(r) \/ HeadlessPrecheck(r) \/ HeadlessLaunch(r) => Local(r)
    BY ReportLocal, HeadlessLocal
<1>7. \A c \in collect : CollectEnds(c) => c.run \in RunIds /\ Local(c.run)
    BY CollectLocal
<1>8. Unmount => UNCHANGED <<run, restarts, sent>>
    BY DEF Unmount
<1> QED BY <1>2, <1>3, <1>4, <1>5, <1>6, <1>7, <1>8, Kinds DEF Quiet

\* The cases of a step that requests no run, by what it does to the pass.
LEMMA UnaskedKinds ==
    ASSUME TypeOK, Known, Numbered, Passing, [Next]_vars, ~\E r \in RunIds : Request(r)
    PROVE  \/ EvaluateDueRuns \/ PassEnds \/ Restart
           \/ PassAdvances /\ UNCHANGED job
           \/ /\ UNCHANGED pass /\ \A q \in RunIds : ByPass(q) => ByPass(q)'
              /\ \/ UNCHANGED auto
                 \/ \E a \in Ids : UpdateEnabled(a) \/ DeleteAutomation(a)
                 \/ \E a \in Ids, s \in Schedules : CreateAutomation(a, s) \/ UpdateSchedule(a, s)
           \/ \E r \in RunIds :
                 /\ ByPass(r) /\ UNCHANGED auto /\ run'[r].stored = run[r].stored
                 /\ \A q \in RunIds : q # r => job'[q] = job[q]
                 /\ pass' = IF run[r].stored THEN [pass EXCEPT !.pc = "advance"] ELSE IdlePass
<1> DEFINE Goes == UNCHANGED pass /\ \A q \in RunIds : ByPass(q) => ByPass(q)'
<1>1. ASSUME NEW r \in RunIds, Report(r) PROVE Goes /\ UNCHANGED auto
    BY <1>1, ReportByPass, ReportLocal DEF ByPass, Local
<1>2. ASSUME NEW c \in collect, CollectEnds(c) PROVE Goes /\ UNCHANGED auto
    BY <1>2, CollectLocal DEF ByPass, Local
<1>3. ASSUME NEW r \in RunIds, HeadlessPrecheck(r) \/ HeadlessLaunch(r)
      PROVE  \/ Goes /\ UNCHANGED auto
             \/ /\ ByPass(r) /\ UNCHANGED auto /\ run'[r].stored = run[r].stored
                /\ \A q \in RunIds : q # r => job'[q] = job[q]
                /\ pass' = IF run[r].stored THEN [pass EXCEPT !.pc = "advance"] ELSE IdlePass
  <2>1. Local(r)
      BY <1>3, HeadlessLocal
  <2>2. \A q \in RunIds : q # r => job'[q] = job[q]
      BY <2>1 DEF Local
  <2>3. UNCHANGED auto /\ run'[r].stored = run[r].stored
      BY <2>1 DEF Local
  <2>4. \/ pass' = pass /\ job'[r].by = job[r].by
        \/ pass' = IF ~ByPass(r) THEN pass
                   ELSE IF run[r].stored THEN [pass EXCEPT !.pc = "advance"] ELSE IdlePass
      BY <1>3, HeadlessLocal
  <2>5. CASE pass' = pass /\ job'[r].by = job[r].by
      BY <2>2, <2>3, <2>5 DEF ByPass
  <2>6. CASE pass' = IF ~ByPass(r) THEN pass
                     ELSE IF run[r].stored THEN [pass EXCEPT !.pc = "advance"] ELSE IdlePass
    <3>1. CASE ByPass(r)
        BY <2>2, <2>3, <2>6, <3>1
    <3>2. CASE ~ByPass(r)
        BY <2>2, <2>3, <2>6, <3>2 DEF ByPass
    <3> QED BY <3>1, <3>2
  <2> QED BY <2>4, <2>5, <2>6
<1>4. Unmount => Goes /\ UNCHANGED auto
  <2> SUFFICES ASSUME Unmount PROVE Goes /\ UNCHANGED auto
      OBVIOUS
  <2>1. \A q \in RunIds : ~ByPass(q)
      BY DEF Unmount, Known, Passing
  <2> QED BY <2>1 DEF Unmount
<1>5. \A a \in Ids : UpdateEnabled(a) \/ DeleteAutomation(a) => Goes
    BY DEF UpdateEnabled, DeleteAutomation, ByPass
<1>6. \A a \in Ids, s \in Schedules : CreateAutomation(a, s) \/ UpdateSchedule(a, s) => Goes
    BY DEF CreateAutomation, UpdateSchedule, ByPass
<1>7. Quiet /\ UNCHANGED pass => Goes
    BY DEF Quiet, ByPass
<1>8. Mount \/ Clock => UNCHANGED <<auto, pass>>
    BY DEF Mount, Clock
<1>9. Quiet => UNCHANGED job
    BY DEF Quiet
<1> HIDE DEF Goes
<1>10. Goes <=> UNCHANGED pass /\ \A q \in RunIds : ByPass(q) => ByPass(q)'
    BY DEF Goes
<1> QED BY <1>1, <1>2, <1>3, <1>4, <1>5, <1>6, <1>7, <1>8, <1>9, <1>10, Kinds, ZenonT(40)

\* A request touches no other run, but for what eviction takes.
LEMMA RequestRows ==
    ASSUME TypeOK, Passing, NEW r \in RunIds, Request(r), NEW q \in RunIds, q # r
    PROVE  /\ SameRun(run'[q], run[q]) /\ (run'[q].stored => run[q].stored)
           /\ run'[q].status = run[q].status
           /\ job'[q] = job[q] /\ agent'[q] = agent[q] /\ sent'[q] = sent[q]
           /\ Handled(q)' => Handled(q)
<1>1. PICK a \in Ids, t \in 0..MaxTime, trigger \in {"scheduled", "manual"}, by \in {"pass", "call"} :
         Asked(r, a, t, trigger, by)
    BY RequestAsks
<1>2. Evicted(run, run', q)
    BY <1>1 DEF Asked, Requested
<1>3. job'[q] = job[q] /\ sent'[q] = sent[q]
  <2>1. job \in [RunIds -> Job] /\ sent \in [RunIds -> Nat]
      BY Types
  <2> QED BY <1>1, <2>1 DEF Asked, Requested
<1>4. agent' = agent /\ restarts' = restarts
    BY RequestLeaves
<1> QED BY <1>2, <1>3, <1>4 DEF Evicted, Handled

\* A served run's occurrence lies before the automation's next one.
Behind(r) == run[r].scheduledFor < auto[run[r].auto].nextRunAt

LEMMA ServedParts ==
    Served <=>
      /\ \A a \in Ids : Live(a) =>
            auto[a].nextRunAt \in Occurrences[auto[a].schedule] \cup {Never}
      /\ \A r \in RunIds : Scheduled(r) =>
            /\ run[r].scheduledFor <= now
            /\ pass.pc # "idle" => run[r].scheduledFor <= pass.now
      /\ \A r \in RunIds : Scheduled(r) /\ Handled(r) /\ Live(run[r].auto) =>
            AdvanceComes(r) \/ Behind(r)
      /\ \A a \in pass.left : pass.pc = "next" \/ a # pass.auto =>
            \A r \in RunIds : Scheduled(r) /\ Handled(r) /\ run[r].auto = a =>
                run[r].scheduledFor < OccurrenceOf(a)
BY DEF Served, Behind

LEMMA InitServed == Init => Served /\ Once /\ Staged
<1> SUFFICES ASSUME Init PROVE Served /\ Once /\ Staged
    OBVIOUS
<1>1. /\ \A a \in Ids : auto[a].life = "new"
      /\ \A r \in RunIds : /\ ~run[r].stored /\ run[r].status = "pending" /\ sent[r] = 0
                           /\ job[r] = NoJob
      /\ pass = IdlePass /\ collect = {}
    BY DEF Init
<1>2. Served
    BY <1>1, Constants DEF Served, Live, Scheduled
<1>3. Once
    BY <1>1, Constants DEF Once
<1>4. Staged
    BY <1>1, Constants DEF Staged, Skipped
<1> QED BY <1>2, <1>3, <1>4

LEMMA NextServed ==
    ASSUME TypeOK, Known, Numbered, Passing, Served, [Next]_vars
    PROVE  Served'
<1>1. /\ now \in 0..MaxTime /\ now' \in 0..MaxTime /\ pass \in Pass /\ pass' \in Pass
      /\ auto \in [Ids -> Automation] /\ auto' \in [Ids -> Automation]
      /\ run \in Table /\ run' \in Table /\ now <= now' /\ pass.now <= now
    BY Types, NextTyped, TypesNext, ServeStays DEF Passing
<1>2. /\ \A r \in RunIds : run[r].scheduledFor \in Nat /\ run'[r].scheduledFor \in Nat
      /\ pass.now \in Nat /\ now \in Nat /\ now' \in Nat
      /\ \A a \in Ids : auto[a].nextRunAt \in Nat /\ auto'[a].nextRunAt \in Nat
    BY <1>1, Moments DEF Table, Row, Pass, Automation, Never
<1>3. /\ \A a \in Ids : Live(a) =>
            auto[a].nextRunAt \in Occurrences[auto[a].schedule] \cup {Never}
      /\ \A r \in RunIds : Scheduled(r) =>
            /\ run[r].scheduledFor <= now
            /\ pass.pc # "idle" => run[r].scheduledFor <= pass.now
      /\ \A r \in RunIds : Scheduled(r) /\ Handled(r) /\ Live(run[r].auto) =>
            AdvanceComes(r) \/ Behind(r)
      /\ \A a \in pass.left : pass.pc = "next" \/ a # pass.auto =>
            \A r \in RunIds : Scheduled(r) /\ Handled(r) /\ run[r].auto = a =>
                run[r].scheduledFor < OccurrenceOf(a)
    BY ServedParts
<1>4. /\ \A r \in RunIds : run[r].stored => run[r].auto \in Ids /\ auto[run[r].auto].life # "new"
      /\ \A a \in Ids : auto[a].life # "new" /\ Live(a)' => Live(a)
    BY Exists, Lives DEF Known, Live
<1>5. pass.pc \in {"next", "advance", "idle"} => \A r \in RunIds : ~ByPass(r)
    BY NoneWaited
\* The runs that are scheduled and handled afterwards were so before.
<1>6. ASSUME ~\E r \in RunIds : Request(r)
      PROVE  Served'
  <2>1. \A q \in RunIds : /\ SameRun(run'[q], run[q])
                          /\ run'[q].auto = run[q].auto /\ run'[q].scheduledFor = run[q].scheduledFor
                          /\ Scheduled(q)' => Scheduled(q)
                          /\ Handled(q)' => Handled(q)
      BY <1>6, Unasked DEF SameRun, Scheduled
\* The pass stays where it is.
  <2>2. ASSUME UNCHANGED pass, \A q \in RunIds : ByPass(q) => ByPass(q)',
               \A a \in Ids : Live(a)' =>
                  /\ auto'[a].nextRunAt \in Occurrences[auto'[a].schedule] \cup {Never}
                  /\ \/ auto'[a].nextRunAt = auto[a].nextRunAt
                     \/ now < auto'[a].nextRunAt
        PROVE  Served'
    <3>1. ASSUME NEW q \in RunIds, Scheduled(q)'
          PROVE  run'[q].scheduledFor <= now' /\ (pass'.pc # "idle" => run'[q].scheduledFor <= pass'.now)
        BY <1>1, <1>2, <1>3, <2>1, <2>2, <3>1
    <3>2. ASSUME NEW q \in RunIds, Scheduled(q)', Handled(q)', Live(run[q].auto)'
          PROVE  AdvanceComes(q)' \/ Behind(q)'
      <4>1. /\ Scheduled(q) /\ Handled(q) /\ run[q].auto \in Ids /\ Live(run[q].auto)
            /\ auto'[run[q].auto].life = "live"
          BY <1>4, <2>1, <3>2 DEF Scheduled, Live
      <4>2. CASE AdvanceComes(q)
          BY <2>1, <2>2, <4>2 DEF AdvanceComes
      <4>3. CASE Behind(q)
        <5>1. run'[q].scheduledFor < auto'[run[q].auto].nextRunAt
            BY <1>2, <1>3, <2>1, <2>2, <4>1, <4>3 DEF Behind, Live
        <5> QED BY <2>1, <5>1 DEF Behind
      <4> QED BY <1>3, <4>1, <4>2, <4>3
    <3>3. ASSUME NEW a \in pass'.left, pass'.pc = "next" \/ a # pass'.auto,
                 NEW q \in RunIds, Scheduled(q)', Handled(q)', run'[q].auto = a
          PROVE  run'[q].scheduledFor < OccurrenceOf(a)'
        BY <1>3, <2>1, <2>2, <3>3 DEF OccurrenceOf
    <3> QED BY <2>1, <2>2, <3>1, <3>2, <3>3 DEF Served, Behind
  <2>3. CASE UNCHANGED <<pass, auto>> /\ \A q \in RunIds : ByPass(q) => ByPass(q)'
      BY <1>3, <2>2, <2>3 DEF Live
  <2>4. ASSUME UNCHANGED pass, \A q \in RunIds : ByPass(q) => ByPass(q)', NEW a \in Ids,
               UpdateEnabled(a) \/ DeleteAutomation(a)
        PROVE  Served'
    <3>1. \A b \in Ids : Live(b)' => /\ Live(b) /\ auto'[b].schedule = auto[b].schedule
                                     /\ auto'[b].nextRunAt = auto[b].nextRunAt
        BY <1>1, <2>4 DEF UpdateEnabled, DeleteAutomation, Live, Automation
    <3> QED BY <1>3, <2>2, <2>4, <3>1
  <2>5. ASSUME UNCHANGED pass, \A q \in RunIds : ByPass(q) => ByPass(q)', NEW a \in Ids, NEW s \in Schedules,
               CreateAutomation(a, s) \/ UpdateSchedule(a, s)
        PROVE  Served'
    <3> DEFINE o == nextAutomationOccurrenceAfter(s, now)
    <3>1. o \in Occurrences[s] \cup {Never} /\ now < o
        BY <1>1, NextOccurrence
    <3>2. auto' = [auto EXCEPT ![a] = [life |-> "live", enabled |-> TRUE, schedule |-> s, nextRunAt |-> o]]
          \/ auto' = [auto EXCEPT ![a].schedule = s, ![a].nextRunAt = o]
        BY <2>5 DEF CreateAutomation, UpdateSchedule
    <3> HIDE DEF o
    <3>3. auto'[a].schedule = s /\ auto'[a].nextRunAt = o /\ \A b \in Ids : b # a => auto'[b] = auto[b]
        BY <1>1, <3>2 DEF Automation
    <3> QED BY <1>3, <2>2, <2>5, <3>1, <3>3 DEF Live
  <2>6. CASE EvaluateDueRuns
    <3>1. /\ pass' = [evaluating |-> TRUE, pc |-> "next", now |-> now,
                      left |-> {a \in Ids : Due(a)},
                      schedule |-> [a \in Ids |-> auto[a].schedule], auto |-> 0]
          /\ UNCHANGED <<auto, now>> /\ pass.pc = "idle"
        BY <2>6 DEF EvaluateDueRuns, Passing
    <3>2. \A q \in RunIds : ~AdvanceComes(q)
        BY <1>5, <3>1 DEF AdvanceComes
    <3>3. ASSUME NEW q \in RunIds, Scheduled(q)', Handled(q)', Live(run[q].auto)'
          PROVE  Behind(q) /\ Behind(q)'
      <4>1. Scheduled(q) /\ Handled(q) /\ Live(run[q].auto)
          BY <2>1, <3>1, <3>3 DEF Live
      <4>2. Behind(q)
          BY <1>3, <3>2, <4>1
      <4> QED BY <2>1, <3>1, <4>2 DEF Behind
    <3>4. ASSUME NEW a \in pass'.left,
                 NEW q \in RunIds, Scheduled(q)', Handled(q)', run'[q].auto = a
          PROVE  run'[q].scheduledFor < OccurrenceOf(a)'
      <4>1. a \in Ids /\ Live(a) /\ auto[a].nextRunAt <= now /\ run[q].auto = a /\ Live(run[q].auto)'
          BY <2>1, <3>1, <3>4 DEF Due, Live
      <4>2. run'[q].scheduledFor < auto[a].nextRunAt
          BY <2>1, <3>3, <3>4, <4>1 DEF Behind
      <4>3. auto[a].nextRunAt \in Occurrences[auto[a].schedule] /\ auto[a].schedule \in Schedules
        <5>1. auto[a].nextRunAt # Never
            BY <1>1, <4>1, Moments DEF Never
        <5> QED BY <1>1, <1>3, <4>1, <5>1 DEF Automation
      <4>4. OccurrenceOf(a)' = latestAutomationOccurrenceAtOrBefore(auto[a].schedule, now)
          BY <3>1, <4>1 DEF OccurrenceOf
      <4>5. auto[a].nextRunAt <= latestAutomationOccurrenceAtOrBefore(auto[a].schedule, now)
            /\ latestAutomationOccurrenceAtOrBefore(auto[a].schedule, now) \in Int
          BY <1>1, <4>1, <4>3, LatestOccurrence
      <4> QED BY <1>2, <4>1, <4>2, <4>4, <4>5
    <3>5. ASSUME NEW q \in RunIds, Scheduled(q)'
          PROVE  run'[q].scheduledFor <= now' /\ run'[q].scheduledFor <= pass'.now
        BY <1>3, <2>1, <3>1, <3>5
    <3>6. \A a \in Ids : Live(a)' => auto'[a].nextRunAt \in Occurrences[auto'[a].schedule] \cup {Never}
        BY <1>3, <3>1 DEF Live
    <3> QED BY <2>1, <3>3, <3>4, <3>5, <3>6 DEF Served, Behind
  <2>7. CASE (PassEnds \/ Restart) /\ pass' = IdlePass
    <3>1. UNCHANGED <<auto, now>> /\ pass'.pc = "idle" /\ pass'.left = {}
        BY <2>7, Constants DEF PassEnds, Restart
    <3>2. ASSUME NEW q \in RunIds, Scheduled(q)', Handled(q)', Live(run[q].auto)'
          PROVE  Behind(q)'
      <4>1. ~Restart
        <5>1. Restart => restarts' # 0 /\ sent'[q] = 0 /\ job'[q].pc = "none"
            BY Types, Constants DEF Restart
        <5>2. sent'[q] = 0 => ~(sent'[q] > 0)
            OBVIOUS
        <5> QED BY <3>2, <5>1, <5>2 DEF Handled
      <4>2. \A r \in RunIds : ~AdvanceComes(r)
          BY <1>5, <2>7, <4>1 DEF AdvanceComes, PassEnds
      <4>3. Scheduled(q) /\ Handled(q) /\ Live(run[q].auto)
          BY <2>1, <3>1, <3>2 DEF Live
      <4> QED BY <1>3, <2>1, <3>1, <4>2, <4>3 DEF Behind
    <3>3. \A q \in RunIds : Scheduled(q)' => run'[q].scheduledFor <= now'
        BY <1>3, <2>1, <3>1
    <3>4. \A a \in Ids : Live(a)' => auto'[a].nextRunAt \in Occurrences[auto'[a].schedule] \cup {Never}
        BY <1>3, <3>1 DEF Live
    <3> QED BY <2>1, <3>1, <3>2, <3>3, <3>4 DEF Served, Behind
  <2>8. CASE PassAdvances /\ UNCHANGED job
    <3>1. PICK a \in Ids : /\ AdvanceThen(a)
                           /\ \/ pass.pc = "advance" /\ a = pass.auto
                              \/ pass.pc = "next" /\ a \in pass.left
        BY <2>8 DEF PassAdvances
    <3>2. /\ \A b \in Ids : /\ auto'[b].life = auto[b].life
                            /\ auto'[b].schedule = auto[b].schedule
                            /\ b # a => auto'[b] = auto[b]
          /\ \/ /\ Live(a) /\ pass' = [pass EXCEPT !.pc = "next", !.left = @ \ {a}, !.auto = 0]
                /\ auto'[a].nextRunAt \in Occurrences[auto[a].schedule] \cup {Never}
                /\ pass.now < auto'[a].nextRunAt
             \/ ~Live(a) /\ pass' = IdlePass /\ auto' = auto
        BY <3>1, Advances
    <3>3. ASSUME NEW q \in RunIds, Scheduled(q)', Handled(q)', Live(run[q].auto)'
          PROVE  Behind(q)'
      <4>1. /\ Scheduled(q) /\ Handled(q) /\ run[q].auto \in Ids /\ Live(run[q].auto)
            /\ run[q].scheduledFor <= pass.now
          BY <1>3, <1>4, <2>1, <3>1, <3>3 DEF Scheduled
      <4>2. CASE run[q].auto = a
          BY <1>2, <2>1, <3>2, <4>1, <4>2 DEF Behind
      <4>3. CASE run[q].auto # a
        <5>1. ~AdvanceComes(q)
            BY <1>5, <3>1, <4>3 DEF AdvanceComes
        <5> QED BY <1>3, <2>1, <3>2, <4>1, <4>3, <5>1 DEF Behind
      <4> QED BY <4>2, <4>3
    <3>4. ASSUME NEW b \in pass'.left, NEW q \in RunIds, Scheduled(q)', Handled(q)', run'[q].auto = b
          PROVE  run'[q].scheduledFor < OccurrenceOf(b)'
      <4>1. b \in pass.left /\ b # a /\ pass'.schedule = pass.schedule /\ pass'.now = pass.now
        <5>1. pass'.left = {} \/ pass' = [pass EXCEPT !.pc = "next", !.left = @ \ {a}, !.auto = 0]
            BY <3>2, Constants
        <5>2. pass' = [pass EXCEPT !.pc = "next", !.left = @ \ {a}, !.auto = 0]
            BY <3>4, <5>1
        <5> QED BY <1>1, <3>4, <5>2 DEF Pass
      <4>2. pass.pc = "next" \/ b # pass.auto
          BY <3>1, <4>1
      <4> QED BY <1>3, <2>1, <3>4, <4>1, <4>2 DEF OccurrenceOf
    <3>5. ASSUME NEW q \in RunIds, Scheduled(q)'
          PROVE  run'[q].scheduledFor <= now' /\ (pass'.pc # "idle" => run'[q].scheduledFor <= pass'.now)
      <4>1. run[q].scheduledFor <= now /\ run[q].scheduledFor <= pass.now
          BY <1>3, <2>1, <3>1, <3>5
      <4>2. pass'.pc = "idle" \/ pass'.now = pass.now
          BY <1>1, <3>2, Constants DEF Pass
      <4> QED BY <1>1, <1>2, <2>1, <4>1, <4>2
    <3>6. \A b \in Ids : Live(b)' => auto'[b].nextRunAt \in Occurrences[auto'[b].schedule] \cup {Never}
        BY <1>3, <3>2 DEF Live
    <3> QED BY <2>1, <3>3, <3>4, <3>5, <3>6 DEF Served, Behind
  <2>9. ASSUME NEW r \in RunIds,
               ByPass(r), UNCHANGED auto, run'[r].stored = run[r].stored,
               \A q \in RunIds : q # r => job'[q] = job[q],
               pass' = IF run[r].stored THEN [pass EXCEPT !.pc = "advance"] ELSE IdlePass
        PROVE  Served'
    <3>1. pass.pc = "waiting" /\ run[r].auto = pass.auto /\ \A q \in RunIds : ByPass(q) => q = r
        BY <2>9 DEF Passing
    <3>2. \/ /\ run[r].stored /\ pass'.pc = "advance" /\ pass'.auto = pass.auto /\ pass'.left = pass.left
             /\ pass'.now = pass.now /\ pass'.schedule = pass.schedule
          \/ ~run[r].stored /\ pass'.pc = "idle" /\ pass'.left = {}
        BY <1>1, <2>9, Constants DEF Pass
    <3>3. ASSUME NEW q \in RunIds, Scheduled(q)', Handled(q)', Live(run[q].auto)'
          PROVE  AdvanceComes(q)' \/ Behind(q)'
      <4>1. Scheduled(q) /\ Handled(q) /\ Live(run[q].auto)
          BY <2>1, <2>9, <3>3 DEF Live
      <4>2. CASE Behind(q)
          BY <2>1, <2>9, <4>2 DEF Behind
      <4>3. CASE AdvanceComes(q)
        <5>1. q = r /\ run[r].stored
            BY <3>1, <4>1, <4>3 DEF AdvanceComes, Scheduled
        <5> QED BY <2>1, <3>1, <3>2, <5>1 DEF AdvanceComes
      <4> QED BY <1>3, <4>1, <4>2, <4>3
    <3>4. ASSUME NEW b \in pass'.left, pass'.pc = "next" \/ b # pass'.auto,
                 NEW q \in RunIds, Scheduled(q)', Handled(q)', run'[q].auto = b
          PROVE  run'[q].scheduledFor < OccurrenceOf(b)'
        BY <1>3, <2>1, <3>2, <3>4 DEF OccurrenceOf
    <3>5. ASSUME NEW q \in RunIds, Scheduled(q)'
          PROVE  run'[q].scheduledFor <= now' /\ (pass'.pc # "idle" => run'[q].scheduledFor <= pass'.now)
        BY <1>1, <1>2, <1>3, <2>1, <3>1, <3>2, <3>5
    <3>6. \A b \in Ids : Live(b)' => auto'[b].nextRunAt \in Occurrences[auto'[b].schedule] \cup {Never}
        BY <1>3, <2>9 DEF Live
    <3> QED BY <2>1, <3>3, <3>4, <3>5, <3>6 DEF Served, Behind
  <2>10. (PassEnds \/ Restart) => pass' = IdlePass
      BY DEF PassEnds, Restart
  <2> QED BY <1>6, <2>3, <2>4, <2>5, <2>6, <2>7, <2>8, <2>9, <2>10, UnaskedKinds
<1>7. ASSUME NEW r \in RunIds, Request(r)
      PROVE  Served'
  <2>1. \A q \in RunIds : q # r =>
           /\ run'[q].auto = run[q].auto /\ run'[q].scheduledFor = run[q].scheduledFor
           /\ Scheduled(q)' => Scheduled(q)
           /\ Handled(q)' => Handled(q)
           /\ job'[q] = job[q]
      BY <1>7, RequestRows DEF SameRun, Scheduled
  <2>2. now' = now
      BY <1>7, RequestLeaves
  <2>3. CASE \E a \in Ids : Requested(a, now, "manual", r, "call") /\ UNCHANGED <<auto, pass>>
    <3>1. ~Scheduled(r)' /\ UNCHANGED <<auto, pass>>
        BY <2>3 DEF Requested, Scheduled
    <3>2. ASSUME NEW q \in RunIds, Scheduled(q)'
          PROVE  /\ Scheduled(q) /\ (Handled(q)' => Handled(q)) /\ (AdvanceComes(q) => AdvanceComes(q)')
                 /\ run'[q].auto = run[q].auto /\ run'[q].scheduledFor = run[q].scheduledFor
        BY <2>1, <3>1, <3>2 DEF AdvanceComes, ByPass
    <3>3. \A q \in RunIds : Scheduled(q)' =>
             run'[q].scheduledFor <= now' /\ (pass'.pc # "idle" => run'[q].scheduledFor <= pass'.now)
        BY <1>3, <2>2, <3>1, <3>2
    <3>4. \A q \in RunIds : Scheduled(q)' /\ Handled(q)' /\ auto'[run'[q].auto].life = "live" =>
             AdvanceComes(q)' \/ Behind(q)'
        BY <1>3, <3>1, <3>2 DEF Behind, Live
    <3>5. \A a \in pass'.left : pass'.pc = "next" \/ a # pass'.auto =>
             \A q \in RunIds : Scheduled(q)' /\ Handled(q)' /\ run'[q].auto = a =>
                run'[q].scheduledFor < OccurrenceOf(a)'
        BY <1>3, <3>1, <3>2 DEF OccurrenceOf
    <3>6. \A a \in Ids : Live(a)' => auto'[a].nextRunAt \in Occurrences[auto'[a].schedule] \cup {Never}
        BY <1>3, <3>1 DEF Live
    <3> QED BY <3>3, <3>4, <3>5, <3>6 DEF Served, Behind, Live
  <2>4. ASSUME NEW a \in pass.left, a \in Ids, pass.pc = "next", OccurrenceOf(a) \in 0..MaxTime,
               Requested(a, OccurrenceOf(a), "scheduled", r, "pass"),
               \/ AdvanceThen(a)
               \/ UNCHANGED auto /\ pass' = [pass EXCEPT !.pc = "advance", !.auto = a]
               \/ /\ UNCHANGED auto /\ pass' = [pass EXCEPT !.pc = "waiting", !.auto = a]
                  /\ job' = [job EXCEPT ![r] = [NoJob EXCEPT !.pc = "precheck", !.by = "pass"]]
        PROVE  Served'
    <3>1. run'[r].auto = a /\ run'[r].scheduledFor = OccurrenceOf(a)
        BY <2>4 DEF Requested
    <3>2. OccurrenceOf(a) <= pass.now
      <4>1. pass.schedule[a] \in Schedules /\ pass.now \in 0..MaxTime
          BY <1>1, <2>4 DEF Pass
      <4> QED BY <4>1, LatestOccurrence DEF OccurrenceOf
    <3>3. \A q \in RunIds : ~AdvanceComes(q)
        BY <1>5, <2>4 DEF AdvanceComes
\* Either the schedule has moved on, or it is about to.
    <3>4. /\ \A b \in Ids : /\ Live(b)' => Live(b)
                            /\ auto'[b].schedule = auto[b].schedule
                            /\ b # a => auto'[b] = auto[b]
                            /\ \/ auto'[b].nextRunAt = auto[b].nextRunAt
                               \/ /\ pass.now < auto'[b].nextRunAt
                                  /\ auto'[b].nextRunAt \in Occurrences[auto'[b].schedule] \cup {Never}
          /\ \/ pass.now < auto'[a].nextRunAt \/ ~Live(a)'
             \/ pass'.pc = "advance" /\ pass'.auto = a
             \/ job'[r].by = "pass"
          /\ \/ pass'.left = {} /\ pass'.pc = "idle"
             \/ /\ pass'.left \subseteq pass.left /\ pass'.schedule = pass.schedule /\ pass'.now = pass.now
                /\ a \notin pass'.left \/ (pass'.pc # "next" /\ pass'.auto = a)
      <4>1. CASE AdvanceThen(a)
        <5>1. /\ \A b \in Ids : /\ auto'[b].life = auto[b].life
                                /\ auto'[b].schedule = auto[b].schedule
                                /\ b # a => auto'[b] = auto[b]
              /\ \/ /\ Live(a) /\ pass' = [pass EXCEPT !.pc = "next", !.left = @ \ {a}, !.auto = 0]
                    /\ auto'[a].nextRunAt \in Occurrences[auto[a].schedule] \cup {Never}
                    /\ pass.now < auto'[a].nextRunAt
                 \/ ~Live(a) /\ pass' = IdlePass /\ auto' = auto
            BY <2>4, <4>1, Advances
        <5>2. pass' = [pass EXCEPT !.pc = "next", !.left = @ \ {a}, !.auto = 0] =>
                 /\ pass'.left \subseteq pass.left /\ pass'.schedule = pass.schedule
                 /\ pass'.now = pass.now /\ a \notin pass'.left
            BY <1>1 DEF Pass
        <5> QED BY <5>1, <5>2, Constants DEF Live
      <4>2. CASE UNCHANGED auto /\ pass' = [pass EXCEPT !.pc = "advance", !.auto = a]
          BY <1>1, <4>2 DEF Pass, Live
      <4>3. CASE /\ UNCHANGED auto /\ pass' = [pass EXCEPT !.pc = "waiting", !.auto = a]
                 /\ job' = [job EXCEPT ![r] = [NoJob EXCEPT !.pc = "precheck", !.by = "pass"]]
        <5>1. job'[r].by = "pass"
          <6>1. job \in [RunIds -> Job]
              BY Types
          <6> QED BY <4>3, <6>1 DEF NoJob
        <5> QED BY <1>1, <4>3, <5>1 DEF Pass, Live
      <4> QED BY <2>4, <4>1, <4>2, <4>3
    <3>5. ASSUME NEW q \in RunIds, Scheduled(q)'
          PROVE  /\ run'[q].scheduledFor <= pass.now
                 /\ run'[q].scheduledFor <= now'
                 /\ pass'.pc # "idle" => run'[q].scheduledFor <= pass'.now
      <4>1. run'[q].scheduledFor <= pass.now
        <5>1. CASE q = r
            BY <3>1, <3>2, <5>1
        <5>2. CASE q # r
            BY <1>3, <2>1, <2>4, <3>5, <5>2
        <5> QED BY <5>1, <5>2
      <4> QED BY <1>1, <1>2, <2>2, <3>4, <4>1
    <3>6. ASSUME NEW q \in RunIds, Scheduled(q)', Handled(q)', auto'[run'[q].auto].life = "live"
          PROVE  AdvanceComes(q)' \/ Behind(q)'
      <4>1. run'[q].auto \in Ids
        <5>1. run'[q].auto = a \/ (run'[q].auto = run[q].auto /\ Scheduled(q))
            BY <2>1, <3>1, <3>6
        <5> QED BY <1>4, <2>4, <5>1 DEF Scheduled
      <4>2. CASE q = r
          BY <1>2, <3>1, <3>2, <3>4, <3>6, <4>1, <4>2 DEF AdvanceComes, ByPass, Behind, Live
      <4>3. CASE q # r
        <5>1. /\ Scheduled(q) /\ Handled(q) /\ Live(run[q].auto) /\ run'[q].auto = run[q].auto
              /\ run'[q].scheduledFor = run[q].scheduledFor
            BY <2>1, <3>4, <3>6, <4>1, <4>3 DEF Live
        <5>2. Behind(q)
            BY <1>3, <3>3, <5>1
        <5> QED BY <1>2, <3>4, <3>5, <3>6, <4>1, <5>1, <5>2 DEF Behind
      <4> QED BY <4>2, <4>3
    <3>7. ASSUME NEW b \in pass'.left, pass'.pc = "next" \/ b # pass'.auto,
                 NEW q \in RunIds, Scheduled(q)', Handled(q)', run'[q].auto = b
          PROVE  run'[q].scheduledFor < OccurrenceOf(b)'
      <4>1. b \in pass.left /\ b # a /\ pass'.schedule = pass.schedule /\ pass'.now = pass.now
          BY <3>4, <3>7
      <4>2. q # r
          BY <3>1, <3>7, <4>1
      <4> QED BY <1>3, <2>1, <2>4, <3>7, <4>1, <4>2 DEF OccurrenceOf
    <3>8. \A b \in Ids : Live(b)' => auto'[b].nextRunAt \in Occurrences[auto'[b].schedule] \cup {Never}
        BY <1>3, <3>4 DEF Live
    <3> QED BY <3>5, <3>6, <3>7, <3>8 DEF Served, Behind, Live
  <2> QED BY <1>7, <2>3, <2>4 DEF Request
<1> QED BY <1>6, <1>7

\* The run that is requested is new, or one that this process has not handled.
LEMMA RequestFresh ==
    ASSUME TypeOK, Known, Passing, Served, NEW r \in RunIds, Request(r)
    PROVE  /\ sent[r] = 0 /\ job[r].pc # "precheck"
           /\ restarts = 0 => r > nRun
<1>1. sent[r] \in Nat /\ nRun \in Nat /\ restarts \in Nat
    BY Types, LimitAssumption
<1>2. r > nRun => sent[r] = 0 /\ job[r].pc # "precheck"
    BY Constants DEF Known
<1>3. CASE \E a \in Ids : Requested(a, now, "manual", r, "call")
    BY <1>1, <1>2, <1>3 DEF Requested
<1>4. ASSUME NEW a \in pass.left, a \in Ids, pass.pc = "next", OccurrenceOf(a) \in 0..MaxTime,
             Requested(a, OccurrenceOf(a), "scheduled", r, "pass"), ~(r > nRun)
      PROVE  ~Handled(r)
  <2>1. run[r].stored /\ run[r].auto = a /\ run[r].trigger = "scheduled" /\ run[r].scheduledFor = OccurrenceOf(a)
      BY <1>1, <1>4 DEF Requested, SameRun
  <2>2. Handled(r) => OccurrenceOf(a) < OccurrenceOf(a)
      BY <1>4, <2>1 DEF Served, Scheduled
  <2>3. OccurrenceOf(a) \in Nat
      BY <1>4, Moments
  <2> QED BY <2>2, <2>3
<1>5. ~Handled(r) => sent[r] = 0 /\ job[r].pc # "precheck" /\ restarts # 0
    BY <1>1 DEF Handled
<1> QED BY <1>2, <1>3, <1>4, <1>5 DEF Request

LEMMA NextOnce ==
    ASSUME TypeOK, Known, Numbered, Passing, Served, Once, [Next]_vars
    PROVE  Once'
<1>1. /\ job \in [RunIds -> Job] /\ sent \in [RunIds -> Nat]
      /\ \A r \in RunIds : sent[r] <= 1 /\ (job[r].pc = "precheck" => sent[r] = 0)
    BY Types DEF Once
<1>2. CASE UNCHANGED sent /\ (UNCHANGED job \/ Unmount)
    BY <1>1, <1>2, Constants DEF Once, Unmount
<1>3. ASSUME NEW r \in RunIds, Local(r), sent' = sent
      PROVE  Once'
  <2>1. /\ \A q \in RunIds : q # r => job'[q] = job[q]
        /\ job'[r].pc = "precheck" => job[r].pc = "precheck"
      BY <1>3 DEF Local
  <2> QED BY <1>1, <1>3, <2>1 DEF Once
<1>4. ASSUME NEW r \in RunIds, HeadlessPrecheck(r) \/ HeadlessLaunch(r)
      PROVE  Once'
  <2>1. Local(r)
      BY <1>4, HeadlessLocal
  <2>2. CASE sent' = sent
      BY <1>3, <2>1, <2>2
  <2>3. CASE job'[r].pc = "launching" /\ job[r].pc = "precheck" /\ sent'[r] = sent[r] + 1
    <3>1. \A q \in RunIds : q # r => job'[q] = job[q] /\ sent'[q] = sent[q]
        BY <2>1 DEF Local
    <3> QED BY <1>1, <2>3, <3>1 DEF Once
  <2> QED BY <1>4, <2>2, <2>3, HeadlessLocal
<1>5. ASSUME NEW r \in RunIds, Request(r)
      PROVE  Once'
  <2>1. PICK a \in Ids, t \in 0..MaxTime, trigger \in {"scheduled", "manual"}, by \in {"pass", "call"} :
           Asked(r, a, t, trigger, by)
      BY <1>5, RequestAsks
  <2>2. sent[r] = 0 /\ job[r].pc # "precheck"
      BY <1>5, RequestFresh
  <2>3. \A q \in RunIds : q # r => job'[q] = job[q] /\ sent'[q] = sent[q]
      BY <1>5, RequestRows
  <2>4. \/ job'[r] = job[r] /\ sent'[r] = sent[r]
        \/ sent'[r] = sent[r]
        \/ /\ sent'[r] = sent[r] + 1
           /\ job'[r].pc # "precheck"
    <3>1. [NoJob EXCEPT !.pc = "requested"].pc = "requested"
        BY DEF NoJob
    <3> QED BY <1>1, <2>1, <2>2, <3>1 DEF Asked, Requested
  <2> QED BY <1>1, <2>2, <2>3, <2>4 DEF Once
<1>6. CASE Restart
  <2>1. \A q \in RunIds : sent'[q] = 0
      BY <1>6 DEF Restart
  <2> QED BY <2>1 DEF Once
<1>7. \A a \in Ids : DeleteAutomation(a) => UNCHANGED <<sent, job>>
    BY DEF DeleteAutomation
<1>8. \A r \in RunIds : Report(r) => Local(r) /\ sent' = sent
    BY ReportLocal
<1>9. \A c \in collect : CollectEnds(c) => UNCHANGED <<sent, job>>
    BY CollectLocal
<1>10. Unmount => UNCHANGED sent
    BY DEF Unmount
<1> QED BY <1>2, <1>3, <1>4, <1>5, <1>6, <1>7, <1>8, <1>9, <1>10, Kinds DEF Quiet

-----------------------------------------------------------------------------
(* What the runs check.                                                    *)

LEMMA NextOneRun ==
    ASSUME TypeOK, Known, Numbered, Passing, OneRunPerOccurrence, [Next]_vars
    PROVE  OneRunPerOccurrence'
<1>1. \A r, q \in RunIds :
        /\ run[r].stored /\ run[q].stored /\ run[r].auto = run[q].auto
        /\ run[r].trigger = "scheduled" /\ run[q].trigger = "scheduled"
        /\ run[r].scheduledFor = run[q].scheduledFor
        => r = q
    BY DEF OneRunPerOccurrence
<1>2. CASE NoneAsked
    BY <1>1, <1>2 DEF NoneAsked, Stays, SameRun, OneRunPerOccurrence
<1>3. CASE OneAsked
  <2>1. PICK n \in RunIds, a \in Ids, t \in 0..MaxTime, trigger \in {"scheduled", "manual"},
             by \in {"pass", "call"} :
           Asked(n, a, t, trigger, by) /\ \A q \in RunIds : q # n => Stays(q) /\ Rests(q)
      BY <1>3 DEF OneAsked
  <2>2. \A q \in RunIds : q # n => SameRun(run'[q], run[q]) /\ (run'[q].stored => run[q].stored)
      BY <2>1 DEF Stays
  <2>3. CASE run[n].stored /\ SameRun(run'[n], run[n])
      BY <1>1, <2>2, <2>3 DEF SameRun, OneRunPerOccurrence
  <2>4. CASE /\ run'[n].auto = a /\ run'[n].trigger = trigger /\ run'[n].scheduledFor = t
             /\ trigger = "scheduled" =>
                \A q \in RunIds : ~(/\ run[q].stored /\ run[q].auto = a
                                    /\ run[q].trigger = "scheduled" /\ run[q].scheduledFor = t)
      BY <1>1, <2>2, <2>4 DEF SameRun, OneRunPerOccurrence
  <2> QED BY <2>1, <2>3, <2>4 DEF Asked, Requested
<1> QED BY <1>2, <1>3, RowSteps

LEMMA NextLate ==
    ASSUME TypeOK, Known, Numbered, Passing, LateResultsLand, [Next]_vars
    PROVE  LateResultsLand'
<1>1. /\ \A q \in RunIds : job[q].pc # "none" => run[q].auto \in Ids /\ auto[run[q].auto].life # "new"
      /\ \A a \in Ids : auto[a].life # "new" /\ auto'[a].life = "live" => auto[a].life = "live"
    BY Exists, Lives DEF Known
<1>2. \A q \in RunIds : job[q].pc # "none" /\ run[q].status \in Open /\ auto[run[q].auto].life = "live"
                            => run[q].stored
    BY DEF LateResultsLand, Live
\* A run that was driven before, and is neither deleted nor evicted.
<1>3. ASSUME NEW q \in RunIds, job'[q].pc # "none", run'[q].status \in Open,
             auto'[run'[q].auto].life = "live",
             job[q].pc # "none", run'[q].auto = run[q].auto,
             \/ run'[q].stored = run[q].stored /\ (run'[q].status # run[q].status => run[q].stored)
             \/ run'[q].status = run[q].status /\ Stays(q)
      PROVE  run'[q].stored
  <2>1. auto[run[q].auto].life = "live"
      BY <1>1, <1>3
  <2>2. CASE run'[q].stored = run[q].stored /\ (run'[q].status # run[q].status => run[q].stored)
      BY <1>2, <1>3, <2>1, <2>2
  <2>3. CASE run'[q].status = run[q].status /\ Stays(q)
    <3>1. run[q].stored /\ run[q].status \notin Final
        BY <1>2, <1>3, <2>1, <2>3 DEF Open, Final
    <3> QED BY <1>3, <2>3, <3>1 DEF Stays
  <2> QED BY <1>3, <2>2, <2>3
<1>4. ASSUME NEW r \in RunIds, Local(r)
      PROVE  LateResultsLand'
  <2>1. \A q \in RunIds : /\ job'[q].pc # "none" => job[q].pc # "none"
                          /\ run'[q].auto = run[q].auto /\ run'[q].stored = run[q].stored
                          /\ run'[q].status # run[q].status => run[q].stored
      BY <1>4 DEF Local, SameRun
  <2> QED BY <1>3, <2>1 DEF LateResultsLand, Live
<1>5. ASSUME NEW r \in RunIds, Request(r)
      PROVE  LateResultsLand'
  <2>1. PICK a \in Ids, t \in 0..MaxTime, trigger \in {"scheduled", "manual"}, by \in {"pass", "call"} :
           Asked(r, a, t, trigger, by)
      BY <1>5, RequestAsks
  <2>2. run'[r].stored /\ \A q \in RunIds : q # r => Stays(q)
      BY <2>1 DEF Asked, Requested, Evicted, Stays
  <2>3. \A q \in RunIds : q # r => job'[q] = job[q] /\ run'[q].status = run[q].status
                                   /\ run'[q].auto = run[q].auto
      BY <1>5, RequestRows DEF SameRun
  <2> QED BY <1>3, <2>2, <2>3 DEF LateResultsLand, Live
<1>6. Unmount \/ Restart => LateResultsLand'
    BY Constants DEF Unmount, Restart, LateResultsLand
<1>7. Quiet => LateResultsLand'
  <2> SUFFICES ASSUME Quiet PROVE LateResultsLand'
      OBVIOUS
  <2>1. UNCHANGED <<run, job>>
      BY DEF Quiet
  <2> QED BY <1>3, <2>1 DEF LateResultsLand, Live
<1>8. ASSUME NEW a \in Ids, DeleteAutomation(a) PROVE LateResultsLand'
  <2>1. UNCHANGED job /\ auto'[a].life = "deleted"
      BY <1>8, Types DEF DeleteAutomation, Automation
  <2>2. \A q \in RunIds : run[q] \in Row
      BY Types DEF Table
  <2>3. ASSUME NEW q \in RunIds
        PROVE  /\ run'[q].auto = run[q].auto /\ run'[q].status = run[q].status
               /\ run[q].auto # a => run'[q].stored = run[q].stored
      BY <1>8, <2>2, <2>3 DEF DeleteAutomation, Row
  <2> QED BY <1>3, <2>1, <2>3 DEF LateResultsLand, Live
<1>9. \A r \in RunIds : Report(r) \/ HeadlessPrecheck(r) \/ HeadlessLaunch(r) => Local(r)
    BY ReportLocal, HeadlessLocal
<1>10. \A c \in collect : CollectEnds(c) => c.run \in RunIds /\ Local(c.run)
    BY CollectLocal
<1> QED BY <1>4, <1>5, <1>6, <1>7, <1>8, <1>9, <1>10, Kinds

\* Staged, for one run, and what it says of it in the next state.
StagedRun(r) ==
    /\ Skipped(r) => agent[r] = "none" /\ job[r].pc = "none"
    /\ job[r].pc \in {"precheck", "requested", "launching"} =>
          /\ agent[r] = "none" /\ run[r].status \in Open /\ ~Collected(r)
          /\ ~serve => run[r].status = "dispatching"
    /\ job[r].pc \in {"running", "collecting"} /\ ~job[r].marked /\ ~serve =>
          /\ run[r].status = "dispatching" /\ ~Collected(r)
          /\ agent[r] \in {"live", "early", "failed"}

\* A report of the final status s, of a run that has an agent or is not shown as skipped.
LEMMA Ended ==
    ASSUME TypeOK, NEW r \in RunIds, NEW s \in {"skipped", "completed", "dispatch_failed"},
           NEW by \in {"hook", "page", "main"},
           MarkDispatchResult(r, s, by), ~Skipped(r)
    PROVE  Skipped(r)' => s = "skipped"
<1>1. /\ run'[r].status = IF run[r].stored THEN s ELSE run[r].status
      /\ \A c \in collect' \ collect : c.run = r /\ c.status = s
  <2>1. s \in Open \cup Final
      BY DEF Open, Final
  <2> QED BY <2>1, Reports
<1> QED BY <1>1 DEF Skipped

LEMMA ReportStaged ==
    ASSUME TypeOK, Known, NEW r \in RunIds, Report(r), StagedRun(r)
    PROVE  StagedRun(r)'
<1>1. job[r] \in Job /\ agent[r] \in Ends /\ job \in [RunIds -> Job] /\ agent \in [RunIds -> Ends]
    BY Types
<1>2. serve' = serve
    BY ReportLocal DEF Local
<1>3. job[r].pc # "none" \/ agent[r] # "none" => ~Skipped(r)
    BY DEF StagedRun
\* What drove the run is gone.
<1>4. ASSUME job'[r].pc = "none", ~Skipped(r)'
      PROVE  StagedRun(r)'
    BY <1>4 DEF StagedRun
<1>5. ASSUME NEW s \in {"completed", "dispatch_failed"}, NEW by \in {"hook", "page", "main"},
             MarkDispatchResult(r, s, by), SetJob(r, "none"), ~Skipped(r)
      PROVE  StagedRun(r)'
  <2>1. job'[r].pc = "none"
      BY <1>5, JobSet, Constants
  <2>2. ~Skipped(r)'
      BY <1>5, Ended
  <2> QED BY <1>4, <2>1, <2>2
<1>6. CASE HookPrepares(r)
  <2>1. job[r].pc = "requested" /\ agent' = agent
      BY <1>6 DEF HookPrepares
  <2>2. CASE SetJob(r, "launching") /\ UNCHANGED <<run, collect>>
    <3>1. job'[r].pc = "launching"
        BY <2>2, JobSet
    <3>2. Skipped(r)' = Skipped(r) /\ Collected(r)' = Collected(r)
        BY <2>2 DEF Skipped, Collected
    <3> QED BY <1>2, <1>3, <2>1, <2>2, <3>1, <3>2 DEF StagedRun
  <2>3. ASSUME NEW s \in {"skipped", "dispatch_failed"}, SetJob(r, "none")
        PROVE  StagedRun(r)'
    <3>1. job'[r].pc = "none" /\ agent'[r] = "none"
        BY <2>1, <2>3, JobSet, Constants DEF StagedRun
    <3> QED BY <3>1 DEF StagedRun
  <2> QED BY <1>6, <2>2, <2>3 DEF HookPrepares
<1>7. CASE HookLaunches(r)
  <2>1. job[r].pc = "launching" /\ ~serve
      BY <1>7 DEF HookLaunches
  <2>2. CASE HookFails(r)
      BY <1>3, <1>5, <2>1, <2>2 DEF HookFails
  <2>3. CASE agent' = [agent EXCEPT ![r] = "live"] /\ SetJob(r, "running") /\ UNCHANGED <<run, collect>>
    <3>1. job'[r].pc = "running" /\ agent'[r] = "live"
        BY <1>1, <2>3, JobSet
    <3>2. Skipped(r)' = Skipped(r) /\ Collected(r)' = Collected(r)
        BY <2>3 DEF Skipped, Collected
    <3> QED BY <1>2, <1>3, <2>1, <2>3, <3>1, <3>2 DEF StagedRun
  <2> QED BY <1>7, <2>2, <2>3 DEF HookLaunches
<1>8. CASE HookMarks(r)
  <2>1. /\ ~serve /\ job[r].pc \in {"running", "collecting"} /\ ~job[r].marked /\ agent' = agent
        /\ run[r].stored \in BOOLEAN
      BY <1>8, Types DEF HookMarks, Table, Row
  <2>2. CASE run[r].stored
    <3>1. MarkDispatchResult(r, "dispatched", "hook") /\ job' = [job EXCEPT ![r].marked = TRUE]
        BY <1>8, <2>2 DEF HookMarks
    <3>2. run'[r].status = "dispatched" /\ \A c \in collect' : c.run = r => c \in collect
      <4>1. "dispatched" \in Open \cup Final /\ "dispatched" \notin Final
          BY DEF Open, Final
      <4>2. /\ run'[r].status = IF run[r].stored THEN "dispatched" ELSE run[r].status
            /\ \A c \in collect' \ collect : "dispatched" \in Final
          BY <3>1, <4>1, Reports
      <4> QED BY <2>2, <4>1, <4>2
    <3>3. job'[r].pc = job[r].pc /\ job'[r].marked
        BY <1>1, <3>1 DEF Job
    <3>4. ~Skipped(r)'
        BY <1>3, <2>1, <3>2 DEF Skipped
    <3> QED BY <2>1, <3>3, <3>4 DEF StagedRun
  <2>3. CASE ~run[r].stored
    <3>1. HookFails(r)
        BY <1>8, <2>3 DEF HookMarks
    <3> QED BY <1>3, <1>5, <2>1, <3>1 DEF HookFails
  <2> QED BY <2>1, <2>2, <2>3
<1>9. CASE HookCompletes(r)
  <2>1. /\ job[r].pc = "running" /\ job[r].marked /\ agent[r] # "none" /\ agent' = agent
        /\ \E s \in {"completed", "dispatch_failed"} : MarkDispatchResult(r, s, "hook")
        /\ \E pc \in {"none", "collecting"} : SetJob(r, pc)
      BY <1>9 DEF HookCompletes, MayComplete
  <2>2. ~Skipped(r)'
      BY <1>3, <2>1, Ended
  <2>3. job'[r].pc = "none" \/ (job'[r].pc = "collecting" /\ job'[r].marked)
      BY <2>1, JobSet, Constants
  <2> QED BY <2>2, <2>3 DEF StagedRun
<1>10. CASE HookRetires(r)
  <2>1. job[r].pc = "collecting" /\ SetJob(r, "none")
      BY <1>10 DEF HookRetires
  <2>2. CASE MarkDispatchResult(r, "completed", "hook")
      BY <1>3, <1>5, <2>1, <2>2
  <2>3. CASE UNCHANGED <<run, collect>>
    <3>1. ~Skipped(r)' /\ job'[r].pc = "none"
        BY <1>3, <2>1, <2>3, JobSet, Constants DEF Skipped
    <3> QED BY <1>4, <3>1
  <2> QED BY <1>10, <2>2, <2>3 DEF HookRetires
<1>11. CASE PageCompletes(r)
  <2>1. agent[r] = "done" /\ UNCHANGED <<agent, job>> /\ MarkDispatchResult(r, "completed", "page")
      BY <1>11 DEF PageCompletes
  <2>2. ~Skipped(r)'
      BY <1>3, <2>1, Ended
  <2>3. job[r].pc \notin {"precheck", "requested", "launching"}
        /\ ~(job[r].pc \in {"running", "collecting"} /\ ~job[r].marked /\ ~serve)
      BY <2>1 DEF StagedRun
  <2> QED BY <1>2, <2>1, <2>2, <2>3 DEF StagedRun
<1>12. CASE AgentEnds(r)
  <2>1. /\ agent[r] = "live" /\ UNCHANGED <<run, job, collect>>
        /\ agent'[r] \in {"failed", IF run[r].status = "dispatched" THEN "done" ELSE "early"}
      BY <1>1, <1>12 DEF AgentEnds
  <2>2. ~Skipped(r)' /\ Collected(r)' = Collected(r)
      BY <1>3, <2>1 DEF Skipped, Collected
  <2> QED BY <1>2, <2>1, <2>2 DEF StagedRun
<1>13. CASE HeadlessCompletes(r)
  <2>1. /\ job[r].pc = "running" /\ SetJob(r, "none")
        /\ \E s \in {"completed", "dispatch_failed"} : MarkDispatchResult(r, s, "main")
      BY <1>13 DEF HeadlessCompletes
  <2> QED BY <1>3, <1>5, <2>1
<1> QED BY <1>6, <1>7, <1>8, <1>9, <1>10, <1>11, <1>12, <1>13 DEF Report

LEMMA RestsStaged ==
    ASSUME NEW q, Rests(q), StagedRun(q), serve' = serve
    PROVE  StagedRun(q)'
<1>1. (Skipped(q)' => Skipped(q)) /\ (Collected(q)' => Collected(q))
    BY DEF Rests, Skipped, Collected
<1>2. CASE job'[q] = job[q]
    BY <1>1, <1>2 DEF Rests, StagedRun
<1>3. CASE job'[q] = NoJob
    BY <1>1, <1>3, Constants DEF Rests, StagedRun
<1> QED BY <1>2, <1>3 DEF Rests

LEMMA HeadlessStaged ==
    ASSUME TypeOK, Known, Passing, NEW r \in RunIds, HeadlessPrecheck(r) \/ HeadlessLaunch(r),
           StagedRun(r)
    PROVE  StagedRun(r)'
<1>1. /\ collect' = collect /\ serve /\ serve' = serve /\ job[r].pc \in {"precheck", "launching"}
    BY HeadlessLocal DEF Local
<1>2. /\ agent[r] = "none" /\ run[r].status \in Open /\ ~Collected(r) /\ ~Skipped(r)
      /\ ~Collected(r)'
    BY <1>1 DEF StagedRun, Collected
<1>3. Skipped(r)' => run'[r].status = "skipped"
    BY <1>2 DEF Skipped, Collected
<1>4. CASE job'[r].pc = "launching" /\ run' = run /\ agent' = agent
    BY <1>1, <1>2, <1>3, <1>4 DEF StagedRun, Open
<1>5. CASE job'[r].pc = "none" /\ agent' = agent
    BY <1>2, <1>5 DEF StagedRun
<1>6. CASE /\ job'[r].pc \in {"none", "running"}
           /\ run[r].stored => run'[r].status = "dispatched"
           /\ ~run[r].stored => run'[r].status = run[r].status
    BY <1>1, <1>2, <1>3, <1>6 DEF StagedRun, Open
<1> QED BY <1>4, <1>5, <1>6, HeadlessLocal

LEMMA NextStaged ==
    ASSUME TypeOK, Known, Numbered, Passing, Served, Staged, [Next]_vars
    PROVE  Staged'
<1> SUFFICES ASSUME restarts' = 0 PROVE \A q \in RunIds : StagedRun(q)'
    BY DEF Staged, StagedRun
<1>1. /\ serve' = serve /\ run \in Table /\ job \in [RunIds -> Job]
      /\ restarts \in Nat
    BY ServeStays, Types
<1>2. ASSUME restarts' = restarts
      PROVE  \A q \in RunIds : StagedRun(q)
    BY <1>2 DEF Staged, StagedRun
<1>3. ASSUME NEW r \in RunIds, Local(r)
      PROVE  \A q \in RunIds : q # r => StagedRun(q)'
  <2>1. \A q \in RunIds : q # r => Rests(q)
      BY <1>3 DEF Local, Rests
  <2>2. restarts' = restarts
      BY <1>3 DEF Local
  <2> QED BY <1>1, <1>2, <2>1, <2>2, RestsStaged
<1>4. ASSUME restarts' = restarts, \A q \in RunIds : Rests(q)
      PROVE  \A q \in RunIds : StagedRun(q)'
    BY <1>1, <1>2, <1>4, RestsStaged
<1>5. CASE Quiet \/ Unmount
    BY <1>4, <1>5 DEF Quiet, Unmount, Rests
<1>6. ASSUME NEW a \in Ids, DeleteAutomation(a)
      PROVE  \A q \in RunIds : StagedRun(q)'
  <2>1. UNCHANGED <<job, sent, agent, collect, restarts>>
      BY <1>6 DEF DeleteAutomation, Edit
  <2>2. \A q \in RunIds : run'[q].status = run[q].status
      BY <1>1, <1>6 DEF DeleteAutomation, Table, Row
  <2> QED BY <1>4, <2>1, <2>2 DEF Rests
<1>7. ASSUME NEW r \in RunIds, Report(r)
      PROVE  \A q \in RunIds : StagedRun(q)'
  <2>1. Local(r) /\ restarts' = restarts
      BY <1>7, ReportLocal DEF Local
  <2>2. StagedRun(r)'
      BY <1>2, <1>7, <2>1, ReportStaged
  <2> QED BY <1>3, <2>1, <2>2
<1>8. ASSUME NEW r \in RunIds, HeadlessPrecheck(r) \/ HeadlessLaunch(r)
      PROVE  \A q \in RunIds : StagedRun(q)'
  <2>1. Local(r) /\ restarts' = restarts
      BY <1>8, HeadlessLocal DEF Local
  <2>2. StagedRun(r)'
      BY <1>2, <1>8, <2>1, HeadlessStaged
  <2> QED BY <1>3, <2>1, <2>2
<1>9. ASSUME NEW c \in collect, CollectEnds(c)
      PROVE  \A q \in RunIds : StagedRun(q)'
  <2> DEFINE r == c.run
  <2>1. /\ r \in RunIds /\ Local(r) /\ UNCHANGED <<job, agent>>
        /\ collect' = collect \ {c}
        /\ run'[r].status = IF run[r].stored THEN c.status ELSE run[r].status
      BY <1>9, CollectLocal
  <2>2. StagedRun(r) /\ Collected(r)
      BY <1>2, <2>1 DEF Local, Collected
  <2>3. Skipped(r)' => Skipped(r)
      BY <2>1 DEF Skipped
  <2>4. StagedRun(r)'
      BY <1>1, <2>1, <2>2, <2>3 DEF StagedRun
  <2> QED BY <1>3, <2>1, <2>4
<1>10. ASSUME NEW r \in RunIds, Request(r)
      PROVE  \A q \in RunIds : StagedRun(q)'
  <2>1. restarts' = restarts /\ UNCHANGED <<agent, collect, serve>>
      BY <1>10, RequestLeaves
  <2>2. r > nRun
      BY <1>10, <2>1, RequestFresh
  <2>3. agent[r] = "none" /\ job[r] = NoJob /\ ~Collected(r)
      BY <2>2 DEF Known, Collected
  <2>4. PICK a \in Ids, t \in 0..MaxTime, trigger \in {"scheduled", "manual"}, by \in {"pass", "call"} :
           Asked(r, a, t, trigger, by)
      BY <1>10, RequestAsks
  <2>5. agent'[r] = "none" /\ ~Collected(r)'
      BY <2>1, <2>3 DEF Collected
  <2>6. \/ job'[r] = NoJob
        \/ /\ job'[r].pc = "precheck" /\ serve /\ run'[r].status = "pending"
        \/ /\ job'[r].pc = "requested" /\ run'[r].status = "dispatching"
    <3>1. [NoJob EXCEPT !.pc = "precheck", !.by = by].pc = "precheck"
        BY DEF NoJob
    <3>2. [NoJob EXCEPT !.pc = "requested"].pc = "requested"
        BY DEF NoJob
    <3> DEFINE x == [NoJob EXCEPT !.pc = "precheck", !.by = by]
               y == [NoJob EXCEPT !.pc = "requested"]
    <3>3. \/ UNCHANGED job
          \/ serve /\ run'[r].status = "pending" /\ job' = [job EXCEPT ![r] = x]
          \/ run'[r].status = "dispatching" /\ job' \in {job, [job EXCEPT ![r] = y]}
        BY <2>2, <2>4 DEF Asked, Requested
    <3> HIDE DEF x, y
    <3> QED BY <1>1, <2>3, <3>1, <3>2, <3>3 DEF x, y
  <2>7. StagedRun(r)'
      BY <1>1, <2>5, <2>6, Constants DEF StagedRun, Skipped, Collected, Open
  <2>8. ASSUME NEW q \in RunIds, q # r PROVE StagedRun(q)'
    <3>1. Rests(q)
        BY <1>10, <2>1, <2>8, RequestRows DEF Rests
    <3> QED BY <1>1, <1>2, <2>1, <3>1, RestsStaged
  <2> QED BY <2>7, <2>8
<1>11. ~Restart
    BY <1>1 DEF Restart
<1> QED BY <1>5, <1>6, <1>7, <1>8, <1>9, <1>10, <1>11, Kinds

FinalKept ==
    \A r \in RunIds : run[r].stored /\ run[r].status \in Final /\ restarts = 0
        => run'[r].status \in Final

LEMMA NextFinal ==
    ASSUME TypeOK, Known, Numbered, Passing, Served, Staged, [Next]_vars
    PROVE  FinalKept
<1> SUFFICES ASSUME restarts = 0, NEW q \in RunIds, run[q].stored, run[q].status \in Final
             PROVE  run'[q].status \in Final
    BY DEF FinalKept
<1>1. StagedRun(q) /\ run \in Table /\ run[q].status \notin Open
    BY Types DEF Staged, StagedRun, Final, Open
<1>2. CASE Quiet \/ Unmount
    BY <1>2 DEF Quiet, Unmount
<1>3. CASE Restart
  <2>1. Evicted(run, run', q)
      BY <1>1, <1>3, Pruned DEF Restart
  <2> QED BY <2>1 DEF Evicted
<1>4. ASSUME NEW a \in Ids, DeleteAutomation(a) PROVE run'[q].status \in Final
    BY <1>1, <1>4 DEF DeleteAutomation, Table, Row
<1>5. ASSUME NEW r \in RunIds, Local(r), r # q PROVE run'[q].status \in Final
    BY <1>5 DEF Local
<1>6. ASSUME Report(q) PROVE run'[q].status \in Final
  <2>1. ~HookMarks(q) \/ UNCHANGED run \/ MarkDispatchResult(q, "dispatch_failed", "hook")
    <3>1. HookMarks(q) => ~run[q].stored
        BY <1>1 DEF HookMarks, StagedRun, Open
    <3> QED BY <3>1
  <2>2. \/ UNCHANGED run
        \/ \E s \in Final : \E by \in {"hook", "page", "main"} : MarkDispatchResult(q, s, by)
      BY <1>6, <2>1 DEF Report, HookPrepares, HookLaunches, HookCompletes, HookRetires, HookFails,
           PageCompletes, AgentEnds, HeadlessCompletes, Final
  <2>3. ASSUME NEW s \in Final, NEW by \in {"hook", "page", "main"}, MarkDispatchResult(q, s, by)
        PROVE  run'[q].status \in Final
      BY <2>3, Reports
  <2> QED BY <2>2, <2>3
<1>7. ASSUME HeadlessPrecheck(q) \/ HeadlessLaunch(q) PROVE FALSE
  <2>1. job[q].pc \in {"precheck", "launching"}
      BY <1>7, HeadlessLocal
  <2> QED BY <1>1, <2>1 DEF StagedRun
<1>8. ASSUME NEW c \in collect, CollectEnds(c) PROVE run'[q].status \in Final
  <2>1. /\ c.run \in RunIds /\ Local(c.run) /\ c.status \in Final
        /\ run'[c.run].status = IF run[c.run].stored THEN c.status ELSE run[c.run].status
      BY <1>8, CollectLocal
  <2> QED BY <1>5, <2>1
<1>9. ASSUME NEW r \in RunIds, Request(r) PROVE run'[q].status \in Final
  <2>1. r > nRun /\ q <= nRun
      BY <1>9, RequestFresh, Exists
  <2>2. q # r
      BY <2>1, Numbers, Types, LimitAssumption
  <2> QED BY <1>9, <2>2, RequestRows
<1>10. \A r \in RunIds : Report(r) \/ HeadlessPrecheck(r) \/ HeadlessLaunch(r) => Local(r)
    BY ReportLocal, HeadlessLocal
<1> QED BY <1>2, <1>3, <1>4, <1>5, <1>6, <1>7, <1>8, <1>9, <1>10, Kinds

-----------------------------------------------------------------------------
(* The theorems.                                                           *)

AutomationsInv == TypeOK /\ Known /\ Numbered /\ Passing /\ Served /\ Once /\ Staged

LEMMA Invariant == Spec => []AutomationsInv
<1>1. Init => AutomationsInv
    BY InitTyped, InitKnown, InitServed DEF AutomationsInv
<1>2. AutomationsInv /\ [Next]_vars => AutomationsInv'
    BY NextTyped, NextKnown, NextNumbered, NextPassing, NextServed, NextOnce, NextStaged
       DEF AutomationsInv
<1> QED BY <1>1, <1>2, PTL DEF Spec

\* The state keeps its types: no pass, request, report, collection, edit, restart
\* or retention leaves a row, a pass or a job that is none.
THEOREM AutomationsTypeCorrect == Spec => []TypeOK
<1>1. AutomationsInv => TypeOK
    BY DEF AutomationsInv
<1> QED BY <1>1, Invariant, PTL

\* createAutomationRun gives an occurrence one run, whatever pass, restart or edit
\* comes between the creation and the advance of the schedule.
THEOREM OccurrencesRunOnce == Spec => []OneRunPerOccurrence
<1>1. Init => OneRunPerOccurrence
    BY DEF Init, OneRunPerOccurrence
<1>2. OneRunPerOccurrence /\ AutomationsInv /\ [Next]_vars => OneRunPerOccurrence'
    BY NextOneRun DEF AutomationsInv
<1> QED BY <1>1, <1>2, Invariant, PTL DEF Spec

\* No process dispatches a run twice: not after an awaited launch, an aborted pass,
\* or an edit that moved the schedule under a pass.
THEOREM NoSecondDispatch == Spec => []DispatchedOnce
<1>1. AutomationsInv => DispatchedOnce
    BY DEF AutomationsInv, Once, DispatchedOnce
<1> QED BY <1>1, Invariant, PTL

\* Retention leaves every open run that something still drives, so that
\* markDispatchResult finds its row.
THEOREM ResultsLand == Spec => []LateResultsLand
<1>1. Init => LateResultsLand
    BY Constants DEF Init, LateResultsLand
<1>2. LateResultsLand /\ AutomationsInv /\ [Next]_vars => LateResultsLand'
    BY NextLate DEF AutomationsInv
<1> QED BY <1>1, <1>2, Invariant, PTL DEF Spec

\* In the process that skipped it, a skipped run has no agent, although hook, page
\* and usage collections write statuses that they decided on before an await.
THEOREM SkippedHasNoAgent == Spec => []SkippedNeverRan
<1>1. AutomationsInv => SkippedNeverRan
    BY DEF AutomationsInv, Staged, Skipped, SkippedNeverRan
<1> QED BY <1>1, Invariant, PTL

\* In one process a final status is never followed by an open one.
THEOREM FinalStatusIsKept == Spec => FinalIsKept
<1>1. AutomationsInv /\ [Next]_vars => FinalKept
    BY NextFinal DEF AutomationsInv
<1>2. AutomationsInv /\ [Next]_vars
        => [\A r \in RunIds : run[r].stored /\ run[r].status \in Final /\ restarts = 0
               => run'[r].status \in Final]_vars
    BY <1>1 DEF FinalKept
<1> QED BY <1>2, Invariant, PTL DEF Spec, FinalIsKept

\* nextAutomationRunNumber never issues a number again while the automation exists,
\* although it counts stored rows only: retention keeps the newest one.
THEOREM RunNumbersGrow ==
    Spec => [](\A r, q \in RunIds :
                  /\ q <= nRun /\ r < q
                  /\ run[r].auto = run[q].auto /\ Live(run[q].auto)
                  => run[r].number < run[q].number)
<1>1. AutomationsInv =>
         \A r, q \in RunIds : /\ q <= nRun /\ r < q
                              /\ run[r].auto = run[q].auto /\ Live(run[q].auto)
                              => run[r].number < run[q].number
    BY DEF AutomationsInv, Numbered
<1> QED BY <1>1, Invariant, PTL
=============================================================================
