-------------------------- MODULE Schedules_proofs --------------------------
(*****************************************************************************)
(* Proofs about schedules: what the poller guarantees for every number of    *)
(* schedules and processes and every bound on runs, requests and faults;     *)
(* what the PATCHes of a schedule leave in its row; what a run started by    *)
(* hand writes in the log; and which instant the next run of a recurring     *)
(* schedule is, for any zone, recurrence and calendar.                       *)
(*****************************************************************************)
EXTENDS Schedules, SchedulePatches, ManualTrigger, NextRun, FiniteSetTheorems, TLAPS

-----------------------------------------------------------------------------
(* What the schedule poller guarantees for every number of schedules and    *)
(* processes and every bound on runs, requests and faults.                  *)

\* The actions of Next, without the nesting.
LEMMA ScheduleActions ==
    ASSUME ScheduleNext
    PROVE  \/ \E s \in Schedules :
                CreateSchedule(s) \/ PatchSchedule(s) \/ DeleteSchedule(s) \/ BecomesDue(s)
           \/ \E p \in Pollers : Poll(p) \/ Commit(p) \/ TickFails(p) \/ AckLost(p)
           \/ \E p \in Pollers, s \in Schedules :
                \/ FetchFails(p, s)
                \/ RunSchedule(p, s)
                \/ RunThrows(p, s)
                \/ SqlError(p, s)
                \/ Enqueue(p, s)
                \/ EnqueueFails(p, s)
BY DEF ScheduleNext, PollerStep

\* A row a transaction holds is the one it claimed, and nobody else holds it.
LockInv ==
    \A p \in Pollers, s \in Schedules : work[p][s] # "unlocked" =>
        /\ status[s] = "active"
        /\ due[s]
        /\ \A q \in Pollers : work[q][s] # "unlocked" => q = p

\* A run is spent once a transaction that ran it was committed.
Spent(s, k) == k < run[s] \/ (k = run[s] /\ status[s] \in {"completed", "deleted"})

Kept(s, k) == Exists(s) => k \in logged[s]

\* A schedule that does not exist yet has not run.
FreshInv == \A s \in Schedules : status[s] = "none" => run[s] = 1

\* Jobs collected in a transaction are for the run it writes.
CollectedInv ==
    \A p \in Pollers, s \in Schedules :
        tick[p] \in {"open", "aborted"} /\ jobs[p][s] > 0
            => work[p][s] = "ran" /\ jobs[p][s] = run[s]

\* Jobs about to be enqueued are for a spent run that nobody enqueued yet or
\* is going to.
CommittedInv ==
    \A p \in Pollers, s \in Schedules :
        tick[p] = "enqueuing" /\ jobs[p][s] > 0 /\ <<s, jobs[p][s]>> \notin ghosts =>
            /\ Spent(s, jobs[p][s])
            /\ sent[s][jobs[p][s]] = 0
            /\ Kept(s, jobs[p][s])
            /\ \A q \in Pollers : tick[q] = "enqueuing" /\ jobs[q][s] = jobs[p][s] => q = p

\* A run that was enqueued is spent.
SentInv ==
    \A s \in Schedules, k \in Runs :
        sent[s][k] > 0 /\ <<s, k>> \notin ghosts => Spent(s, k) /\ Kept(s, k)

BaseInv == ScheduleTypeOK /\ LockInv
SendInv == FreshInv /\ CollectedInv /\ CommittedInv /\ SentInv /\ RunsAreSentOnce

-----------------------------------------------------------------------------
(* Type correctness, and the row locks *)

LEMMA BaseInit == ScheduleInit => BaseInv
BY ScheduleAssumption
   DEF ScheduleInit, BaseInv, ScheduleTypeOK, LockInv, Nothing, NoJobs, Runs, Works

\* What a committed transaction makes of the rows.
LEMMA ApplyType ==
    ASSUME BaseInv, NEW p \in Pollers, Apply(p)
    PROVE  /\ status' \in [Schedules -> Statuses \cup {"none", "deleted"}]
           /\ due' \in [Schedules -> BOOLEAN]
           /\ retry_count' \in [Schedules -> 0 .. max_retries]
           /\ run' \in [Schedules -> Runs]
           /\ \A s \in Schedules : due'[s] => run'[s] < MaxRuns
           /\ logged' \in [Schedules -> SUBSET Runs]
<1> USE ScheduleAssumption DEF BaseInv
<1>1. \A s \in Schedules : NextStatus(p, s) \in Statuses \cup {"none", "deleted"}
  BY DEF NextStatus, ScheduleTypeOK, Statuses
<1>2. \A s \in Schedules : RetryCount(p, s) \in 0 .. max_retries
  BY DEF RetryCount, ScheduleTypeOK
<1>3. ASSUME NEW s \in Schedules, Advances(p, s)
      PROVE  run[s] + 1 \in Runs
  <2>1. work[p][s] # "unlocked"
    BY <1>3 DEF Advances
  <2>2. due[s]
    BY <2>1 DEF LockInv
  <2>3. run[s] < MaxRuns /\ run[s] \in Runs
    BY <2>2 DEF ScheduleTypeOK
  <2>4. QED
    BY <2>3 DEF Runs
<1>4. \A s \in Schedules : Advances(p, s) \in BOOLEAN
  BY DEF Advances
<1>5. run' \in [Schedules -> Runs]
  BY <1>3 DEF Apply, ScheduleTypeOK
<1>6. due' \in [Schedules -> BOOLEAN]
  BY <1>4 DEF Apply, ScheduleTypeOK
<1>7. \A s \in Schedules : due'[s] => run'[s] < MaxRuns
  BY DEF Apply, ScheduleTypeOK
<1>8. logged' \in [Schedules -> SUBSET Runs]
  BY DEF Apply, ScheduleTypeOK
<1>9. QED
  BY <1>1, <1>2, <1>5, <1>6, <1>7, <1>8 DEF Apply

\* It changes the rows its poller holds, and no other.
LEMMA ApplyHeld ==
    ASSUME BaseInv, NEW p \in Pollers, Apply(p),
           NEW s \in Schedules, work[p][s] = "unlocked"
    PROVE  status'[s] = status[s] /\ due'[s] = due[s] /\ run'[s] = run[s]
           /\ logged'[s] = logged[s]
<1>1. NextStatus(p, s) = status[s] /\ ~Advances(p, s)
  BY DEF NextStatus, Advances
<1>2. due[s] \in BOOLEAN
  BY DEF BaseInv, ScheduleTypeOK
<1>3. QED
  BY <1>1, <1>2 DEF Apply

LEMMA EndType ==
    ASSUME BaseInv, NEW p \in Pollers, NEW next \in {"idle", "enqueuing"},
           EndTransaction(p, next)
    PROVE  /\ tick' \in [Pollers -> {"idle", "open", "aborted", "enqueuing"}]
           /\ work' \in [Pollers -> [Schedules -> Works]]
           /\ \A q \in Pollers : tick'[q] \in {"idle", "enqueuing"} => work'[q] = Nothing
BY DEF EndTransaction, BaseInv, ScheduleTypeOK, Nothing, Works

LEMMA BaseStep == BaseInv /\ [ScheduleNext]_scheduleVars => BaseInv'
<1> SUFFICES ASSUME BaseInv, [ScheduleNext]_scheduleVars
             PROVE  ScheduleTypeOK' /\ LockInv'
  BY DEF BaseInv
<1> USE ScheduleAssumption DEF BaseInv
<1> USE DEF rowVars, tickVars, historyVars, NoPatch, NoFault
<1>1. ASSUME NEW s \in Schedules, CreateSchedule(s)
      PROVE  ScheduleTypeOK' /\ LockInv'
  BY <1>1 DEF CreateSchedule, ScheduleTypeOK, LockInv, Statuses
<1>2. ASSUME NEW s \in Schedules, PatchSchedule(s)
      PROVE  ScheduleTypeOK' /\ LockInv'
  <2>1. status' \in [Schedules -> Statuses \cup {"none", "deleted"}]
    BY <1>2 DEF PatchSchedule, ScheduleTypeOK
  <2>2. run' \in [Schedules -> Runs] /\ \A x \in Schedules \ {s} : run'[x] = run[x]
    BY <1>2 DEF PatchSchedule, ScheduleTypeOK, Runs
  <2>3. PICK d \in BOOLEAN : (d => run'[s] < MaxRuns) /\ due' = [due EXCEPT ![s] = d]
    BY <1>2 DEF PatchSchedule, ScheduleTypeOK
  <2>4. due' \in [Schedules -> BOOLEAN] /\ \A x \in Schedules : due'[x] => run'[x] < MaxRuns
    BY <2>2, <2>3 DEF ScheduleTypeOK
  <2>5. patches' \in 0 .. MaxPatches
    BY <1>2 DEF PatchSchedule, ScheduleTypeOK
  <2>6. ScheduleTypeOK'
    BY <1>2, <2>1, <2>2, <2>4, <2>5 DEF PatchSchedule, ScheduleTypeOK
  <2>7. \A x \in Schedules \ {s} : status'[x] = status[x] /\ due'[x] = due[x]
    BY <1>2, <2>3 DEF PatchSchedule, ScheduleTypeOK
  <2>8. LockInv'
    BY <1>2, <2>7 DEF PatchSchedule, Locked, LockInv
  <2>9. QED
    BY <2>6, <2>8
<1>3. ASSUME NEW s \in Schedules, DeleteSchedule(s)
      PROVE  ScheduleTypeOK' /\ LockInv'
  BY <1>3 DEF DeleteSchedule, Locked, ScheduleTypeOK, LockInv
<1>4. ASSUME NEW s \in Schedules, BecomesDue(s)
      PROVE  ScheduleTypeOK' /\ LockInv'
  BY <1>4 DEF BecomesDue, ScheduleTypeOK, LockInv
<1>5. ASSUME NEW p \in Pollers, Poll(p)
      PROVE  ScheduleTypeOK' /\ LockInv'
  <2> DEFINE claimed == {s \in Schedules : IsDue(s) /\ ~Locked(s)}
  <2>1. work' = [work EXCEPT ![p] =
                   [s \in Schedules |-> IF s \in claimed THEN "claimed" ELSE "unlocked"]]
    BY <1>5 DEF Poll
  <2>2. work' \in [Pollers -> [Schedules -> Works]]
    BY <2>1 DEF ScheduleTypeOK, Works
  <2>3. \A q \in Pollers \ {p} : work'[q] = work[q]
    BY <2>1 DEF ScheduleTypeOK
  <2>4. \A s \in Schedules : work'[p][s] # "unlocked" =>
           status[s] = "active" /\ due[s] /\ \A q \in Pollers : work[q][s] = "unlocked"
    BY <2>1 DEF IsDue, Locked, ScheduleTypeOK
  <2>5. LockInv'
    BY <1>5, <2>3, <2>4 DEF Poll, LockInv
  <2>6. ScheduleTypeOK'
    BY <1>5, <2>2, <2>3 DEF Poll, ScheduleTypeOK
  <2>7. QED
    BY <2>5, <2>6
<1>6. ASSUME NEW p \in Pollers, NEW s \in Schedules,
             FetchFails(p, s) \/ RunSchedule(p, s) \/ RunThrows(p, s)
      PROVE  ScheduleTypeOK' /\ LockInv'
  <2>1. PICK r \in {"missed", "ran", "threw"} : Process(p, s, r)
    BY <1>6 DEF FetchFails, RunSchedule, RunThrows
  <2>2. jobs' \in [Pollers -> [Schedules -> Runs \cup {0}]]
    <3>1. CASE UNCHANGED jobs
      BY <3>1 DEF ScheduleTypeOK
    <3>2. CASE jobs' = [jobs EXCEPT ![p][s] = run[s]]
      <4>1. run[s] \in Runs \cup {0}
        BY DEF ScheduleTypeOK
      <4>2. QED
        BY <3>2, <4>1 DEF ScheduleTypeOK
    <3>3. QED
      BY <1>6, <3>1, <3>2 DEF FetchFails, RunSchedule, RunThrows
  <2>3. \A q \in Pollers \ {p} : jobs'[q] = jobs[q]
    BY <1>6 DEF FetchFails, RunSchedule, RunThrows, ScheduleTypeOK
  <2>4. faults' \in 0 .. MaxFaults
    BY <1>6 DEF FetchFails, RunSchedule, RunThrows, Fault, ScheduleTypeOK
  <2>5. ScheduleTypeOK'
    BY <2>1, <2>2, <2>3, <2>4 DEF Process, ScheduleTypeOK, Works
  <2>6. LockInv'
    BY <2>1 DEF Process, LockInv, ScheduleTypeOK
  <2>7. QED
    BY <2>5, <2>6
<1>7. ASSUME NEW p \in Pollers, NEW s \in Schedules, SqlError(p, s)
      PROVE  ScheduleTypeOK' /\ LockInv'
  BY <1>7 DEF SqlError, Fault, ScheduleTypeOK, LockInv
<1>8. ASSUME NEW p \in Pollers, Commit(p) \/ AckLost(p) \/ TickFails(p)
      PROVE  ScheduleTypeOK' /\ LockInv'
  <2>1. PICK next \in {"idle", "enqueuing"} : EndTransaction(p, next)
    BY <1>8 DEF Commit, AckLost, TickFails, Abandon
  <2>2. UNCHANGED rowVars \/ (Apply(p) /\ tick[p] = "open")
    BY <1>8 DEF Commit, AckLost, TickFails
  <2>3. \/ jobs' = [jobs EXCEPT ![p] = NoJobs]
        \/ jobs' = jobs /\ next = (IF jobs[p] = NoJobs THEN "idle" ELSE "enqueuing")
    <3>1. CASE Commit(p)
      BY <2>1, <3>1 DEF Commit, EndTransaction, ScheduleTypeOK
    <3>2. CASE AckLost(p) \/ TickFails(p)
      BY <3>2 DEF AckLost, TickFails, Abandon
    <3>3. QED
      BY <1>8, <3>1, <3>2
  <2>4. /\ jobs' \in [Pollers -> [Schedules -> Runs \cup {0}]]
        /\ \A q \in Pollers : tick'[q] = "idle" => jobs'[q] = NoJobs
    <3>1. NoJobs \in [Schedules -> Runs \cup {0}]
      BY DEF NoJobs
    <3>2. CASE jobs' = [jobs EXCEPT ![p] = NoJobs]
      BY <2>1, <3>1, <3>2 DEF EndTransaction, ScheduleTypeOK
    <3>3. CASE jobs' = jobs /\ next = (IF jobs[p] = NoJobs THEN "idle" ELSE "enqueuing")
      BY <2>1, <3>3 DEF EndTransaction, ScheduleTypeOK
    <3>4. QED
      BY <2>3, <3>2, <3>3
  <2>5. ghosts' \subseteq Schedules \X Runs
    <3>1. CASE UNCHANGED ghosts
      BY <3>1 DEF ScheduleTypeOK
    <3>2. CASE ghosts' = ghosts \cup {<<s, jobs[p][s]>> : s \in {x \in Schedules : jobs[p][x] > 0}}
      BY <3>2 DEF ScheduleTypeOK
    <3>3. QED
      BY <1>8, <3>1, <3>2 DEF Commit, AckLost, TickFails
  <2>6. sent' = sent /\ patches' = patches /\ faults' \in 0 .. MaxFaults
    BY <1>8 DEF Commit, AckLost, TickFails, Fault, ScheduleTypeOK
  <2>7. ScheduleTypeOK'
    <3>1. CASE UNCHANGED rowVars
      BY <2>1, <2>4, <2>5, <2>6, <3>1, EndType DEF ScheduleTypeOK
    <3>2. CASE Apply(p)
      BY <2>1, <2>4, <2>5, <2>6, <3>2, EndType, ApplyType DEF ScheduleTypeOK
    <3>3. QED
      BY <2>2, <3>1, <3>2
  <2>8. /\ \A s \in Schedules : work'[p][s] = "unlocked"
        /\ \A q \in Pollers \ {p} : work'[q] = work[q]
    BY <2>1 DEF EndTransaction, Nothing, ScheduleTypeOK
  <2>9. \A q \in Pollers \ {p}, s \in Schedules : work[q][s] # "unlocked" =>
           status'[s] = status[s] /\ due'[s] = due[s]
    <3>1. CASE UNCHANGED rowVars
      BY <3>1
    <3>2. CASE Apply(p)
      BY <3>2, ApplyHeld DEF LockInv
    <3>3. QED
      BY <2>2, <3>1, <3>2
  <2>10. LockInv'
    BY <2>8, <2>9 DEF LockInv
  <2>11. QED
    BY <2>7, <2>10
<1>9. ASSUME NEW p \in Pollers, NEW s \in Schedules, Enqueue(p, s) \/ EnqueueFails(p, s)
      PROVE  ScheduleTypeOK' /\ LockInv'
  <2>1. Dequeue(p, s)
    BY <1>9 DEF Enqueue, EnqueueFails
  <2>2. jobs' \in [Pollers -> [Schedules -> Runs \cup {0}]]
    BY <2>1 DEF Dequeue, ScheduleTypeOK
  <2>3. \A q \in Pollers : tick'[q] = "idle" => jobs'[q] = NoJobs
    BY <2>1 DEF Dequeue, ScheduleTypeOK, NoJobs
  <2>4. sent' \in [Schedules -> [Runs -> 0 .. 2]]
    <3>1. jobs[p][s] \in Runs
      BY <2>1 DEF Dequeue, ScheduleTypeOK
    <3>2. CASE Enqueue(p, s)
      <4> DEFINE times == IF sent[s][jobs[p][s]] = 0 THEN 1 ELSE 2
      <4>1. sent' = [sent EXCEPT ![s][jobs[p][s]] = times]
        BY <3>2 DEF Enqueue
      <4>2. times \in 0 .. 2
        OBVIOUS
      <4> HIDE DEF times
      <4>3. QED
        BY <3>1, <4>1, <4>2 DEF ScheduleTypeOK
    <3>3. CASE EnqueueFails(p, s)
      BY <3>3 DEF EnqueueFails, ScheduleTypeOK
    <3>4. QED
      BY <1>9, <3>2, <3>3
  <2>5. faults' \in 0 .. MaxFaults
    BY <1>9 DEF Enqueue, EnqueueFails, Fault, ScheduleTypeOK
  <2>6. ScheduleTypeOK'
    BY <2>1, <2>2, <2>3, <2>4, <2>5 DEF Dequeue, ScheduleTypeOK
  <2>7. LockInv'
    BY <2>1 DEF Dequeue, LockInv
  <2>8. QED
    BY <2>6, <2>7
<1>10. CASE UNCHANGED scheduleVars
  BY <1>10 DEF scheduleVars, ScheduleTypeOK, LockInv
<1>11. QED
  BY <1>1, <1>2, <1>3, <1>4, <1>5, <1>6, <1>7, <1>8, <1>9, <1>10, ScheduleActions

\* Every variable keeps its type, and between two ticks a poller has neither
\* locks nor jobs left.
THEOREM ScheduleTypeCorrect == ScheduleSpec => []ScheduleTypeOK
<1>1. BaseInv => ScheduleTypeOK
  BY DEF BaseInv
<1>2. QED
  BY <1>1, BaseInit, BaseStep, PTL DEF ScheduleSpec

-----------------------------------------------------------------------------
(* What a step makes of the rows *)

\* A committed transaction spends the runs it ran, logs them, and touches no
\* run that was spent before.
LEMMA ApplyRows ==
    ASSUME BaseInv, FreshInv, NEW p \in Pollers, Apply(p), NEW s \in Schedules
    PROVE  /\ status'[s] = "none" => status[s] = "none" /\ run'[s] = run[s]
           /\ run'[s] \in {run[s], run[s] + 1}
           /\ work[p][s] = "unlocked" => UNCHANGED <<status[s], run[s], logged[s]>>
           /\ logged[s] \subseteq logged'[s]
           /\ Exists(s)' => Exists(s)
           /\ \A k \in Runs : Spent(s, k) => Spent(s, k)'
           /\ \A k \in Runs : work[p][s] = "ran" /\ k = run[s]
                               => Spent(s, k)' /\ k \in logged'[s]
<1> USE DEF BaseInv
<1>1. run[s] \in Nat /\ run'[s] = (IF Advances(p, s) THEN run[s] + 1 ELSE run[s])
  BY DEF Apply, ScheduleTypeOK, Runs
<1>2. status'[s] = NextStatus(p, s)
  BY DEF Apply
<1>3. logged'[s] = IF work[p][s] = "ran" THEN logged[s] \cup {run[s]} ELSE logged[s]
  BY DEF Apply
<1>4. CASE work[p][s] = "unlocked"
  <2>1. UNCHANGED <<status[s], run[s], logged[s]>>
    BY <1>4, ApplyHeld
  <2>2. QED
    BY <1>1, <1>4, <2>1 DEF Exists, Spent
<1>5. CASE work[p][s] # "unlocked"
  <2>1. status[s] = "active"
    BY <1>5 DEF LockInv
  <2>2. status'[s] \in {"active", "failed", "completed"}
    BY <1>2, <2>1 DEF NextStatus
  <2>3. \A k \in Runs : Spent(s, k) => k < run[s] /\ k \in Nat
    BY <2>1 DEF Spent, Runs
  <2>4. \A k \in Runs : Spent(s, k) => Spent(s, k)'
    BY <1>1, <2>3 DEF Spent
  <2>5. ASSUME NEW k \in Runs, work[p][s] = "ran", k = run[s]
        PROVE  Spent(s, k)' /\ k \in logged'[s]
    <3>1. CASE s \in OneTime
      BY <1>1, <1>2, <1>3, <2>5, <3>1 DEF NextStatus, Advances, Spent
    <3>2. CASE s \notin OneTime
      BY <1>1, <1>3, <2>5, <3>2 DEF Advances, Spent
    <3>3. QED
      BY <3>1, <3>2
  <2>6. QED
    BY <1>1, <1>3, <1>5, <2>1, <2>2, <2>4, <2>5 DEF Exists, Statuses
<1>6. QED
  BY <1>4, <1>5

\* What was spent stays spent and logged, and the row a transaction holds
\* stays at its run.
LEMMA RowsStep ==
    ASSUME BaseInv, FreshInv, [ScheduleNext]_scheduleVars
    PROVE  /\ FreshInv'
           /\ \A s \in Schedules, k \in Runs :
                Spent(s, k) /\ Kept(s, k) => Spent(s, k)' /\ Kept(s, k)'
           /\ \A p \in Pollers, s \in Schedules :
                work[p][s] # "unlocked" /\ work'[p][s] # "unlocked" => run'[s] = run[s]
<1> DEFINE Goal ==
        /\ FreshInv'
        /\ \A s \in Schedules, k \in Runs :
             Spent(s, k) /\ Kept(s, k) => Spent(s, k)' /\ Kept(s, k)'
        /\ \A p \in Pollers, s \in Schedules :
             work[p][s] # "unlocked" /\ work'[p][s] # "unlocked" => run'[s] = run[s]
<1> SUFFICES Goal
  OBVIOUS
<1> USE ScheduleAssumption DEF BaseInv
<1> USE DEF rowVars, tickVars, historyVars, NoPatch, NoFault
<1>1. ASSUME NEW s \in Schedules, CreateSchedule(s)
      PROVE  Goal
  <2>1. run' = run /\ logged' = logged /\ status[s] = "none" /\ run[s] = 1
    BY <1>1 DEF CreateSchedule, FreshInv
  <2>2. \A x \in Schedules : status'[x] = IF x = s THEN "active" ELSE status[x]
    BY <1>1 DEF CreateSchedule, ScheduleTypeOK
  <2>3. \A k \in Runs : ~Spent(s, k)
    BY <2>1 DEF Spent, Runs
  <2>4. QED
    BY <2>1, <2>2, <2>3 DEF FreshInv, Spent, Kept, Exists
<1>2. ASSUME NEW s \in Schedules, PatchSchedule(s)
      PROVE  Goal
  <2>1. logged' = logged /\ Exists(s) /\ ~Locked(s)
    BY <1>2 DEF PatchSchedule
  <2>2. PICK st \in Statuses :
          /\ status' = [status EXCEPT ![s] = st]
          /\ IF status[s] = "completed" /\ st # "completed"
             THEN run' = [run EXCEPT ![s] = @ + 1]
             ELSE UNCHANGED run
    BY <1>2 DEF PatchSchedule
  <2>3. \A x \in Schedules \ {s} : status'[x] = status[x] /\ run'[x] = run[x]
    BY <2>2 DEF ScheduleTypeOK
  <2>4. run[s] \in Nat /\ status'[s] = st
        /\ run'[s] = IF status[s] = "completed" /\ st # "completed" THEN run[s] + 1 ELSE run[s]
    BY <2>2 DEF ScheduleTypeOK, Runs
  <2>5. \A k \in Runs : Spent(s, k) => Spent(s, k)'
    BY <2>1, <2>4 DEF Spent, Exists, Statuses, Runs
  <2>6. \A x \in Schedules : Exists(x)' => Exists(x)
    BY <2>1, <2>3 DEF Exists
  <2>7. FreshInv'
    BY <2>3, <2>4 DEF FreshInv, Statuses
  <2>8. \A x \in Schedules, k \in Runs : Spent(x, k) => Spent(x, k)'
    BY <2>3, <2>5 DEF Spent
  <2>9. \A p \in Pollers, x \in Schedules : work[p][x] # "unlocked" => run'[x] = run[x]
    BY <2>1, <2>3 DEF Locked
  <2>10. QED
    BY <2>1, <2>6, <2>7, <2>8, <2>9 DEF Kept
<1>3. ASSUME NEW s \in Schedules, DeleteSchedule(s)
      PROVE  Goal
  <2>1. run' = run /\ status'[s] = "deleted"
        /\ \A x \in Schedules \ {s} : status'[x] = status[x] /\ logged'[x] = logged[x]
    BY <1>3 DEF DeleteSchedule, ScheduleTypeOK
  <2>2. QED
    BY <1>3, <2>1 DEF DeleteSchedule, FreshInv, Spent, Kept, Exists, Statuses
<1>4. ASSUME NEW p \in Pollers, Apply(p), EndTransaction(p, "idle") \/ EndTransaction(p, "enqueuing")
      PROVE  Goal
  <2>1. FreshInv'
    BY <1>4, ApplyRows DEF FreshInv
  <2>2. \A s \in Schedules, k \in Runs :
           Spent(s, k) /\ Kept(s, k) => Spent(s, k)' /\ Kept(s, k)'
    BY <1>4, ApplyRows DEF Kept
  <2>3. ASSUME NEW q \in Pollers, NEW s \in Schedules,
               work[q][s] # "unlocked", work'[q][s] # "unlocked"
        PROVE  run'[s] = run[s]
    <3>1. q # p
      BY <1>4, <2>3 DEF EndTransaction, Nothing, ScheduleTypeOK
    <3>2. work[p][s] = "unlocked"
      BY <2>3, <3>1 DEF LockInv
    <3>3. QED
      BY <1>4, <3>2, ApplyRows
  <2>4. QED
    BY <2>1, <2>2, <2>3
<1>5. CASE UNCHANGED rowVars
  BY <1>5 DEF FreshInv, Spent, Kept, Exists
<1>6. ASSUME NEW p \in Pollers,
             Poll(p) \/ Commit(p) \/ TickFails(p) \/ AckLost(p)
      PROVE  UNCHANGED rowVars \/ (Apply(p) /\ (EndTransaction(p, "idle") \/ EndTransaction(p, "enqueuing")))
  BY <1>6 DEF Poll, Commit, TickFails, AckLost, Abandon
<1>7. ASSUME NEW p \in Pollers, NEW s \in Schedules,
             \/ FetchFails(p, s) \/ RunSchedule(p, s) \/ RunThrows(p, s)
             \/ SqlError(p, s) \/ Enqueue(p, s) \/ EnqueueFails(p, s)
      PROVE  UNCHANGED rowVars
  BY <1>7 DEF FetchFails, RunSchedule, RunThrows, SqlError, Enqueue, EnqueueFails, Process, Dequeue
<1>8. ASSUME NEW s \in Schedules, BecomesDue(s)
      PROVE  Goal
  BY <1>8 DEF BecomesDue, FreshInv, Spent, Kept, Exists
<1>9. CASE UNCHANGED scheduleVars
  BY <1>5, <1>9 DEF scheduleVars
<1> HIDE DEF Goal
<1>10. QED
  BY <1>1, <1>2, <1>3, <1>4, <1>5, <1>6, <1>7, <1>8, <1>9, ScheduleActions

-----------------------------------------------------------------------------
(* No run is enqueued twice *)

\* The runs whose batches a poller is about to enqueue.
Queued(p, s, k) == tick[p] = "enqueuing" /\ k > 0 /\ jobs[p][s] = k

\* CommittedInv, run by run.
LEMMA CommittedRuns ==
    ASSUME BaseInv
    PROVE  CommittedInv <=>
             \A p \in Pollers, s \in Schedules, k \in Runs :
               Queued(p, s, k) /\ <<s, k>> \notin ghosts =>
                 /\ Spent(s, k)
                 /\ sent[s][k] = 0
                 /\ Kept(s, k)
                 /\ \A q \in Pollers : Queued(q, s, k) => q = p
<1>1. \A p \in Pollers, s \in Schedules : jobs[p][s] > 0 => jobs[p][s] \in Runs
  BY DEF BaseInv, ScheduleTypeOK
<1>2. \A k \in Runs : k > 0
  BY DEF Runs
<1>3. QED
  BY <1>1, <1>2 DEF CommittedInv, Queued

LEMMA SendInit == ScheduleInit => SendInv
BY ScheduleAssumption
   DEF ScheduleInit, SendInv, FreshInv, CollectedInv, CommittedInv, SentInv,
       RunsAreSentOnce, NoJobs, Runs

\* A step that neither collects nor enqueues leaves every promise as it was.
LEMMA QuietStep ==
    ASSUME BaseInv, BaseInv', SendInv, [ScheduleNext]_scheduleVars,
           UNCHANGED <<sent, ghosts>>,
           \A p \in Pollers, s \in Schedules, k \in Runs :
             Queued(p, s, k)' => Queued(p, s, k),
           \A p \in Pollers, s \in Schedules :
             tick'[p] \in {"open", "aborted"} /\ jobs'[p][s] > 0 =>
               /\ tick[p] \in {"open", "aborted"}
               /\ jobs'[p][s] = jobs[p][s]
               /\ work'[p][s] = work[p][s]
    PROVE  SendInv'
<1> USE DEF SendInv
<1>1. FreshInv'
  BY RowsStep
<1>2. CollectedInv'
  <2> SUFFICES ASSUME NEW p \in Pollers, NEW s \in Schedules,
                      tick'[p] \in {"open", "aborted"}, jobs'[p][s] > 0
               PROVE  work'[p][s] = "ran" /\ jobs'[p][s] = run'[s]
    BY DEF CollectedInv
  <2>1. work[p][s] = "ran" /\ jobs[p][s] = run[s] /\ work'[p][s] = "ran"
    BY DEF CollectedInv
  <2>2. run'[s] = run[s]
    BY <2>1, RowsStep
  <2>3. QED
    BY <2>1, <2>2
<1>3. CommittedInv'
  <2>1. \A p \in Pollers, s \in Schedules, k \in Runs :
           Queued(p, s, k)' /\ <<s, k>> \notin ghosts =>
             /\ Spent(s, k)'
             /\ sent[s][k] = 0
             /\ Kept(s, k)'
             /\ \A q \in Pollers : Queued(q, s, k)' => q = p
    BY CommittedRuns, RowsStep
  <2>2. \A p \in Pollers, s \in Schedules : jobs'[p][s] > 0 => jobs'[p][s] \in Runs
    BY DEF BaseInv, ScheduleTypeOK
  <2>3. QED
    BY <2>1, <2>2 DEF CommittedInv, Queued, Spent, Kept, Exists
<1>4. SentInv'
  BY RowsStep DEF SentInv
<1>5. RunsAreSentOnce'
  BY DEF RunsAreSentOnce
<1>6. QED
  BY <1>1, <1>2, <1>3, <1>4, <1>5

\* The collected batch is for the run that the transaction writes.
LEMMA CollectStep ==
    ASSUME BaseInv, BaseInv', SendInv, [ScheduleNext]_scheduleVars,
           NEW p \in Pollers, NEW s \in Schedules, RunSchedule(p, s)
    PROVE  SendInv'
<1> USE DEF SendInv, RunSchedule, Process, rowVars, historyVars, NoPatch, NoFault
<1>1. UNCHANGED rowVars /\ UNCHANGED historyVars /\ tick' = tick /\ tick[p] = "open"
      /\ work[p][s] = "claimed"
  OBVIOUS
<1>2. /\ work'[p][s] = "ran"
      /\ \A q \in Pollers, x \in Schedules :
           q # p \/ x # s => work'[q][x] = work[q][x] /\ jobs'[q][x] = jobs[q][x]
  BY DEF BaseInv, ScheduleTypeOK
<1>3. jobs'[p][s] > 0 => jobs'[p][s] = run[s]
  <2>1. CASE UNCHANGED jobs
    BY <1>1, <2>1 DEF CollectedInv
  <2>2. CASE jobs' = [jobs EXCEPT ![p][s] = run[s]]
    BY <2>2 DEF BaseInv, ScheduleTypeOK
  <2>3. QED
    BY <2>1, <2>2
<1>4. CollectedInv'
  BY <1>1, <1>2, <1>3 DEF CollectedInv
<1>5. \A q \in Pollers : tick[q] = "enqueuing" => jobs'[q] = jobs[q]
  BY <1>1 DEF BaseInv, ScheduleTypeOK
<1>6. CommittedInv'
  BY <1>1, <1>5 DEF CommittedInv, Spent, Kept, Exists
<1>7. FreshInv' /\ SentInv' /\ RunsAreSentOnce'
  BY <1>1 DEF FreshInv, SentInv, RunsAreSentOnce, Spent, Kept, Exists
<1>8. QED
  BY <1>4, <1>6, <1>7

\* COMMIT spends the runs whose batches it leaves to be enqueued, or their
\* notifications are gone and the batches are ghosts.
LEMMA CommitStep ==
    ASSUME BaseInv, BaseInv', SendInv, [ScheduleNext]_scheduleVars,
           NEW p \in Pollers, Commit(p)
    PROVE  SendInv'
<1> USE DEF SendInv, rowVars, historyVars, NoPatch, NoFault
<1>1. /\ jobs' = jobs /\ sent' = sent /\ tick[p] \in {"open", "aborted"}
      /\ tick'[p] \in {"idle", "enqueuing"}
      /\ \A q \in Pollers \ {p} : tick'[q] = tick[q] /\ work'[q] = work[q]
  BY DEF Commit, EndTransaction, BaseInv, ScheduleTypeOK
<1>2. \/ tick[p] = "open" /\ Apply(p) /\ ghosts' = ghosts
      \/ UNCHANGED rowVars
         /\ ghosts' = ghosts \cup {<<s, jobs[p][s]>> : s \in {x \in Schedules : jobs[p][x] > 0}}
  BY DEF Commit
<1>3. ghosts \subseteq ghosts'
  BY <1>2
<1>4. CollectedInv'
  <2> SUFFICES ASSUME NEW q \in Pollers, NEW s \in Schedules,
                      tick'[q] \in {"open", "aborted"}, jobs'[q][s] > 0
               PROVE  work'[q][s] = "ran" /\ jobs'[q][s] = run'[s]
    BY DEF CollectedInv
  <2>1. work[q][s] = "ran" /\ jobs[q][s] = run[s] /\ work'[q][s] = "ran"
    BY <1>1 DEF CollectedInv
  <2>2. run'[s] = run[s]
    BY <2>1, RowsStep
  <2>3. QED
    BY <1>1, <2>1, <2>2
<1>5. ASSUME NEW s \in Schedules, NEW k \in Runs, jobs[p][s] = k, <<s, k>> \notin ghosts'
      PROVE  /\ Spent(s, k)' /\ Kept(s, k)'
             /\ sent[s][k] = 0
             /\ ~Spent(s, k)
  <2>1. work[p][s] = "ran" /\ k = run[s]
    BY <1>1, <1>5 DEF CollectedInv, Runs
  <2>2. tick[p] = "open" /\ Apply(p) /\ ghosts' = ghosts
    BY <1>2, <1>5 DEF Runs
  <2>3. Spent(s, k)' /\ Kept(s, k)'
    BY <2>1, <2>2, ApplyRows DEF Kept
  <2>4. status[s] = "active"
    BY <2>1 DEF BaseInv, LockInv
  <2>5. ~Spent(s, k)
    BY <2>1, <2>4 DEF Spent, Runs
  <2>6. sent[s][k] \in 0 .. 2
    BY DEF BaseInv, ScheduleTypeOK
  <2>7. QED
    BY <1>5, <2>2, <2>3, <2>5, <2>6 DEF SentInv
<1>6. ASSUME NEW q \in Pollers \ {p}, NEW s \in Schedules, NEW k \in Runs,
             Queued(q, s, k)', <<s, k>> \notin ghosts'
      PROVE  /\ Spent(s, k)' /\ Kept(s, k)'
             /\ sent[s][k] = 0
             /\ Spent(s, k)
             /\ \A x \in Pollers : Queued(x, s, k) => x = q
  <2>1. Queued(q, s, k) /\ <<s, k>> \notin ghosts
    BY <1>1, <1>3, <1>6 DEF Queued
  <2>2. QED
    BY <2>1, CommittedRuns, RowsStep
<1>7. \A q \in Pollers, s \in Schedules, k \in Runs :
        Queued(q, s, k)' /\ <<s, k>> \notin ghosts' =>
          /\ Spent(s, k)'
          /\ sent[s][k] = 0
          /\ Kept(s, k)'
          /\ \A x \in Pollers : Queued(x, s, k)' => x = q
  <2> SUFFICES ASSUME NEW q \in Pollers, NEW s \in Schedules, NEW k \in Runs,
                      Queued(q, s, k)', <<s, k>> \notin ghosts'
               PROVE  /\ Spent(s, k)' /\ sent[s][k] = 0 /\ Kept(s, k)'
                      /\ \A x \in Pollers : Queued(x, s, k)' => x = q
    OBVIOUS
  <2>1. \A x \in Pollers \ {p} : Queued(x, s, k)' => Queued(x, s, k)
    BY <1>1 DEF Queued
  <2>2. Queued(p, s, k)' => jobs[p][s] = k
    BY <1>1 DEF Queued
  <2>3. CASE q = p
    BY <1>5, <1>6, <2>2, <2>3
  <2>4. CASE q # p
    BY <1>5, <1>6, <2>1, <2>2, <2>4
  <2>5. QED
    BY <2>3, <2>4
<1>8. CommittedInv'
  <2>1. \A q \in Pollers, s \in Schedules : jobs'[q][s] > 0 => jobs'[q][s] \in Runs
    BY DEF BaseInv, ScheduleTypeOK
  <2>2. QED
    BY <1>1, <1>7, <2>1 DEF CommittedInv, Queued, Spent, Kept, Exists
<1>9. FreshInv'
  BY RowsStep
<1>10. SentInv' /\ RunsAreSentOnce'
  BY <1>1, <1>3, RowsStep DEF SentInv, RunsAreSentOnce
<1>11. QED
  BY <1>4, <1>8, <1>9, <1>10

\* A batch that is enqueued was never enqueued before, and nobody else has it.
LEMMA EnqueueStep ==
    ASSUME BaseInv, BaseInv', SendInv, [ScheduleNext]_scheduleVars,
           NEW p \in Pollers, NEW s \in Schedules, Enqueue(p, s)
    PROVE  SendInv'
<1> USE DEF SendInv, rowVars, NoPatch, NoFault
<1> DEFINE k == jobs[p][s]
<1>1. /\ UNCHANGED rowVars /\ work' = work /\ ghosts' = ghosts
      /\ k \in Runs /\ Queued(p, s, k)
  BY DEF Enqueue, Dequeue, BaseInv, ScheduleTypeOK, Queued
<1>2. /\ jobs'[p][s] = 0
      /\ \A q \in Pollers, x \in Schedules : q # p \/ x # s => jobs'[q][x] = jobs[q][x]
      /\ tick'[p] \in {"idle", "enqueuing"}
      /\ \A q \in Pollers \ {p} : tick'[q] = tick[q]
  BY DEF Enqueue, Dequeue, BaseInv, ScheduleTypeOK
<1>3. /\ sent'[s][k] = IF sent[s][k] = 0 THEN 1 ELSE 2
      /\ \A x \in Schedules, j \in Runs : x # s \/ j # k => sent'[x][j] = sent[x][j]
  BY <1>1 DEF Enqueue, BaseInv, ScheduleTypeOK
<1> HIDE DEF k
<1>4. <<s, k>> \notin ghosts =>
        /\ Spent(s, k) /\ Kept(s, k) /\ sent[s][k] = 0
        /\ \A q \in Pollers : Queued(q, s, k) => q = p
  BY <1>1, CommittedRuns
<1>5. CollectedInv'
  BY <1>1, <1>2 DEF CollectedInv
<1>6. \A q \in Pollers, x \in Schedules, j \in Runs :
        Queued(q, x, j)' => Queued(q, x, j) /\ (q # p \/ x # s)
  BY <1>1, <1>2 DEF Queued, Runs
<1>7. \A q \in Pollers, x \in Schedules, j \in Runs :
        Queued(q, x, j)' /\ <<x, j>> \notin ghosts =>
          /\ Spent(x, j)
          /\ sent'[x][j] = 0
          /\ Kept(x, j)
          /\ \A y \in Pollers : Queued(y, x, j)' => y = q
  <2> SUFFICES ASSUME NEW q \in Pollers, NEW x \in Schedules, NEW j \in Runs,
                      Queued(q, x, j)', <<x, j>> \notin ghosts
               PROVE  /\ Spent(x, j) /\ sent'[x][j] = 0 /\ Kept(x, j)
                      /\ \A y \in Pollers : Queued(y, x, j)' => y = q
    OBVIOUS
  <2>1. /\ Spent(x, j) /\ sent[x][j] = 0 /\ Kept(x, j)
        /\ \A y \in Pollers : Queued(y, x, j) => y = q
    BY <1>6, CommittedRuns
  <2>2. x # s \/ j # k
    BY <1>1, <1>6, <2>1
  <2>3. QED
    BY <1>3, <1>6, <2>1, <2>2
<1>8. CommittedInv'
  <2>1. \A q \in Pollers, x \in Schedules : jobs'[q][x] > 0 => jobs'[q][x] \in Runs
    BY DEF BaseInv, ScheduleTypeOK
  <2>2. QED
    BY <1>1, <1>7, <2>1 DEF CommittedInv, Queued, Spent, Kept, Exists
<1>9. SentInv'
  BY <1>1, <1>3, <1>4 DEF SentInv, Spent, Kept, Exists
<1>10. RunsAreSentOnce'
  BY <1>1, <1>3, <1>4 DEF RunsAreSentOnce
<1>11. FreshInv'
  BY <1>1 DEF FreshInv
<1>12. QED
  BY <1>5, <1>8, <1>9, <1>10, <1>11

LEMMA SendStep == BaseInv /\ BaseInv' /\ SendInv /\ [ScheduleNext]_scheduleVars => SendInv'
<1> SUFFICES ASSUME BaseInv, BaseInv', SendInv, [ScheduleNext]_scheduleVars
             PROVE  SendInv'
  OBVIOUS
<1> USE DEF rowVars, tickVars, historyVars, NoPatch, NoFault
<1>1. ASSUME UNCHANGED <<tickVars, historyVars>>
      PROVE  SendInv'
  BY <1>1, QuietStep DEF Queued
<1>2. ASSUME NEW s \in Schedules,
             CreateSchedule(s) \/ PatchSchedule(s) \/ DeleteSchedule(s) \/ BecomesDue(s)
      PROVE  UNCHANGED <<tickVars, historyVars>>
  BY <1>2 DEF CreateSchedule, PatchSchedule, DeleteSchedule, BecomesDue
<1>3. ASSUME NEW p \in Pollers, Poll(p)
      PROVE  SendInv'
  <2>1. jobs[p] = NoJobs /\ jobs' = jobs /\ UNCHANGED <<sent, ghosts>>
    BY <1>3 DEF Poll, BaseInv, ScheduleTypeOK
  <2>2. /\ \A q \in Pollers \ {p} : tick'[q] = tick[q] /\ work'[q] = work[q]
        /\ tick'[p] = "open"
    BY <1>3 DEF Poll, BaseInv, ScheduleTypeOK
  <2>3. \A s \in Schedules : ~(jobs'[p][s] > 0)
    BY <2>1 DEF NoJobs
  <2>4. \A q \in Pollers, s \in Schedules, k \in Runs : Queued(q, s, k)' => Queued(q, s, k)
    BY <2>1, <2>2 DEF Queued
  <2>5. \A q \in Pollers, s \in Schedules :
          tick'[q] \in {"open", "aborted"} /\ jobs'[q][s] > 0 =>
            /\ tick[q] \in {"open", "aborted"}
            /\ jobs'[q][s] = jobs[q][s]
            /\ work'[q][s] = work[q][s]
    BY <2>1, <2>2, <2>3
  <2>6. QED
    BY <2>1, <2>4, <2>5, QuietStep
<1>4. ASSUME NEW p \in Pollers, NEW s \in Schedules, FetchFails(p, s) \/ RunThrows(p, s)
      PROVE  SendInv'
  <2>1. jobs' = jobs /\ tick' = tick /\ UNCHANGED <<sent, ghosts>> /\ work[p][s] = "claimed"
        /\ tick[p] = "open"
    BY <1>4 DEF FetchFails, RunThrows, Process
  <2>2. \A q \in Pollers, x \in Schedules : q # p \/ x # s => work'[q][x] = work[q][x]
    BY <1>4 DEF FetchFails, RunThrows, Process, BaseInv, ScheduleTypeOK
  <2>3. ~(jobs[p][s] > 0)
    BY <2>1 DEF SendInv, CollectedInv
  <2>4. QED
    BY <2>1, <2>2, <2>3, QuietStep DEF Queued
<1>5. ASSUME NEW p \in Pollers, NEW s \in Schedules, SqlError(p, s)
      PROVE  SendInv'
  <2>1. jobs' = jobs /\ work' = work /\ UNCHANGED <<sent, ghosts>> /\ tick[p] = "open"
        /\ tick' = [tick EXCEPT ![p] = "aborted"]
    BY <1>5 DEF SqlError
  <2>2. QED
    BY <2>1, QuietStep DEF Queued, BaseInv, ScheduleTypeOK
<1>6. ASSUME NEW p \in Pollers, TickFails(p) \/ AckLost(p)
      PROVE  SendInv'
  <2>1. /\ UNCHANGED <<sent, ghosts>>
        /\ tick'[p] = "idle"
        /\ \A q \in Pollers \ {p} :
             tick'[q] = tick[q] /\ work'[q] = work[q] /\ jobs'[q] = jobs[q]
    BY <1>6 DEF TickFails, AckLost, Abandon, EndTransaction, BaseInv, ScheduleTypeOK
  <2>2. \A q \in Pollers, s \in Schedules, k \in Runs : Queued(q, s, k)' => Queued(q, s, k)
    BY <2>1 DEF Queued
  <2>3. \A q \in Pollers : tick'[q] \in {"open", "aborted"} => q # p
    BY <2>1
  <2>4. QED
    BY <2>1, <2>2, <2>3, QuietStep
<1>7. ASSUME NEW p \in Pollers, NEW s \in Schedules, EnqueueFails(p, s)
      PROVE  SendInv'
  <2>1. /\ work' = work /\ UNCHANGED <<sent, ghosts>>
        /\ jobs'[p][s] = 0
        /\ \A q \in Pollers, x \in Schedules : q # p \/ x # s => jobs'[q][x] = jobs[q][x]
        /\ tick[p] = "enqueuing" /\ tick'[p] \in {"idle", "enqueuing"}
        /\ \A q \in Pollers \ {p} : tick'[q] = tick[q]
    BY <1>7 DEF EnqueueFails, Dequeue, BaseInv, ScheduleTypeOK
  <2>2. \A q \in Pollers, x \in Schedules, k \in Runs : Queued(q, x, k)' => Queued(q, x, k)
    BY <2>1 DEF Queued, Runs
  <2>3. QED
    BY <2>1, <2>2, QuietStep
<1>8. CASE UNCHANGED scheduleVars
  BY <1>1, <1>8 DEF scheduleVars
<1>9. QED
  BY <1>1, <1>2, <1>3, <1>4, <1>5, <1>6, <1>7, <1>8, CollectStep, CommitStep, EnqueueStep,
     ScheduleActions

\* FIX 2 of the poller: two processes, a crash anywhere and any PATCH leave a
\* run enqueued once at most, unless its transaction was rolled back.
THEOREM ScheduleSendsOnce == ScheduleSpec => []RunsAreSentOnce
<1>1. SendInv => RunsAreSentOnce
  BY DEF SendInv
<1>2. QED
  BY <1>1, BaseInit, BaseStep, SendInit, SendStep, PTL DEF ScheduleSpec

\* A run whose jobs went out is in the log, unless its transaction was rolled
\* back.
THEOREM ScheduleLogsWhatItSends == ScheduleSpec => []SentRunsAreLogged
<1>1. SendInv => SentRunsAreLogged
  BY DEF SendInv, SentInv, Kept, SentRunsAreLogged
<1>2. QED
  BY <1>1, BaseInit, BaseStep, SendInit, SendStep, PTL DEF ScheduleSpec

-----------------------------------------------------------------------------
(* What a request stopped stays stopped *)

\* The action inside InactiveStaysInactive.
StaysInactive ==
    \A s \in Schedules :
      status[s] \in {"paused", "completed", "failed", "deleted"} /\ patches' = patches
        => status'[s] \in {status[s], "deleted"}

LEMMA InactiveStep == BaseInv /\ [ScheduleNext]_scheduleVars => StaysInactive
<1> SUFFICES ASSUME BaseInv, [ScheduleNext]_scheduleVars, NEW s \in Schedules,
                    status[s] \in {"paused", "completed", "failed", "deleted"},
                    patches' = patches
             PROVE  status'[s] \in {status[s], "deleted"}
  BY DEF StaysInactive
<1> USE DEF BaseInv, rowVars
<1>1. ASSUME NEW x \in Schedules,
             CreateSchedule(x) \/ PatchSchedule(x) \/ DeleteSchedule(x) \/ BecomesDue(x)
      PROVE  status'[s] \in {status[s], "deleted"}
  <2>1. patches \in Nat
    BY ScheduleAssumption DEF ScheduleTypeOK
  <2>2. PatchSchedule(x) => patches' = patches + 1
    BY DEF PatchSchedule
  <2>3. CASE CreateSchedule(x)
    BY <2>3 DEF CreateSchedule, ScheduleTypeOK
  <2>4. CASE DeleteSchedule(x)
    BY <2>4 DEF DeleteSchedule, ScheduleTypeOK
  <2>5. CASE BecomesDue(x)
    BY <2>5 DEF BecomesDue
  <2>6. QED
    BY <1>1, <2>1, <2>2, <2>3, <2>4, <2>5
<1>2. ASSUME NEW p \in Pollers, Apply(p)
      PROVE  status'[s] = status[s]
  <2>1. work[p][s] = "unlocked"
    BY DEF LockInv
  <2>2. QED
    BY <1>2, <2>1, ApplyHeld
<1>3. ASSUME NEW p \in Pollers, Poll(p) \/ Commit(p) \/ TickFails(p) \/ AckLost(p)
      PROVE  status'[s] = status[s]
  BY <1>2, <1>3 DEF Poll, Commit, TickFails, AckLost
<1>4. ASSUME NEW p \in Pollers, NEW x \in Schedules,
             \/ FetchFails(p, x) \/ RunSchedule(p, x) \/ RunThrows(p, x)
             \/ SqlError(p, x) \/ Enqueue(p, x) \/ EnqueueFails(p, x)
      PROVE  status' = status
  BY <1>4 DEF FetchFails, RunSchedule, RunThrows, SqlError, Enqueue, EnqueueFails, Process, Dequeue
<1>5. CASE UNCHANGED scheduleVars
  BY <1>5 DEF scheduleVars
<1>6. QED
  BY <1>1, <1>3, <1>4, <1>5, ScheduleActions

\* A tick never revives a schedule that a request paused, completed, failed or
\* deleted: it holds the row lock of every schedule it writes.
THEOREM ScheduleKeepsInactive == ScheduleSpec => InactiveStaysInactive
<1>1. BaseInv /\ [ScheduleNext]_scheduleVars => [StaysInactive]_scheduleVars
  BY InactiveStep
<1>2. ScheduleSpec => [][StaysInactive]_scheduleVars
  BY <1>1, BaseInit, BaseStep, PTL DEF ScheduleSpec
<1>3. QED
  BY <1>2 DEF InactiveStaysInactive, StaysInactive

-----------------------------------------------------------------------------
(***************************************************************************)
(* Proofs about SchedulePatches, for any timing fields and any number of    *)
(* PATCHes under way.  What makes NextRunFollowsTiming inductive is what a   *)
(* PATCH holds between its two statements: as long as nobody changed the     *)
(* timing since it read the row, what it computed is what its UPDATE will    *)
(* leave in the row.                                                        *)
(***************************************************************************)

PatchType == [reading : BOOLEAN, change : TimingChanges \cup {NoPatchUnderWay.change},
              computed : Timings \cup {"nothing"}]

\* What the PATCH has in hand is still right.
InHand(p) == /\ p.computed = OverTiming(timing, p.change)
             /\ p.computed \in Computable

PatchesInHand ==
    \A r \in Patchers : patch[r].reading =>
        /\ patch[r].change \in TimingChanges
        /\ ChangesTiming(patch[r].change) => patch[r].computed \in Timings
        /\ r \notin crossed => stored
        /\ r \notin crossed /\ ChangesTiming(patch[r].change) => InHand(patch[r])

PatchInv ==
    /\ PatchTypeOK
    /\ patch \in [Patchers -> PatchType]
    /\ PatchesInHand
    /\ NextRunFollowsTiming

-----------------------------------------------------------------------------

\* The fields of a request over a row make a row.
LEMMA OverTimingIsTiming ==
    ASSUME NEW t \in Timings, NEW change \in TimingChanges
    PROVE  OverTiming(t, change) \in Timings
<1>1. PICK F \in SUBSET TimingFields : change \in [F -> TimingValues]
  BY PatchAssumption
<1>2. \A f \in TimingFields : (IF f \in DOMAIN change THEN change[f] ELSE t[f]) \in TimingValues
  BY <1>1 DEF Timings
<1>. QED
  BY <1>2 DEF OverTiming, Timings

\* One that names no timing field leaves the row as it is.
LEMMA OverTimingOfNothing ==
    ASSUME NEW t \in Timings, NEW change, ~ChangesTiming(change)
    PROVE  OverTiming(t, change) = t
BY DEF OverTiming, ChangesTiming, Timings

LEMMA WritesStayBounded == PatchInv /\ WritesRow => writes' \in 0..MaxWrites
BY PatchAssumption DEF PatchInv, PatchTypeOK, WritesRow

LEMMA PatchInvInit == PatchInit => PatchInv
<1>. SUFFICES ASSUME PatchInit PROVE PatchInv
  OBVIOUS
<1>1. timing \in Timings /\ timing \in Computable /\ nextFrom = timing
  BY PatchAssumption DEF PatchInit
<1>2. \A r \in Patchers : patch[r] = NoPatchUnderWay
  BY DEF PatchInit
<1>3. ~NoPatchUnderWay.reading /\ NoPatchUnderWay \in PatchType
  BY DEF NoPatchUnderWay, PatchType
<1>4. patch \in [Patchers -> PatchType]
  BY <1>3 DEF PatchInit
<1>5. writes \in 0..MaxWrites
  BY PatchAssumption DEF PatchInit
<1>6. stored \in BOOLEAN /\ mixed \in BOOLEAN /\ crossed \subseteq Patchers
  BY DEF PatchInit
<1>7. \A r \in Patchers : /\ patch[r].reading \in BOOLEAN
                         /\ patch[r].change \in TimingChanges \cup {NoPatchUnderWay.change}
  BY <1>2, <1>3 DEF PatchType
<1>8. PatchTypeOK
  BY <1>1, <1>5, <1>6, <1>7 DEF PatchTypeOK
<1>. QED
  BY <1>1, <1>2, <1>3, <1>4, <1>8 DEF PatchInv, PatchesInHand, NextRunFollowsTiming

\* Where the types of the requests under way follow from.
LEMMA TypesKept ==
    ASSUME stored' \in BOOLEAN, timing' \in Timings, nextFrom' \in Timings,
           patch' \in [Patchers -> PatchType], crossed' \subseteq Patchers,
           mixed' \in BOOLEAN, writes' \in 0..MaxWrites
    PROVE  PatchTypeOK'
BY DEF PatchTypeOK, PatchType

-----------------------------------------------------------------------------

LEMMA CreateKeeps == PatchInv /\ CreateTimed => PatchInv'
<1>. SUFFICES ASSUME PatchInv, CreateTimed PROVE PatchInv'
  OBVIOUS
<1>1. /\ ~stored /\ stored' /\ timing' \in Computable /\ nextFrom' = timing' /\ ~mixed'
      /\ UNCHANGED <<patch, crossed>>
  BY DEF CreateTimed
<1>2. timing' \in Timings /\ writes' \in 0..MaxWrites
  BY <1>1, PatchAssumption, WritesStayBounded DEF CreateTimed
<1>3. stored' \in BOOLEAN /\ mixed' \in BOOLEAN
  BY DEF CreateTimed
<1>4. PatchTypeOK' /\ patch' \in [Patchers -> PatchType]
  BY <1>1, <1>2, <1>3, TypesKept DEF PatchInv, PatchTypeOK
<1>5. PatchesInHand'
  BY <1>1 DEF PatchInv, PatchesInHand
<1>. QED
  BY <1>1, <1>4, <1>5 DEF PatchInv, NextRunFollowsTiming

LEMMA ReadKeeps ==
    ASSUME PatchInv, NEW r \in Patchers, NEW change \in TimingChanges, ReadForPatch(r, change)
    PROVE  PatchInv'
<1>. DEFINE new == [reading |-> TRUE, change |-> change,
                    computed |-> IF ChangesTiming(change) THEN RequestOverRow(timing, change)
                                 ELSE "nothing"]
<1>1. /\ stored /\ patch' = [patch EXCEPT ![r] = new] /\ crossed' = crossed \ {r}
      /\ UNCHANGED <<stored, timing, nextFrom, mixed, writes>>
  BY DEF ReadForPatch
<1>2. /\ ChangesTiming(change) => /\ new.computed = OverTiming(timing, change)
                                  /\ new.computed \in Timings /\ new.computed \in Computable
      /\ new.change = change /\ new \in PatchType
  <2>1. OverTiming(timing, change) \in Timings
    BY OverTimingIsTiming DEF PatchInv, PatchTypeOK
  <2>2. ChangesTiming(change) => OverTiming(timing, change) \in Computable
    BY DEF ReadForPatch, RequestOverRow
  <2>. QED
    BY <2>1, <2>2 DEF PatchType, RequestOverRow
<1>. HIDE DEF new
<1>3. /\ patch' \in [Patchers -> PatchType] /\ patch'[r] = new
      /\ \A q \in Patchers \ {r} : patch'[q] = patch[q]
  BY <1>1, <1>2 DEF PatchInv
<1>4. PatchTypeOK'
  BY <1>1, <1>3, TypesKept DEF PatchInv, PatchTypeOK
<1>5. PatchesInHand'
  <2>. SUFFICES ASSUME NEW q \in Patchers, patch'[q].reading
                PROVE  /\ patch'[q].change \in TimingChanges
                       /\ ChangesTiming(patch'[q].change) => patch'[q].computed \in Timings
                       /\ q \notin crossed' => stored'
                       /\ q \notin crossed' /\ ChangesTiming(patch'[q].change) =>
                              /\ patch'[q].computed = OverTiming(timing', patch'[q].change)
                              /\ patch'[q].computed \in Computable
    BY DEF PatchesInHand, InHand, OverTiming
  <2>1. CASE q = r
    BY <1>1, <1>2, <1>3, <2>1
  <2>2. CASE q # r
    BY <1>1, <1>3, <2>2 DEF PatchInv, PatchesInHand, InHand
  <2>. QED
    BY <2>1, <2>2
<1>. QED
  BY <1>1, <1>3, <1>4, <1>5 DEF PatchInv, NextRunFollowsTiming

LEMMA WriteKeeps == ASSUME PatchInv, NEW r \in Patchers, WritePatch(r) PROVE PatchInv'
<1>. DEFINE change == patch[r].change
<1>1. /\ patch[r].reading /\ patch' = [patch EXCEPT ![r] = NoPatchUnderWay] /\ UNCHANGED stored
      /\ change \in TimingChanges
  BY DEF WritePatch, PatchInv, PatchesInHand
<1>2. NoPatchUnderWay \in PatchType /\ ~NoPatchUnderWay.reading
  BY DEF NoPatchUnderWay, PatchType
<1>3. /\ patch' \in [Patchers -> PatchType] /\ ~patch'[r].reading
      /\ \A q \in Patchers \ {r} : patch'[q] = patch[q]
  BY <1>1, <1>2 DEF PatchInv
<1>4. writes' \in 0..MaxWrites
  BY WritesStayBounded DEF WritePatch
<1>5. CASE stored /\ ChangesTiming(change)
  <2>1. /\ timing' = OverTiming(timing, change) /\ nextFrom' = patch[r].computed
        /\ mixed' = (r \in crossed) /\ crossed' = {q \in Patchers \ {r} : patch[q].reading}
    BY <1>5 DEF WritePatch
  <2>2. timing' \in Timings /\ nextFrom' \in Timings
    BY <1>1, <1>5, <2>1, OverTimingIsTiming DEF PatchInv, PatchTypeOK, PatchesInHand
  <2>3. PatchTypeOK'
    BY <1>1, <1>3, <1>4, <2>1, <2>2, TypesKept DEF PatchInv, PatchTypeOK
  <2>4. \A q \in Patchers : patch'[q].reading => q # r /\ patch[q].reading /\ q \in crossed'
    BY <1>3, <2>1
  <2>5. PatchesInHand'
    BY <1>3, <2>4 DEF PatchInv, PatchesInHand
  <2>6. ~mixed' => nextFrom' = timing' /\ timing' \in Computable
    BY <1>1, <1>5, <2>1 DEF PatchInv, PatchesInHand, InHand
  <2>. QED
    BY <1>3, <2>3, <2>5, <2>6 DEF PatchInv, NextRunFollowsTiming
<1>6. CASE ~(stored /\ ChangesTiming(change))
  <2>1. UNCHANGED <<timing, nextFrom, mixed, crossed>>
    BY <1>6 DEF WritePatch
  <2>2. PatchTypeOK'
    BY <1>1, <1>3, <1>4, <2>1, TypesKept DEF PatchInv, PatchTypeOK
  <2>3. \A q \in Patchers : patch'[q].reading => patch'[q] = patch[q]
    BY <1>3
  <2>4. PatchesInHand'
    BY <1>1, <2>1, <2>3 DEF PatchInv, PatchesInHand, InHand
  <2>. QED
    BY <1>1, <1>3, <2>1, <2>2, <2>4 DEF PatchInv, NextRunFollowsTiming
<1>. QED
  BY <1>5, <1>6

LEMMA AdvanceKeeps == PatchInv /\ AdvanceRun => PatchInv'
<1>. SUFFICES ASSUME PatchInv, AdvanceRun PROVE PatchInv'
  OBVIOUS
<1>1. /\ timing \in Computable /\ nextFrom' = timing /\ ~mixed' /\ mixed' \in BOOLEAN
      /\ UNCHANGED <<stored, timing, patch, crossed>>
  BY DEF AdvanceRun
<1>2. writes' \in 0..MaxWrites
  BY WritesStayBounded DEF AdvanceRun
<1>3. PatchTypeOK'
  BY <1>1, <1>2, TypesKept DEF PatchInv, PatchTypeOK
<1>4. PatchesInHand'
  BY <1>1 DEF PatchInv, PatchesInHand, InHand
<1>. QED
  BY <1>1, <1>3, <1>4 DEF PatchInv, NextRunFollowsTiming

LEMMA DeleteKeeps == PatchInv /\ DeleteTimed => PatchInv'
<1>. SUFFICES ASSUME PatchInv, DeleteTimed PROVE PatchInv'
  OBVIOUS
<1>1. /\ ~stored' /\ stored' \in BOOLEAN /\ crossed' = {q \in Patchers : patch[q].reading}
      /\ UNCHANGED <<timing, nextFrom, patch, mixed>>
  BY DEF DeleteTimed
<1>2. writes' \in 0..MaxWrites
  BY WritesStayBounded DEF DeleteTimed
<1>3. PatchTypeOK'
  BY <1>1, <1>2, TypesKept DEF PatchInv, PatchTypeOK
<1>4. PatchesInHand'
  BY <1>1 DEF PatchInv, PatchesInHand
<1>. QED
  BY <1>1, <1>3, <1>4 DEF PatchInv, NextRunFollowsTiming

LEMMA PatchInvStep == PatchInv /\ [PatchNext]_patchVars => PatchInv'
<1>. SUFFICES ASSUME PatchInv, [PatchNext]_patchVars PROVE PatchInv'
  OBVIOUS
<1>1. CASE UNCHANGED patchVars
  BY <1>1 DEF patchVars, PatchInv, PatchTypeOK, PatchesInHand, InHand, NextRunFollowsTiming
<1>2. CASE CreateTimed \/ AdvanceRun \/ DeleteTimed
  BY <1>2, CreateKeeps, AdvanceKeeps, DeleteKeeps
<1>3. ASSUME NEW r \in Patchers, WritePatch(r) PROVE PatchInv'
  BY <1>3, WriteKeeps
<1>4. ASSUME NEW r \in Patchers, NEW change \in TimingChanges, ReadForPatch(r, change)
      PROVE  PatchInv'
  BY <1>4, ReadKeeps
<1>. QED
  BY <1>1, <1>2, <1>3, <1>4 DEF PatchNext

LEMMA PatchInvariant == PatchSpec => []PatchInv
<1>. QED
  BY PatchInvInit, PatchInvStep, PTL DEF PatchSpec

-----------------------------------------------------------------------------
(* The theorems *)

\* Types: whatever a PATCH merges over a row is a timing again.
THEOREM PatchTypeCorrect == PatchSpec => []PatchTypeOK
BY PatchInvariant, PTL DEF PatchInv

\* next_run_at follows the timing in the row, unless a PATCH wrote what it had
\* computed before another one changed the timing.
THEOREM PatchedRunFollowsTiming == PatchSpec => []NextRunFollowsTiming
BY PatchInvariant, PTL DEF PatchInv

-----------------------------------------------------------------------------
(* ManualTrigger: one run, by its record t, the items a its data source gave, *)
(* those d it has not come to, the channels acc accepted and the jobs of every *)
(* item                                                                        *)

RunType == [pc : {"idle", "items", "reserve", "insert", "enqueue", "done"},
            item : TriggerItems \cup {NoItem}, success : Nat, fail : Nat]
OnChannels == [TriggerItems -> SUBSET TriggerChannels]

BusyAt == {"reserve", "insert", "enqueue"}
Current(t) == IF t.pc \in BusyAt THEN {t.item} ELSE {}
CompleteIn(acc, load) == {i \in TriggerItems : acc[i] # {} /\ load[i] = acc[i]}
UnsentIn(a, load) == {i \in a : load[i] = {}}
LeftUnsent(t, a, d, load) == UnsentIn(a, load) \ (d \cup Current(t))

\* Nothing is known of a run the process died in; the log of one that ended holds
\* what its counts say.
RunOK(t, a, d, acc, load) ==
    t.pc # "done" =>
        /\ d \subseteq a
        /\ \A i \in d : load[i] = {}
        /\ t.pc = "idle" => t.success = 0 /\ t.fail = 0 /\ \A i \in TriggerItems : load[i] = {}
        /\ t.pc = "idle" => a = {}
        /\ t.pc \in BusyAt => t.item \in a \ d
        /\ t.pc = "reserve" => load[t.item] = {}
        /\ t.success + t.fail + Cardinality(d) + Cardinality(Current(t)) = Cardinality(a)
        /\ t.success <= Cardinality(CompleteIn(acc, load))
        /\ Cardinality(LeftUnsent(t, a, d, load)) <= t.fail

LogOK(l, a, acc, load) ==
    l.total > 0 =>
        /\ l.success + l.fail = l.total /\ l.total = Cardinality(a)
        /\ l.success <= Cardinality(CompleteIn(acc, load))
        /\ Cardinality(UnsentIn(a, load)) <= l.fail

TriggerInv ==
    /\ trigger \in [Triggers -> RunType]
    /\ answered \in [Triggers -> SUBSET TriggerItems]
    /\ todoItems \in [Triggers -> SUBSET TriggerItems]
    /\ acceptedOn \in [Triggers -> OnChannels]
    /\ jobsOf \in [Triggers -> OnChannels]
    /\ \A r \in Triggers :
          RunOK(trigger[r], answered[r], todoItems[r], acceptedOn[r], jobsOf[r])
    /\ \A l \in triggerLogs :
          /\ l.by \in Triggers /\ trigger[l.by].pc = "done"
          /\ LogOK(l, answered[l.by], acceptedOn[l.by], jobsOf[l.by])

LEMMA ItemsAreFinite ==
    \A s \in SUBSET TriggerItems : IsFiniteSet(s) /\ Cardinality(s) \in Nat
<1>1. ASSUME NEW s \in SUBSET TriggerItems PROVE IsFiniteSet(s) /\ Cardinality(s) \in Nat
  <2>1. IsFiniteSet(s)
    BY TriggerAssumption, FS_Subset
  <2>2. QED
    BY <2>1, FS_CardinalityType
<1>2. QED
  BY <1>1

LEMMA FewerItems ==
    \A s, u \in SUBSET TriggerItems : s \subseteq u => Cardinality(s) <= Cardinality(u)
<1>1. ASSUME NEW s \in SUBSET TriggerItems, NEW u \in SUBSET TriggerItems, s \subseteq u
      PROVE  Cardinality(s) <= Cardinality(u)
  BY <1>1, ItemsAreFinite, FS_Subset
<1>2. QED
  BY <1>1

LEMMA OneItemMore ==
    \A s \in SUBSET TriggerItems, i \in TriggerItems :
        /\ i \notin s => Cardinality(s \cup {i}) = Cardinality(s) + 1
        /\ i \in s => Cardinality(s \ {i}) = Cardinality(s) - 1
<1>1. ASSUME NEW s \in SUBSET TriggerItems, NEW i \in TriggerItems
      PROVE  /\ i \notin s => Cardinality(s \cup {i}) = Cardinality(s) + 1
             /\ i \in s => Cardinality(s \ {i}) = Cardinality(s) - 1
  BY ItemsAreFinite, FS_AddElement, FS_RemoveElement
<1>2. QED
  BY <1>1

\* A set that lost none and won at most one.
LEMMA AtMostOneMore ==
    \A s, u \in SUBSET TriggerItems, i \in TriggerItems :
        u \subseteq s \cup {i} => Cardinality(u) <= Cardinality(s) + 1
<1>1. ASSUME NEW s \in SUBSET TriggerItems, NEW u \in SUBSET TriggerItems, NEW i \in TriggerItems,
             u \subseteq s \cup {i}
      PROVE  Cardinality(u) <= Cardinality(s) + 1
  <2>1. PICK v \in SUBSET TriggerItems : v = s \cup {i}
    OBVIOUS
  <2>2. Cardinality(u) <= Cardinality(v)
    BY <1>1, <2>1, FewerItems
  <2>3. CASE i \in s
    <3>1. v = s
      BY <2>1, <2>3
    <3>2. QED
      BY <2>2, <3>1, ItemsAreFinite
  <2>4. CASE i \notin s
    BY <2>1, <2>2, <2>4, OneItemMore
  <2>5. QED
    BY <2>3, <2>4
<1>2. QED
  BY <1>1

LEMMA SetsOfItems ==
    ASSUME NEW t, NEW a \in SUBSET TriggerItems, NEW d, NEW acc, NEW load
    PROVE  /\ CompleteIn(acc, load) \in SUBSET TriggerItems
           /\ UnsentIn(a, load) \in SUBSET TriggerItems
           /\ LeftUnsent(t, a, d, load) \in SUBSET TriggerItems
<1>1. QED
  BY DEF CompleteIn, UnsentIn, LeftUnsent

LEMMA SizeOfCurrent ==
    ASSUME NEW t
    PROVE  Cardinality(Current(t)) = IF t.pc \in BusyAt THEN 1 ELSE 0
<1>1. QED
  BY FS_Singleton, FS_EmptySet DEF Current

-----------------------------------------------------------------------------
(* What happens to the item a run is at *)

\* It is left, counted as failed, whatever jobs it has got.
LEMMA FailedItem ==
    ASSUME NEW t \in RunType, NEW w \in RunType,
           NEW a \in SUBSET TriggerItems, NEW d \in SUBSET TriggerItems,
           NEW acc \in OnChannels, NEW load \in OnChannels, NEW more \in OnChannels,
           RunOK(t, a, d, acc, load), t.pc \in BusyAt,
           w.pc = "items", w.success = t.success, w.fail = t.fail + 1,
           \A i \in TriggerItems : i # t.item => more[i] = load[i],
           more[t.item] = load[t.item] \/ load[t.item] # acc[t.item]
    PROVE  RunOK(w, a, d, acc, more)
<1>1. /\ t.pc # "done" /\ t.item \in a \ d /\ t.item \in TriggerItems
      /\ d \subseteq a /\ (\A i \in d : load[i] = {})
      /\ t.success + t.fail + Cardinality(d) + Cardinality(Current(t)) = Cardinality(a)
      /\ t.success <= Cardinality(CompleteIn(acc, load))
      /\ Cardinality(LeftUnsent(t, a, d, load)) <= t.fail
  BY DEF RunOK, BusyAt
<1>2. t.success \in Nat /\ t.fail \in Nat /\ Cardinality(d) \in Nat
  BY ItemsAreFinite DEF RunType
<1>3. Cardinality(Current(t)) = 1 /\ Cardinality(Current(w)) = 0
      /\ Current(t) = {t.item} /\ Current(w) = {}
  BY SizeOfCurrent DEF Current, BusyAt
<1>4. \A i \in d : more[i] = {}
  BY <1>1
<1>5. w.success <= Cardinality(CompleteIn(acc, more))
  <2>1. CompleteIn(acc, load) \subseteq CompleteIn(acc, more)
    BY DEF CompleteIn
  <2>2. Cardinality(CompleteIn(acc, load)) <= Cardinality(CompleteIn(acc, more))
    BY <2>1, SetsOfItems, FewerItems
  <2>3. Cardinality(CompleteIn(acc, load)) \in Nat /\ Cardinality(CompleteIn(acc, more)) \in Nat
    BY SetsOfItems, ItemsAreFinite
  <2>4. QED
    BY <1>1, <1>2, <2>2, <2>3
<1>6. Cardinality(LeftUnsent(w, a, d, more)) <= w.fail
  <2>1. LeftUnsent(w, a, d, more) \subseteq LeftUnsent(t, a, d, load) \cup {t.item}
    BY <1>3 DEF LeftUnsent, UnsentIn
  <2>2. Cardinality(LeftUnsent(w, a, d, more)) <= Cardinality(LeftUnsent(t, a, d, load)) + 1
    BY <1>1, <2>1, SetsOfItems, AtMostOneMore
  <2>3. /\ Cardinality(LeftUnsent(w, a, d, more)) \in Nat
        /\ Cardinality(LeftUnsent(t, a, d, load)) \in Nat
    BY SetsOfItems, ItemsAreFinite
  <2>4. QED
    BY <1>1, <1>2, <2>2, <2>3
<1>7. w.success + w.fail + Cardinality(d) + Cardinality(Current(w)) = Cardinality(a)
  BY <1>1, <1>2, <1>3
<1>8. QED
  BY <1>1, <1>4, <1>5, <1>6, <1>7 DEF RunOK, BusyAt

\* It is left with its last job, counted as sent.
LEMMA SentItem ==
    ASSUME NEW t \in RunType, NEW w \in RunType,
           NEW a \in SUBSET TriggerItems, NEW d \in SUBSET TriggerItems,
           NEW acc \in OnChannels, NEW load \in OnChannels, NEW more \in OnChannels,
           RunOK(t, a, d, acc, load), t.pc \in BusyAt,
           w.pc = "items", w.success = t.success + 1, w.fail = t.fail,
           \A i \in TriggerItems : i # t.item => more[i] = load[i],
           load[t.item] # acc[t.item], acc[t.item] # {}, more[t.item] = acc[t.item]
    PROVE  RunOK(w, a, d, acc, more)
<1>1. /\ t.pc # "done" /\ t.item \in a \ d /\ t.item \in TriggerItems
      /\ d \subseteq a /\ (\A i \in d : load[i] = {})
      /\ t.success + t.fail + Cardinality(d) + Cardinality(Current(t)) = Cardinality(a)
      /\ t.success <= Cardinality(CompleteIn(acc, load))
      /\ Cardinality(LeftUnsent(t, a, d, load)) <= t.fail
  BY DEF RunOK, BusyAt
<1>2. t.success \in Nat /\ t.fail \in Nat /\ Cardinality(d) \in Nat
  BY ItemsAreFinite DEF RunType
<1>3. Cardinality(Current(t)) = 1 /\ Cardinality(Current(w)) = 0
      /\ Current(t) = {t.item} /\ Current(w) = {}
  BY SizeOfCurrent DEF Current, BusyAt
<1>4. \A i \in d : more[i] = {}
  BY <1>1
<1>5. w.success <= Cardinality(CompleteIn(acc, more))
  <2>1. CompleteIn(acc, more) = CompleteIn(acc, load) \cup {t.item}
    BY <1>1 DEF CompleteIn
  <2>2. t.item \notin CompleteIn(acc, load)
    BY DEF CompleteIn
  <2>3. Cardinality(CompleteIn(acc, more)) = Cardinality(CompleteIn(acc, load)) + 1
    BY <1>1, <2>1, <2>2, SetsOfItems, OneItemMore
  <2>4. Cardinality(CompleteIn(acc, load)) \in Nat
    BY SetsOfItems, ItemsAreFinite
  <2>5. QED
    BY <1>1, <1>2, <2>3, <2>4
<1>6. Cardinality(LeftUnsent(w, a, d, more)) <= w.fail
  <2>1. LeftUnsent(w, a, d, more) \subseteq LeftUnsent(t, a, d, load)
    BY <1>1, <1>3 DEF LeftUnsent, UnsentIn
  <2>2. Cardinality(LeftUnsent(w, a, d, more)) <= Cardinality(LeftUnsent(t, a, d, load))
    BY <2>1, SetsOfItems, FewerItems
  <2>3. /\ Cardinality(LeftUnsent(w, a, d, more)) \in Nat
        /\ Cardinality(LeftUnsent(t, a, d, load)) \in Nat
    BY SetsOfItems, ItemsAreFinite
  <2>4. QED
    BY <1>1, <1>2, <2>2, <2>3
<1>7. w.success + w.fail + Cardinality(d) + Cardinality(Current(w)) = Cardinality(a)
  BY <1>1, <1>2, <1>3
<1>8. QED
  BY <1>1, <1>4, <1>5, <1>6, <1>7 DEF RunOK, BusyAt

\* It goes on: accepted on some channels when it has no job, or given a job that
\* is not the last one.
LEMMA WorkedOnItem ==
    ASSUME NEW t \in RunType, NEW w \in RunType,
           NEW a \in SUBSET TriggerItems, NEW d \in SUBSET TriggerItems,
           NEW acc \in OnChannels, NEW load \in OnChannels,
           NEW more \in OnChannels, NEW taken \in OnChannels,
           RunOK(t, a, d, acc, load), t.pc \in BusyAt,
           w.pc \in BusyAt, w.pc # "reserve",
           w.item = t.item, w.success = t.success, w.fail = t.fail,
           \A i \in TriggerItems : i # t.item => more[i] = load[i] /\ taken[i] = acc[i],
           \/ more = load /\ taken = acc
           \/ more = load /\ t.pc = "reserve"
           \/ taken = acc /\ load[t.item] # acc[t.item]
    PROVE  RunOK(w, a, d, taken, more)
<1>1. /\ t.pc # "done" /\ w.pc # "done" /\ w.pc # "idle"
      /\ t.item \in a \ d /\ t.item \in TriggerItems
      /\ d \subseteq a /\ (\A i \in d : load[i] = {})
      /\ t.pc = "reserve" => load[t.item] = {}
      /\ t.success + t.fail + Cardinality(d) + Cardinality(Current(t)) = Cardinality(a)
      /\ t.success <= Cardinality(CompleteIn(acc, load))
      /\ Cardinality(LeftUnsent(t, a, d, load)) <= t.fail
  BY DEF RunOK, BusyAt
<1>2. t.success \in Nat /\ t.fail \in Nat /\ Cardinality(d) \in Nat
  BY ItemsAreFinite DEF RunType
<1>3. Current(t) = {t.item} /\ Current(w) = {t.item}
  BY DEF Current
<1>4. \A i \in d : more[i] = {}
  BY <1>1
<1>5. w.success <= Cardinality(CompleteIn(taken, more))
  <2>1. t.item \in CompleteIn(acc, load) => t.item \in CompleteIn(taken, more)
    BY <1>1 DEF CompleteIn
  <2>2. CompleteIn(acc, load) \subseteq CompleteIn(taken, more)
    BY <2>1 DEF CompleteIn
  <2>3. Cardinality(CompleteIn(acc, load)) <= Cardinality(CompleteIn(taken, more))
    BY <2>2, SetsOfItems, FewerItems
  <2>4. Cardinality(CompleteIn(acc, load)) \in Nat /\ Cardinality(CompleteIn(taken, more)) \in Nat
    BY SetsOfItems, ItemsAreFinite
  <2>5. QED
    BY <1>1, <1>2, <2>3, <2>4
<1>6. LeftUnsent(w, a, d, more) = LeftUnsent(t, a, d, load)
  BY <1>3 DEF LeftUnsent, UnsentIn
<1>7. QED
  BY <1>1, <1>3, <1>4, <1>5, <1>6 DEF RunOK, BusyAt

\* It is come to; one that is not valid is counted as failed at once.
LEMMA TakenItem ==
    ASSUME NEW t \in RunType, NEW w \in RunType, NEW i \in TriggerItems,
           NEW a \in SUBSET TriggerItems, NEW d \in SUBSET TriggerItems,
           NEW acc \in OnChannels, NEW load \in OnChannels,
           RunOK(t, a, d, acc, load), t.pc = "items", i \in d,
           \/ w.pc = "reserve" /\ w.item = i /\ w.success = t.success /\ w.fail = t.fail
           \/ w.pc = "items" /\ w.success = t.success /\ w.fail = t.fail + 1
    PROVE  RunOK(w, a, d \ {i}, acc, load)
<1>1. /\ d \subseteq a /\ (\A k \in d : load[k] = {})
      /\ t.success + t.fail + Cardinality(d) + Cardinality(Current(t)) = Cardinality(a)
      /\ t.success <= Cardinality(CompleteIn(acc, load))
      /\ Cardinality(LeftUnsent(t, a, d, load)) <= t.fail
  BY DEF RunOK
<1>2. t.success \in Nat /\ t.fail \in Nat /\ Cardinality(d) \in Nat
  BY ItemsAreFinite DEF RunType
<1>3. Cardinality(Current(t)) = 0 /\ Current(t) = {}
  BY SizeOfCurrent DEF Current, BusyAt
<1>4. Cardinality(d \ {i}) = Cardinality(d) - 1
  BY OneItemMore
<1>5. CASE w.pc = "reserve" /\ w.item = i /\ w.success = t.success /\ w.fail = t.fail
  <2>1. Cardinality(Current(w)) = 1 /\ Current(w) = {i}
    BY <1>5, SizeOfCurrent DEF Current, BusyAt
  <2>2. LeftUnsent(w, a, d \ {i}, load) = LeftUnsent(t, a, d, load)
    BY <1>3, <2>1 DEF LeftUnsent
  <2>3. w.success + w.fail + Cardinality(d \ {i}) + Cardinality(Current(w)) = Cardinality(a)
    BY <1>1, <1>2, <1>3, <1>4, <1>5, <2>1
  <2>4. i \in a \ (d \ {i}) /\ load[i] = {}
    BY <1>1
  <2>5. QED
    BY <1>1, <1>5, <2>2, <2>3, <2>4 DEF RunOK, BusyAt
<1>6. CASE w.pc = "items" /\ w.success = t.success /\ w.fail = t.fail + 1
  <2>1. Cardinality(Current(w)) = 0 /\ Current(w) = {}
    BY <1>6, SizeOfCurrent DEF Current, BusyAt
  <2>2. LeftUnsent(w, a, d \ {i}, load) \subseteq LeftUnsent(t, a, d, load) \cup {i}
    BY <1>3, <2>1 DEF LeftUnsent
  <2>3. Cardinality(LeftUnsent(w, a, d \ {i}, load)) <= Cardinality(LeftUnsent(t, a, d, load)) + 1
    BY <2>2, SetsOfItems, AtMostOneMore
  <2>4. /\ Cardinality(LeftUnsent(w, a, d \ {i}, load)) \in Nat
        /\ Cardinality(LeftUnsent(t, a, d, load)) \in Nat
    BY SetsOfItems, ItemsAreFinite
  <2>5. Cardinality(LeftUnsent(w, a, d \ {i}, load)) <= w.fail
    BY <1>1, <1>2, <1>6, <2>3, <2>4
  <2>6. w.success + w.fail + Cardinality(d \ {i}) + Cardinality(Current(w)) = Cardinality(a)
    BY <1>1, <1>2, <1>3, <1>4, <1>6, <2>1
  <2>7. QED
    BY <1>1, <1>6, <2>5, <2>6 DEF RunOK, BusyAt
<1>7. QED
  BY <1>5, <1>6

\* The data source answers.
LEMMA AnsweredRun ==
    ASSUME NEW t \in RunType, NEW w \in RunType,
           NEW a \in SUBSET TriggerItems, NEW d \in SUBSET TriggerItems,
           NEW items \in SUBSET TriggerItems,
           NEW acc \in OnChannels, NEW load \in OnChannels,
           RunOK(t, a, d, acc, load), t.pc = "idle",
           w.pc = "items", w.success = t.success, w.fail = t.fail
    PROVE  RunOK(w, items, items, acc, load)
<1>1. t.success = 0 /\ t.fail = 0 /\ \A i \in TriggerItems : load[i] = {}
  BY DEF RunOK
<1>2. Cardinality(Current(w)) = 0
  BY SizeOfCurrent DEF BusyAt
<1>3. Cardinality(items) \in Nat /\ Cardinality(CompleteIn(acc, load)) \in Nat
  BY ItemsAreFinite, SetsOfItems
<1>4. Cardinality(LeftUnsent(w, items, items, load)) = 0
  <2>1. LeftUnsent(w, items, items, load) = {}
    BY DEF LeftUnsent, UnsentIn
  <2>2. QED
    BY <2>1, FS_EmptySet
<1>5. QED
  BY <1>1, <1>2, <1>3, <1>4 DEF RunOK, BusyAt

-----------------------------------------------------------------------------
(* The steps *)

\* A step of one run, which no log tells of yet, and the log it may add.
LEMMA OneRunKeeps ==
    ASSUME TriggerInv, NEW r \in Triggers, trigger[r].pc # "done",
           NEW t \in RunType, NEW a \in SUBSET TriggerItems, NEW d \in SUBSET TriggerItems,
           NEW acc \in OnChannels, NEW load \in OnChannels, RunOK(t, a, d, acc, load),
           trigger' = [trigger EXCEPT ![r] = t],
           answered' = [answered EXCEPT ![r] = a],
           todoItems' = [todoItems EXCEPT ![r] = d],
           acceptedOn' = [acceptedOn EXCEPT ![r] = acc],
           jobsOf' = [jobsOf EXCEPT ![r] = load],
           \A l \in triggerLogs' :
              l \in triggerLogs \/ (l.by = r /\ t.pc = "done" /\ LogOK(l, a, acc, load))
    PROVE  TriggerInv'
<1>1. /\ trigger \in [Triggers -> RunType]
      /\ answered \in [Triggers -> SUBSET TriggerItems]
      /\ todoItems \in [Triggers -> SUBSET TriggerItems]
      /\ acceptedOn \in [Triggers -> OnChannels]
      /\ jobsOf \in [Triggers -> OnChannels]
  BY DEF TriggerInv
<1>2. /\ trigger' \in [Triggers -> RunType]
      /\ answered' \in [Triggers -> SUBSET TriggerItems]
      /\ todoItems' \in [Triggers -> SUBSET TriggerItems]
      /\ acceptedOn' \in [Triggers -> OnChannels]
      /\ jobsOf' \in [Triggers -> OnChannels]
  BY <1>1
<1>3. /\ trigger'[r] = t /\ answered'[r] = a /\ todoItems'[r] = d
      /\ acceptedOn'[r] = acc /\ jobsOf'[r] = load
  BY <1>1
<1>4. \A x \in Triggers : x # r =>
          /\ trigger'[x] = trigger[x] /\ answered'[x] = answered[x]
          /\ todoItems'[x] = todoItems[x] /\ acceptedOn'[x] = acceptedOn[x]
          /\ jobsOf'[x] = jobsOf[x]
  BY <1>1
<1>5. ASSUME NEW x \in Triggers
      PROVE  RunOK(trigger'[x], answered'[x], todoItems'[x], acceptedOn'[x], jobsOf'[x])
  <2>1. CASE x = r
    BY <1>3, <2>1
  <2>2. CASE x # r
    BY <1>4, <2>2 DEF TriggerInv
  <2>3. QED
    BY <2>1, <2>2
<1>6. ASSUME NEW l \in triggerLogs'
      PROVE  /\ l.by \in Triggers /\ trigger'[l.by].pc = "done"
             /\ LogOK(l, answered'[l.by], acceptedOn'[l.by], jobsOf'[l.by])
  <2>1. CASE l \in triggerLogs
    <3>1. l.by \in Triggers /\ l.by # r
      BY <2>1 DEF TriggerInv
    <3>2. QED
      BY <1>4, <2>1, <3>1 DEF TriggerInv
  <2>2. CASE l.by = r /\ t.pc = "done" /\ LogOK(l, a, acc, load)
    BY <1>3, <2>2
  <2>3. QED
    BY <2>1, <2>2
<1>7. QED
  BY <1>2, <1>5, <1>6 DEF TriggerInv

\* What a run is before its step.
LEMMA TheRun ==
    ASSUME TriggerInv, NEW r \in Triggers
    PROVE  \E t \in RunType, a, d \in SUBSET TriggerItems, acc, load \in OnChannels :
              /\ t = trigger[r] /\ a = answered[r] /\ d = todoItems[r]
              /\ acc = acceptedOn[r] /\ load = jobsOf[r]
              /\ RunOK(t, a, d, acc, load)
<1>1. QED
  BY DEF TriggerInv

\* A run that does something else leaves these as they are.
LEMMA SameOf ==
    ASSUME TriggerInv, NEW r \in Triggers
    PROVE  /\ answered = [answered EXCEPT ![r] = answered[r]]
           /\ todoItems = [todoItems EXCEPT ![r] = todoItems[r]]
           /\ acceptedOn = [acceptedOn EXCEPT ![r] = acceptedOn[r]]
           /\ jobsOf = [jobsOf EXCEPT ![r] = jobsOf[r]]
           /\ trigger = [trigger EXCEPT ![r] = trigger[r]]
<1>1. QED
  BY DEF TriggerInv

LEMMA TriggerInitInv == TriggerInit => TriggerInv
<1> SUFFICES ASSUME TriggerInit PROVE TriggerInv
  OBVIOUS
<1>1. /\ trigger \in [Triggers -> RunType]
      /\ answered \in [Triggers -> SUBSET TriggerItems]
      /\ todoItems \in [Triggers -> SUBSET TriggerItems]
      /\ acceptedOn \in [Triggers -> OnChannels]
      /\ jobsOf \in [Triggers -> OnChannels]
  BY DEF TriggerInit, RunType, OnChannels
<1>2. ASSUME NEW r \in Triggers
      PROVE  RunOK(trigger[r], answered[r], todoItems[r], acceptedOn[r], jobsOf[r])
  <2>1. PICK t \in RunType : t = trigger[r]
    BY <1>1
  <2>2. t.pc = "idle" /\ t.success = 0 /\ t.fail = 0
    BY <2>1 DEF TriggerInit
  <2>3. PICK load \in OnChannels : load = jobsOf[r] /\ \A i \in TriggerItems : load[i] = {}
    BY <1>1 DEF TriggerInit
  <2>4. PICK acc \in OnChannels : acc = acceptedOn[r]
    BY <1>1
  <2>5. Cardinality(Current(t)) = 0 /\ Cardinality({}) = 0
    BY <2>2, SizeOfCurrent, FS_EmptySet DEF BusyAt
  <2>6. LeftUnsent(t, {}, {}, load) = {}
    BY DEF LeftUnsent, UnsentIn
  <2>7. Cardinality(CompleteIn(acc, load)) \in Nat
    BY SetsOfItems, ItemsAreFinite
  <2>8. RunOK(t, {}, {}, acc, load)
    BY <2>2, <2>3, <2>5, <2>6, <2>7 DEF RunOK, BusyAt
  <2>9. answered[r] = {} /\ todoItems[r] = {}
    BY DEF TriggerInit
  <2>10. QED
    BY <2>1, <2>3, <2>4, <2>8, <2>9
<1>3. triggerLogs = {}
  BY DEF TriggerInit
<1>4. QED
  BY <1>1, <1>2, <1>3 DEF TriggerInv

LEMMA GoesTo ==
    ASSUME TriggerInv, NEW r \in Triggers, NEW t \in RunType, t = trigger[r],
           NEW pc \in {"idle", "items", "reserve", "insert", "enqueue", "done"}, TriggerAt(r, pc)
    PROVE  \E w \in RunType : /\ trigger' = [trigger EXCEPT ![r] = w] /\ w.pc = pc
                              /\ w.item = t.item /\ w.success = t.success /\ w.fail = t.fail
<1>1. PICK w : w = [t EXCEPT !.pc = pc]
  OBVIOUS
<1>2. w \in RunType /\ w.pc = pc /\ w.item = t.item /\ w.success = t.success /\ w.fail = t.fail
  BY <1>1 DEF RunType
<1>3. trigger' = [trigger EXCEPT ![r] = w]
  BY <1>1 DEF TriggerAt, TriggerInv
<1>4. QED
  BY <1>2, <1>3

LEMMA ItemIsLeft ==
    ASSUME TriggerInv, NEW r \in Triggers, NEW t \in RunType, t = trigger[r]
    PROVE  /\ ItemFails(r) =>
                \E w \in RunType : /\ trigger' = [trigger EXCEPT ![r] = w] /\ w.pc = "items"
                                   /\ w.success = t.success /\ w.fail = t.fail + 1
           /\ ItemSucceeds(r) =>
                \E w \in RunType : /\ trigger' = [trigger EXCEPT ![r] = w] /\ w.pc = "items"
                                   /\ w.success = t.success + 1 /\ w.fail = t.fail
<1>1. ASSUME ItemFails(r)
      PROVE  \E w \in RunType : /\ trigger' = [trigger EXCEPT ![r] = w] /\ w.pc = "items"
                                /\ w.success = t.success /\ w.fail = t.fail + 1
  <2>0. PICK n \in Nat : n = t.fail + 1
    BY DEF RunType
  <2>1. PICK w : w = [t EXCEPT !.pc = "items", !.item = NoItem, !.fail = n]
    OBVIOUS
  <2>2. w \in RunType /\ w.pc = "items" /\ w.success = t.success /\ w.fail = t.fail + 1
    BY <2>0, <2>1 DEF RunType
  <2>3. trigger' = [trigger EXCEPT ![r] = w]
    BY <1>1, <2>0, <2>1 DEF ItemFails, TriggerInv
  <2>4. QED
    BY <2>2, <2>3
<1>2. ASSUME ItemSucceeds(r)
      PROVE  \E w \in RunType : /\ trigger' = [trigger EXCEPT ![r] = w] /\ w.pc = "items"
                                /\ w.success = t.success + 1 /\ w.fail = t.fail
  <2>0. PICK n \in Nat : n = t.success + 1
    BY DEF RunType
  <2>1. PICK w : w = [t EXCEPT !.pc = "items", !.item = NoItem, !.success = n]
    OBVIOUS
  <2>2. w \in RunType /\ w.pc = "items" /\ w.success = t.success + 1 /\ w.fail = t.fail
    BY <2>0, <2>1 DEF RunType
  <2>3. trigger' = [trigger EXCEPT ![r] = w]
    BY <1>2, <2>0, <2>1 DEF ItemSucceeds, TriggerInv
  <2>4. QED
    BY <2>2, <2>3
<1>3. QED
  BY <1>1, <1>2

LEMMA AskDataSourceKeeps ==
    ASSUME TriggerInv, NEW r \in Triggers, AskDataSource(r)
    PROVE  TriggerInv'
<1>1. PICK t \in RunType, a \in SUBSET TriggerItems, d \in SUBSET TriggerItems,
           acc \in OnChannels, load \in OnChannels :
              /\ t = trigger[r] /\ a = answered[r] /\ d = todoItems[r]
              /\ acc = acceptedOn[r] /\ load = jobsOf[r]
              /\ RunOK(t, a, d, acc, load)
  BY TheRun
<1>2. PICK w \in RunType : /\ trigger' = [trigger EXCEPT ![r] = w] /\ w.pc = "items"
                           /\ w.item = t.item /\ w.success = t.success /\ w.fail = t.fail
  BY <1>1, GoesTo DEF AskDataSource
<1>3. PICK items \in SUBSET TriggerItems :
          /\ answered' = [answered EXCEPT ![r] = items]
          /\ todoItems' = [todoItems EXCEPT ![r] = items]
  BY DEF AskDataSource
<1>4. t.pc = "idle"
  BY <1>1 DEF AskDataSource
<1>5. RunOK(w, items, items, acc, load)
  BY <1>1, <1>2, <1>4, AnsweredRun
<1>6. /\ acceptedOn' = [acceptedOn EXCEPT ![r] = acc] /\ jobsOf' = [jobsOf EXCEPT ![r] = load]
      /\ triggerLogs' = triggerLogs
  BY <1>1, SameOf DEF AskDataSource
<1>7. QED
  BY <1>1, <1>2, <1>3, <1>4, <1>5, <1>6, OneRunKeeps

LEMMA DataSourceFailsKeeps ==
    ASSUME TriggerInv, NEW r \in Triggers, DataSourceFails(r)
    PROVE  TriggerInv'
<1>1. PICK t \in RunType, a \in SUBSET TriggerItems, d \in SUBSET TriggerItems,
           acc \in OnChannels, load \in OnChannels :
              /\ t = trigger[r] /\ a = answered[r] /\ d = todoItems[r]
              /\ acc = acceptedOn[r] /\ load = jobsOf[r]
              /\ RunOK(t, a, d, acc, load)
  BY TheRun
<1>2. PICK w \in RunType : /\ trigger' = [trigger EXCEPT ![r] = w] /\ w.pc = "done"
                           /\ w.item = t.item /\ w.success = t.success /\ w.fail = t.fail
  BY <1>1, GoesTo DEF DataSourceFails
<1>3. t.pc = "idle" /\ RunOK(w, a, d, acc, load)
  BY <1>1, <1>2 DEF DataSourceFails, RunOK
<1>4. /\ answered' = [answered EXCEPT ![r] = a] /\ todoItems' = [todoItems EXCEPT ![r] = d]
      /\ acceptedOn' = [acceptedOn EXCEPT ![r] = acc] /\ jobsOf' = [jobsOf EXCEPT ![r] = load]
  BY <1>1, SameOf DEF DataSourceFails
<1>5. PICK log : /\ log = [by |-> r, status |-> "failed", total |-> 0, success |-> 0, fail |-> 0]
                 /\ triggerLogs' = triggerLogs \cup {log}
  BY DEF DataSourceFails
<1>6. log.by = r /\ LogOK(log, a, acc, load)
  BY <1>5 DEF LogOK
<1>7. \A l \in triggerLogs' :
          l \in triggerLogs \/ (l.by = r /\ w.pc = "done" /\ LogOK(l, a, acc, load))
  BY <1>2, <1>5, <1>6
<1>8. trigger[r].pc # "done"
  BY <1>1, <1>3
<1>9. QED
  BY <1>2, <1>3, <1>4, <1>7, <1>8, OneRunKeeps

LEMMA TakeItemKeeps ==
    ASSUME TriggerInv, NEW r \in Triggers, NEW i \in TriggerItems, TakeItem(r, i)
    PROVE  TriggerInv'
<1>1. PICK t \in RunType, a \in SUBSET TriggerItems, d \in SUBSET TriggerItems,
           acc \in OnChannels, load \in OnChannels :
              /\ t = trigger[r] /\ a = answered[r] /\ d = todoItems[r]
              /\ acc = acceptedOn[r] /\ load = jobsOf[r]
              /\ RunOK(t, a, d, acc, load)
  BY TheRun
<1>2. t.pc = "items" /\ i \in d
  BY <1>1 DEF TakeItem
<1>3. PICK w \in RunType :
          /\ trigger' = [trigger EXCEPT ![r] = w]
          /\ \/ w.pc = "reserve" /\ w.item = i /\ w.success = t.success /\ w.fail = t.fail
             \/ w.pc = "items" /\ w.success = t.success /\ w.fail = t.fail + 1
  <2>1. CASE i.valid
    <3>1. PICK w : w = [t EXCEPT !.pc = "reserve", !.item = i]
      OBVIOUS
    <3>2. /\ w \in RunType /\ w.pc = "reserve" /\ w.item = i
          /\ w.success = t.success /\ w.fail = t.fail
      BY <3>1 DEF RunType
    <3>3. trigger' = [trigger EXCEPT ![r] = w]
      BY <1>1, <2>1, <3>1 DEF TakeItem, TriggerInv
    <3>4. QED
      BY <3>2, <3>3
  <2>2. CASE ~i.valid
    <3>1. ItemFails(r)
      BY <2>2 DEF TakeItem
    <3>2. QED
      BY <1>1, <3>1, ItemIsLeft
  <2>3. QED
    BY <2>1, <2>2
<1>4. RunOK(w, a, d \ {i}, acc, load)
  BY <1>1, <1>2, <1>3, TakenItem
<1>5. PICK less \in SUBSET TriggerItems : less = d \ {i}
  OBVIOUS
<1>6. /\ answered' = [answered EXCEPT ![r] = a] /\ todoItems' = [todoItems EXCEPT ![r] = less]
      /\ acceptedOn' = [acceptedOn EXCEPT ![r] = acc] /\ jobsOf' = [jobsOf EXCEPT ![r] = load]
      /\ triggerLogs' = triggerLogs
  BY <1>1, <1>5, SameOf DEF TakeItem
<1>7. QED
  BY <1>1, <1>2, <1>3, <1>4, <1>5, <1>6, OneRunKeeps

\* The item of a run that is busy with one.
LEMMA BusyRun ==
    ASSUME NEW t \in RunType, NEW a \in SUBSET TriggerItems, NEW d, NEW acc, NEW load,
           RunOK(t, a, d, acc, load), t.pc \in BusyAt
    PROVE  /\ t.pc # "done" /\ t.item \in TriggerItems
           /\ t.pc = "reserve" => load[t.item] = {}
<1>1. QED
  BY DEF RunOK, BusyAt

AsideFromAccepted == UNCHANGED <<answered, todoItems, jobsOf, triggerLogs>>
AsideFromJobs == UNCHANGED <<answered, todoItems, acceptedOn, triggerLogs>>

\* Its channels are accepted.
LEMMA AcceptKeeps ==
    ASSUME TriggerInv, NEW r \in Triggers, trigger[r].pc = "reserve",
           NEW channels \in SUBSET TriggerChannels, Accept(r, channels),
           AsideFromAccepted
    PROVE  TriggerInv'
<1>1. PICK t \in RunType, a \in SUBSET TriggerItems, d \in SUBSET TriggerItems,
           acc \in OnChannels, load \in OnChannels :
              /\ t = trigger[r] /\ a = answered[r] /\ d = todoItems[r]
              /\ acc = acceptedOn[r] /\ load = jobsOf[r]
              /\ RunOK(t, a, d, acc, load)
  BY TheRun
<1>2. PICK w \in RunType : /\ trigger' = [trigger EXCEPT ![r] = w] /\ w.pc = "insert"
                           /\ w.item = t.item /\ w.success = t.success /\ w.fail = t.fail
  BY <1>1, GoesTo DEF Accept
<1>3. t.pc = "reserve" /\ t.pc \in BusyAt /\ w.pc \in BusyAt /\ w.pc # "reserve"
  BY <1>1, <1>2 DEF BusyAt
<1>4. t.item \in TriggerItems
  BY <1>1, <1>3, BusyRun
<1>5. PICK taken : taken = [acc EXCEPT ![t.item] = channels]
  OBVIOUS
<1>6. taken \in OnChannels /\ \A i \in TriggerItems : i # t.item => taken[i] = acc[i]
  BY <1>5 DEF OnChannels
<1>7. acceptedOn' = [acceptedOn EXCEPT ![r] = taken]
  BY <1>1, <1>5 DEF Accept, TriggerInv
<1>8. RunOK(w, a, d, taken, load)
  BY <1>1, <1>2, <1>3, <1>6, WorkedOnItem
<1>9. /\ answered' = [answered EXCEPT ![r] = a] /\ todoItems' = [todoItems EXCEPT ![r] = d]
      /\ jobsOf' = [jobsOf EXCEPT ![r] = load] /\ triggerLogs' = triggerLogs
  BY <1>1, SameOf DEF AsideFromAccepted
<1>10. trigger[r].pc # "done"
  OBVIOUS
<1>11. \A l \in triggerLogs' :
          l \in triggerLogs \/ (l.by = r /\ w.pc = "done" /\ LogOK(l, a, taken, load))
  BY <1>9
<1>12. trigger' = [trigger EXCEPT ![r] = w]
  BY <1>2
<1>13. taken \in OnChannels
  BY <1>6
<1>14. QED
  BY <1>7, <1>8, <1>9, <1>10, <1>11, <1>12, <1>13, OneRunKeeps

\* Its item fails, with the jobs it has got.
LEMMA ItemFailsKeeps ==
    ASSUME TriggerInv, NEW r \in Triggers, trigger[r].pc \in BusyAt, ItemFails(r),
           NEW more \in OnChannels, jobsOf' = [jobsOf EXCEPT ![r] = more],
           \A i \in TriggerItems : i # trigger[r].item => more[i] = jobsOf[r][i],
           \/ more[trigger[r].item] = jobsOf[r][trigger[r].item]
           \/ jobsOf[r][trigger[r].item] # acceptedOn[r][trigger[r].item],
           AsideFromJobs
    PROVE  TriggerInv'
<1>1. PICK t \in RunType, a \in SUBSET TriggerItems, d \in SUBSET TriggerItems,
           acc \in OnChannels, load \in OnChannels :
              /\ t = trigger[r] /\ a = answered[r] /\ d = todoItems[r]
              /\ acc = acceptedOn[r] /\ load = jobsOf[r]
              /\ RunOK(t, a, d, acc, load)
  BY TheRun
<1>2. PICK w \in RunType : /\ trigger' = [trigger EXCEPT ![r] = w] /\ w.pc = "items"
                           /\ w.success = t.success /\ w.fail = t.fail + 1
  BY <1>1, ItemIsLeft
<1>3. t.pc \in BusyAt /\ t.pc # "done"
  BY <1>1 DEF BusyAt
<1>4. /\ \A i \in TriggerItems : i # t.item => more[i] = load[i]
      /\ more[t.item] = load[t.item] \/ load[t.item] # acc[t.item]
  BY <1>1
<1>5. RunOK(w, a, d, acc, more)
  BY <1>1, <1>2, <1>3, <1>4, FailedItem
<1>6. /\ answered' = [answered EXCEPT ![r] = a] /\ todoItems' = [todoItems EXCEPT ![r] = d]
      /\ acceptedOn' = [acceptedOn EXCEPT ![r] = acc] /\ triggerLogs' = triggerLogs
  BY <1>1, SameOf DEF AsideFromJobs
<1>7. trigger[r].pc # "done"
  BY <1>1, <1>3
<1>8. \A l \in triggerLogs' :
          l \in triggerLogs \/ (l.by = r /\ w.pc = "done" /\ LogOK(l, a, acc, more))
  BY <1>6
<1>9. trigger' = [trigger EXCEPT ![r] = w]
  BY <1>2
<1>10. jobsOf' = [jobsOf EXCEPT ![r] = more]
  OBVIOUS
<1>11. QED
  BY <1>5, <1>6, <1>7, <1>8, <1>9, <1>10, OneRunKeeps

LEMMA ReserveItemKeeps ==
    ASSUME TriggerInv, NEW r \in Triggers, ReserveItem(r) \/ ReserveThrows(r)
    PROVE  TriggerInv'
<1>1. PICK t \in RunType, a \in SUBSET TriggerItems, d \in SUBSET TriggerItems,
           acc \in OnChannels, load \in OnChannels :
              /\ t = trigger[r] /\ a = answered[r] /\ d = todoItems[r]
              /\ acc = acceptedOn[r] /\ load = jobsOf[r]
              /\ RunOK(t, a, d, acc, load)
  BY TheRun
<1>2. /\ trigger[r].pc = "reserve"
      /\ UNCHANGED <<answered, todoItems, jobsOf, triggerLogs>>
      /\ AsideFromAccepted
  BY DEF ReserveItem, ReserveThrows, AsideFromAccepted
<1>3. trigger[r].item \in TriggerItems
  BY <1>1, <1>2, BusyRun DEF BusyAt
<1>4. ChannelsOf(trigger[r].item) \in SUBSET TriggerChannels
  BY <1>3, TriggerAssumption
<1>5. PICK unlimited \in SUBSET TriggerChannels :
          unlimited = {c \in ChannelsOf(trigger[r].item) : trigger[r].item.quota[c] = "unlimited"}
  BY <1>4
<1>6. \/ Accept(r, ChannelsOf(trigger[r].item))
      \/ Accept(r, unlimited)
      \/ ItemFails(r) /\ UNCHANGED acceptedOn
  BY <1>5 DEF ReserveItem, ReserveThrows
<1>7. CASE Accept(r, ChannelsOf(trigger[r].item))
  BY <1>2, <1>4, <1>7, AcceptKeeps
<1>8. CASE Accept(r, unlimited)
  BY <1>2, <1>8, AcceptKeeps
<1>9. CASE ItemFails(r) /\ UNCHANGED acceptedOn
  <2>1. jobsOf' = [jobsOf EXCEPT ![r] = load] /\ trigger[r].pc \in BusyAt
    BY <1>1, <1>2, SameOf DEF BusyAt
  <2>2. AsideFromJobs
    BY <1>2, <1>9 DEF AsideFromJobs
  <2>3. QED
    BY <1>1, <1>9, <2>1, <2>2, ItemFailsKeeps
<1>10. QED
  BY <1>6, <1>7, <1>8, <1>9

LEMMA InsertItemKeeps ==
    ASSUME TriggerInv, NEW r \in Triggers, InsertItem(r)
    PROVE  TriggerInv'
<1>1. PICK t \in RunType, a \in SUBSET TriggerItems, d \in SUBSET TriggerItems,
           acc \in OnChannels, load \in OnChannels :
              /\ t = trigger[r] /\ a = answered[r] /\ d = todoItems[r]
              /\ acc = acceptedOn[r] /\ load = jobsOf[r]
              /\ RunOK(t, a, d, acc, load)
  BY TheRun
<1>2. /\ trigger[r].pc = "insert" /\ trigger[r].pc \in BusyAt
      /\ UNCHANGED <<answered, todoItems, acceptedOn, jobsOf, triggerLogs>>
  BY DEF InsertItem, BusyAt
<1>3. /\ answered' = [answered EXCEPT ![r] = a] /\ todoItems' = [todoItems EXCEPT ![r] = d]
      /\ acceptedOn' = [acceptedOn EXCEPT ![r] = acc] /\ jobsOf' = [jobsOf EXCEPT ![r] = load]
      /\ triggerLogs' = triggerLogs
  BY <1>1, <1>2, SameOf
<1>4. CASE TriggerAt(r, "enqueue")
  <2>1. PICK w \in RunType : /\ trigger' = [trigger EXCEPT ![r] = w] /\ w.pc = "enqueue"
                             /\ w.item = t.item /\ w.success = t.success /\ w.fail = t.fail
    BY <1>1, <1>4, GoesTo
  <2>2. t.pc \in BusyAt /\ w.pc \in BusyAt /\ w.pc # "reserve" /\ t.pc # "done"
    BY <1>1, <1>2, <2>1 DEF BusyAt
  <2>3. RunOK(w, a, d, acc, load)
    BY <1>1, <2>1, <2>2, WorkedOnItem
  <2>4. QED
    BY <1>1, <1>3, <2>1, <2>2, <2>3, OneRunKeeps
<1>5. CASE ItemFails(r)
  <2>1. AsideFromJobs
    BY <1>2 DEF AsideFromJobs
  <2>2. QED
    BY <1>1, <1>2, <1>3, <1>5, <2>1, ItemFailsKeeps
<1>6. QED
  BY <1>4, <1>5 DEF InsertItem

LEMMA EnqueueItemKeeps ==
    ASSUME TriggerInv, NEW r \in Triggers, NEW c \in TriggerChannels, EnqueueItem(r, c)
    PROVE  TriggerInv'
<1>1. PICK t \in RunType, a \in SUBSET TriggerItems, d \in SUBSET TriggerItems,
           acc \in OnChannels, load \in OnChannels :
              /\ t = trigger[r] /\ a = answered[r] /\ d = todoItems[r]
              /\ acc = acceptedOn[r] /\ load = jobsOf[r]
              /\ RunOK(t, a, d, acc, load)
  BY TheRun
<1>2. /\ t.pc = "enqueue" /\ t.pc \in BusyAt /\ t.pc # "done"
      /\ c \in acc[t.item] /\ c \notin load[t.item]
  BY <1>1 DEF EnqueueItem, BusyAt
<1>3. t.item \in TriggerItems
  BY <1>1, <1>2, BusyRun
<1>4. PICK now \in SUBSET TriggerChannels : now = load[t.item] \cup {c}
  BY <1>3 DEF OnChannels
<1>5. PICK more : more = [load EXCEPT ![t.item] = now]
  OBVIOUS
<1>6. /\ more \in OnChannels /\ more[t.item] = now
      /\ \A i \in TriggerItems : i # t.item => more[i] = load[i]
  BY <1>3, <1>5 DEF OnChannels
<1>7. jobsOf' = [jobsOf EXCEPT ![r] = more]
  BY <1>1, <1>4, <1>5 DEF EnqueueItem, TriggerInv
<1>8. /\ answered' = [answered EXCEPT ![r] = a] /\ todoItems' = [todoItems EXCEPT ![r] = d]
      /\ acceptedOn' = [acceptedOn EXCEPT ![r] = acc] /\ triggerLogs' = triggerLogs
  BY <1>1, SameOf DEF EnqueueItem
<1>9. load[t.item] # acc[t.item] /\ acc[t.item] # {}
  BY <1>2
<1>10. CASE now = acc[t.item]
  <2>1. ItemSucceeds(r)
    BY <1>1, <1>4, <1>10 DEF EnqueueItem
  <2>2. PICK w \in RunType : /\ trigger' = [trigger EXCEPT ![r] = w] /\ w.pc = "items"
                             /\ w.success = t.success + 1 /\ w.fail = t.fail
    BY <1>1, <2>1, ItemIsLeft
  <2>3. RunOK(w, a, d, acc, more)
    BY <1>1, <1>2, <1>6, <1>9, <1>10, <2>2, SentItem
  <2>4. QED
    BY <1>1, <1>2, <1>6, <1>7, <1>8, <2>2, <2>3, OneRunKeeps
<1>11. CASE now # acc[t.item]
  <2>1. trigger' = [trigger EXCEPT ![r] = t]
    BY <1>1, <1>4, <1>11, SameOf DEF EnqueueItem
  <2>2. t.pc # "reserve"
    BY <1>2
  <2>3. RunOK(t, a, d, acc, more)
    BY <1>1, <1>2, <1>6, <1>9, <2>2, WorkedOnItem
  <2>4. QED
    BY <1>1, <1>2, <1>6, <1>7, <1>8, <2>1, <2>3, OneRunKeeps
<1>12. QED
  BY <1>10, <1>11

LEMMA EnqueueThrowsKeeps ==
    ASSUME TriggerInv, NEW r \in Triggers, NEW c \in TriggerChannels, EnqueueThrows(r, c)
    PROVE  TriggerInv'
<1>1. PICK t \in RunType, a \in SUBSET TriggerItems, d \in SUBSET TriggerItems,
           acc \in OnChannels, load \in OnChannels :
              /\ t = trigger[r] /\ a = answered[r] /\ d = todoItems[r]
              /\ acc = acceptedOn[r] /\ load = jobsOf[r]
              /\ RunOK(t, a, d, acc, load)
  BY TheRun
<1>2. /\ trigger[r].pc = "enqueue" /\ trigger[r].pc \in BusyAt
      /\ jobsOf[r][trigger[r].item] # acceptedOn[r][trigger[r].item]
      /\ ItemFails(r) /\ AsideFromJobs
  BY DEF EnqueueThrows, BusyAt, AsideFromJobs
<1>3. t.item \in TriggerItems
  BY <1>1, <1>2, BusyRun
<1>4. CASE UNCHANGED jobsOf
  <2>1. jobsOf' = [jobsOf EXCEPT ![r] = load]
    BY <1>1, <1>4, SameOf
  <2>2. QED
    BY <1>1, <1>2, <2>1, ItemFailsKeeps
<1>5. CASE jobsOf' = [jobsOf EXCEPT ![r][trigger[r].item] = @ \cup {c}]
  <2>1. PICK more : more = [load EXCEPT ![t.item] = @ \cup {c}]
    OBVIOUS
  <2>2. /\ more \in OnChannels
        /\ \A i \in TriggerItems : i # t.item => more[i] = load[i]
    BY <1>3, <2>1 DEF OnChannels
  <2>3. jobsOf' = [jobsOf EXCEPT ![r] = more]
    BY <1>1, <1>5, <2>1 DEF TriggerInv
  <2>4. QED
    BY <1>1, <1>2, <2>2, <2>3, ItemFailsKeeps
<1>6. QED
  BY <1>4, <1>5 DEF EnqueueThrows

LEMMA LogTriggerKeeps ==
    ASSUME TriggerInv, NEW r \in Triggers, LogTrigger(r)
    PROVE  TriggerInv'
<1>1. PICK t \in RunType, a \in SUBSET TriggerItems, d \in SUBSET TriggerItems,
           acc \in OnChannels, load \in OnChannels :
              /\ t = trigger[r] /\ a = answered[r] /\ d = todoItems[r]
              /\ acc = acceptedOn[r] /\ load = jobsOf[r]
              /\ RunOK(t, a, d, acc, load)
  BY TheRun
<1>2. PICK w \in RunType : /\ trigger' = [trigger EXCEPT ![r] = w] /\ w.pc = "done"
                           /\ w.item = t.item /\ w.success = t.success /\ w.fail = t.fail
  BY <1>1, GoesTo DEF LogTrigger
<1>3. t.pc = "items" /\ d = {} /\ t.pc # "done"
  BY <1>1 DEF LogTrigger
<1>4. RunOK(w, a, d, acc, load)
  BY <1>2 DEF RunOK
<1>5. /\ answered' = [answered EXCEPT ![r] = a] /\ todoItems' = [todoItems EXCEPT ![r] = d]
      /\ acceptedOn' = [acceptedOn EXCEPT ![r] = acc] /\ jobsOf' = [jobsOf EXCEPT ![r] = load]
  BY <1>1, SameOf DEF LogTrigger
<1>6. PICK log : log = [by |-> r, status |-> LogStatus(t), total |-> Cardinality(a),
                        success |-> t.success, fail |-> t.fail]
  OBVIOUS
<1>7. triggerLogs' \subseteq triggerLogs \cup {log}
  BY <1>1, <1>6 DEF LogTrigger
<1>8. LogOK(log, a, acc, load)
  <2>1. Current(t) = {} /\ Cardinality(Current(t)) = 0 /\ Cardinality(d) = 0
    BY <1>3, SizeOfCurrent, FS_EmptySet DEF Current, BusyAt
  <2>2. LeftUnsent(t, a, d, load) = UnsentIn(a, load)
    BY <1>3, <2>1 DEF LeftUnsent
  <2>3. /\ t.success + t.fail + Cardinality(d) + Cardinality(Current(t)) = Cardinality(a)
        /\ t.success <= Cardinality(CompleteIn(acc, load))
        /\ Cardinality(LeftUnsent(t, a, d, load)) <= t.fail
    BY <1>1, <1>3 DEF RunOK
  <2>4. t.success \in Nat /\ t.fail \in Nat /\ Cardinality(a) \in Nat
    BY ItemsAreFinite DEF RunType
  <2>5. t.success + t.fail = Cardinality(a)
    BY <2>1, <2>3, <2>4
  <2>6. log.success = t.success /\ log.fail = t.fail /\ log.total = Cardinality(a)
    BY <1>6
  <2>7. QED
    BY <2>2, <2>3, <2>5, <2>6 DEF LogOK
<1>9. log.by = r
  BY <1>6
<1>10. \A l \in triggerLogs' :
          l \in triggerLogs \/ (l.by = r /\ w.pc = "done" /\ LogOK(l, a, acc, load))
  BY <1>2, <1>7, <1>8, <1>9
<1>11. trigger[r].pc # "done"
  BY <1>1, <1>3
<1>12. QED
  BY <1>2, <1>4, <1>5, <1>10, <1>11, OneRunKeeps

LEMMA TriggerDiesKeeps ==
    ASSUME TriggerInv, NEW r \in Triggers, TriggerDies(r)
    PROVE  TriggerInv'
<1>1. PICK t \in RunType, a \in SUBSET TriggerItems, d \in SUBSET TriggerItems,
           acc \in OnChannels, load \in OnChannels :
              /\ t = trigger[r] /\ a = answered[r] /\ d = todoItems[r]
              /\ acc = acceptedOn[r] /\ load = jobsOf[r]
              /\ RunOK(t, a, d, acc, load)
  BY TheRun
<1>2. PICK w \in RunType : /\ trigger' = [trigger EXCEPT ![r] = w] /\ w.pc = "done"
                           /\ w.item = t.item /\ w.success = t.success /\ w.fail = t.fail
  BY <1>1, GoesTo DEF TriggerDies
<1>3. t.pc # "done" /\ RunOK(w, a, d, acc, load)
  BY <1>1, <1>2 DEF TriggerDies, RunOK
<1>4. /\ answered' = [answered EXCEPT ![r] = a] /\ todoItems' = [todoItems EXCEPT ![r] = d]
      /\ acceptedOn' = [acceptedOn EXCEPT ![r] = acc] /\ jobsOf' = [jobsOf EXCEPT ![r] = load]
      /\ triggerLogs' = triggerLogs
  BY <1>1, SameOf DEF TriggerDies
<1>5. QED
  BY <1>1, <1>2, <1>3, <1>4, OneRunKeeps

LEMMA TriggerNextKeeps == TriggerInv /\ [TriggerNext]_triggerVars => TriggerInv'
<1> SUFFICES ASSUME TriggerInv, [TriggerNext]_triggerVars PROVE TriggerInv'
  OBVIOUS
<1>1. ASSUME UNCHANGED triggerVars PROVE TriggerInv'
  BY <1>1 DEF TriggerInv, triggerVars
<1>2. QED
  BY <1>1, AskDataSourceKeeps, DataSourceFailsKeeps, TakeItemKeeps, ReserveItemKeeps,
     InsertItemKeeps, EnqueueItemKeeps, EnqueueThrowsKeeps, LogTriggerKeeps,
     TriggerDiesKeeps DEF TriggerNext

\* The log of a triggered run adds up, counts as sent no more than was queued on
\* every channel it was accepted for, and hides no item that got no job at all:
\* for every data source, however many requests trigger at once and wherever the
\* database, Redis or the process fail (src/api/routes/schedules.js:365-560).
THEOREM LogTellsWhatWasSentAlways == TriggerSpec => []LogTellsWhatWasSent
<1>1. TriggerInv => LogTellsWhatWasSent
  <2>1. \A r : Complete(r) = CompleteIn(acceptedOn[r], jobsOf[r])
    BY DEF Complete, CompleteIn
  <2>2. \A r : Unsent(r) = UnsentIn(answered[r], jobsOf[r])
    BY DEF Unsent, UnsentIn
  <2>3. QED
    BY <2>1, <2>2 DEF TriggerInv, LogOK, LogTellsWhatWasSent
<1>2. QED
  BY <1>1, TriggerInitInv, TriggerNextKeeps, PTL DEF TriggerSpec

-----------------------------------------------------------------------------
(* NextRun: days and hours *)

LEMMA DayAndHour ==
    ASSUME NEW x \in Int
    PROVE  /\ x \div 24 \in Int /\ x % 24 \in 0..23
           /\ x = 24 * (x \div 24) + (x % 24)
  OBVIOUS

LEMMA DayOfHour ==
    ASSUME NEW d \in Int, NEW h \in 0..23
    PROVE  (24 * d + h) \div 24 = d /\ (24 * d + h) % 24 = h
  OBVIOUS

\* The day of the week w comes first k days from now, and then every seven days.
LEMMA WeekDays ==
    ASSUME NEW d \in Int, NEW w \in 0..6, NEW k, k = (w - d) % 7
    PROVE  /\ k \in 0..6 /\ (d + k) % 7 = w
           /\ (d + k + 7) % 7 = w
           /\ \A x \in Int : x >= d /\ x % 7 = w => x = d + k \/ x >= d + k + 7
  OBVIOUS
LEMMA LeastNatural ==
    ASSUME NEW S \in SUBSET Nat, S # {}
    PROVE  \E n \in S : \A m \in S : n <= m
<1> DEFINE Less == {ss \in Nat \X Nat : ss[1] < ss[2]}
<1>1. OpToRel(<, Nat) = Less
  BY DEF OpToRel
<1>2. PICK n \in S : \A m \in S : ~(<<m, n>> \in Less)
  BY <1>1, NatLessThanWellFounded, WFMin
<1>3. ASSUME NEW m \in S, m < n PROVE FALSE
  <2>1. <<m, n>> \in Less
    BY <1>3
  <2>2. QED
    BY <1>2, <2>1
<1>4. QED
  BY <1>3

\* The offset at x of a zone with these fields.
Shows(std, dst, from, until, x, o) == o = IF from <= x /\ x < until THEN dst ELSE std

LEMMA OffsetIs ==
    ASSUME NEW z \in Zones
    PROVE  /\ z.std \in -12..14 /\ z.dst \in z.std..(z.std + 2) /\ z.std \in Int /\ z.dst \in Int
           /\ z.from \in Int /\ z.until \in Int
           /\ \A x \in Int : /\ OffsetAt(z, x) \in Int /\ OffsetAt(z, x) \in -12..16
                            /\ Shows(z.std, z.dst, z.from, z.until, x, OffsetAt(z, x))
  BY NextRunAssumption DEF OffsetAt, Shows

LEMMA LocalDayIs ==
    ASSUME NEW z \in Zones, NEW t \in Int
    PROVE  /\ LocalDay(z, t) \in Int
           /\ 24 * LocalDay(z, t) <= t + OffsetAt(z, t)
           /\ t + OffsetAt(z, t) < 24 * LocalDay(z, t) + 24
<1>1. PICK o \in Int : o = OffsetAt(z, t)
  BY OffsetIs
<1>2. PICK x \in Int : x = t + o
  OBVIOUS
<1>3. LocalDay(z, t) = x \div 24
  BY <1>1, <1>2 DEF LocalDay, Local
<1>4. PICK d \in Int : d = x \div 24 /\ 24 * d <= x /\ x < 24 * d + 24
  BY DayAndHour
<1>5. QED
  BY <1>1, <1>2, <1>3, <1>4

LEMMA InstantIs ==
    ASSUME NEW z \in Zones, NEW d \in Int, NEW h \in 0..23
    PROVE  /\ InstantOf(z, d, h) = 24 * d + h - OffsetAt(z, 24 * d + h)
           /\ InstantOf(z, d, h) \in Int
<1>1. 24 * d + h \in Int
  OBVIOUS
<1>2. PICK o \in Int : o = OffsetAt(z, 24 * d + h)
  BY <1>1, OffsetIs
<1>3. QED
  BY <1>1, <1>2 DEF InstantOf

-----------------------------------------------------------------------------
(* NextRun: later than now *)

\* From day d at t to the hour h of the local day a day later, d2.
LEMMA TomorrowIsLater ==
    ASSUME NEW std \in -12..14, NEW dst \in std..(std + 2), NEW from \in Int, NEW until \in Int,
           NEW t \in Int, NEW d \in Int, NEW d2 \in Int, NEW h \in 0..23,
           NEW o \in Int, NEW o2 \in Int, NEW o3 \in Int,
           Shows(std, dst, from, until, t, o), Shows(std, dst, from, until, t + 24, o2),
           Shows(std, dst, from, until, 24 * d2 + h, o3),
           24 * d <= t + o, t + o < 24 * d + 24, 24 * d2 <= t + 24 + o2, t + 24 + o2 < 24 * d2 + 24
    PROVE  /\ 24 * d2 + h - o3 >= t - 1
           /\ 24 * d2 + h - o3 > t \/ WithinADay(until, t)
<1>1. std \in Int /\ dst \in Int
  OBVIOUS
<1>2. o \in {std, dst} /\ o2 \in {std, dst} /\ o3 \in {std, dst}
  BY DEF Shows
<1>3. 24 * d2 + h - o3 >= t - 1
  BY <1>1, <1>2
<1>4. CASE until < t - 24
  <2>1. o = std /\ o2 = std
    BY <1>1, <1>4 DEF Shows
  <2>2. d2 = d + 1
    BY <1>1, <2>1
  <2>3. 24 * d2 + h > until
    BY <1>1, <1>4, <2>1, <2>2
  <2>4. o3 = std
    BY <2>3 DEF Shows
  <2>5. QED
    BY <1>1, <1>3, <2>1, <2>2, <2>4
<1>5. CASE until > t + 24
  <2>1. CASE from <= t
    <3>1. o = dst /\ o2 = dst
      BY <1>1, <1>5, <2>1 DEF Shows
    <3>2. QED
      BY <1>1, <1>2, <1>3, <3>1
  <2>2. CASE t < from /\ from <= t + 24
    <3>1. o = std /\ o2 = dst
      BY <1>1, <1>5, <2>2 DEF Shows
    <3>2. QED
      BY <1>1, <1>2, <1>3, <3>1
  <2>3. CASE t + 24 < from
    <3>1. o = std /\ o2 = std
      BY <1>1, <1>5, <2>3 DEF Shows
    <3>2. d2 = d + 1
      BY <1>1, <3>1
    <3>3. CASE o3 = std
      BY <1>1, <1>3, <3>1, <3>2, <3>3
    <3>4. CASE o3 # std
      <4>1. from <= 24 * d2 + h
        BY <3>4 DEF Shows
      <4>2. QED
        BY <1>1, <1>2, <1>3, <2>3, <4>1
    <3>5. QED
      BY <3>3, <3>4
  <2>4. QED
    BY <2>1, <2>2, <2>3
<1>6. CASE t - 24 <= until /\ until <= t + 24
  BY <1>3, <1>6 DEF WithinADay
<1>7. QED
  BY <1>4, <1>5, <1>6

LEMMA DailyIsLater ==
    ASSUME NEW z \in Zones, NEW s, s.hours \in 0..23, NEW t \in Int
    PROVE  /\ ComputeDaily(z, s, t) \in Int /\ ComputeDaily(z, s, t) >= t - 1
           /\ ComputeDaily(z, s, t) > t \/ WithinADay(z.until, t)
<1>1. PICK h \in 0..23 : h = s.hours
  OBVIOUS
<1>2. PICK d \in Int : d = LocalDay(z, t) /\ 24 * d <= t + OffsetAt(z, t) /\ t + OffsetAt(z, t) < 24 * d + 24
  BY LocalDayIs
<1>3. PICK today \in Int : today = InstantOf(z, d, h)
  BY InstantIs
<1>4. CASE ~Past(today, t)
  <2>1. ComputeDaily(z, s, t) = today
    BY <1>1, <1>2, <1>3, <1>4 DEF ComputeDaily
  <2>2. today > t
    BY <1>4 DEF Past
  <2>3. QED
    BY <2>1, <2>2
<1>5. CASE Past(today, t)
  <2>1. PICK d2 \in Int : /\ d2 = LocalDay(z, t + 24)
                          /\ 24 * d2 <= t + 24 + OffsetAt(z, t + 24)
                          /\ t + 24 + OffsetAt(z, t + 24) < 24 * d2 + 24
    <3>1. t + 24 \in Int
      OBVIOUS
    <3>2. QED
      BY <3>1, LocalDayIs
  <2>2. ComputeDaily(z, s, t) = InstantOf(z, d2, h)
    BY <1>1, <1>2, <1>3, <1>5, <2>1 DEF ComputeDaily
  <2>3. t + 24 \in Int /\ 24 * d2 + h \in Int
    OBVIOUS
  <2>4. PICK o \in Int, o2 \in Int, o3 \in Int :
           /\ o = OffsetAt(z, t) /\ o2 = OffsetAt(z, t + 24) /\ o3 = OffsetAt(z, 24 * d2 + h)
           /\ Shows(z.std, z.dst, z.from, z.until, t, o)
           /\ Shows(z.std, z.dst, z.from, z.until, t + 24, o2)
           /\ Shows(z.std, z.dst, z.from, z.until, 24 * d2 + h, o3)
    BY <2>3, OffsetIs
  <2>5. InstantOf(z, d2, h) = 24 * d2 + h - o3 /\ InstantOf(z, d2, h) \in Int
    BY <2>4, InstantIs
  <2>6. /\ 24 * d <= t + o /\ t + o < 24 * d + 24
        /\ 24 * d2 <= t + 24 + o2 /\ t + 24 + o2 < 24 * d2 + 24
    BY <1>2, <2>1, <2>4
  <2>7. z.std \in -12..14 /\ z.dst \in z.std..(z.std + 2) /\ z.from \in Int /\ z.until \in Int
    BY OffsetIs
  <2>8. /\ 24 * d2 + h - o3 >= t - 1
        /\ 24 * d2 + h - o3 > t \/ WithinADay(z.until, t)
    BY <2>4, <2>6, <2>7, TomorrowIsLater
  <2>9. QED
    BY <2>2, <2>5, <2>8
<1>6. QED
  BY <1>4, <1>5

LEMMA WeeklyIsLater ==
    ASSUME NEW z \in Zones, NEW s, s.hours \in 0..23, s.day \in 0..6, NEW t \in Int
    PROVE  ComputeWeekly(z, s, t) \in Int /\ ComputeWeekly(z, s, t) > t
<1>1. PICK h \in 0..23 : h = s.hours
  OBVIOUS
<1>2. PICK d \in Int : d = LocalDay(z, t) /\ 24 * d <= t + OffsetAt(z, t) /\ t + OffsetAt(z, t) < 24 * d + 24
  BY LocalDayIs
<1>3. PICK k \in 0..6 : k = (s.day - d) % 7
  BY WeekDays
<1>4. PICK target \in Int : target = 24 * (d + k) + 12
  OBVIOUS
<1>5. PICK e \in Int : e = LocalDay(z, target)
  BY LocalDayIs
<1>6. PICK c \in Int : c = InstantOf(z, e, h)
  BY InstantIs
<1>7. ComputeWeekly(z, s, t) = IF Past(c, t) THEN InstantOf(z, LocalDay(z, target + 7 * 24), h) ELSE c
  BY <1>1, <1>2, <1>3, <1>4, <1>5, <1>6 DEF ComputeWeekly
<1>8. CASE ~Past(c, t)
  <2>1. c > t
    BY <1>8 DEF Past
  <2>2. QED
    BY <1>7, <1>8, <2>1
<1>9. CASE Past(c, t)
  <2>1. PICK next \in Int : next = target + 7 * 24
    OBVIOUS
  <2>2. PICK e2 \in Int, o2 \in -12..16 : /\ e2 = LocalDay(z, next) /\ o2 = OffsetAt(z, next)
                                           /\ 24 * e2 <= next + o2 /\ next + o2 < 24 * e2 + 24
    BY LocalDayIs, OffsetIs
  <2>3. 24 * e2 + h \in Int
    OBVIOUS
  <2>4. PICK o \in -12..16, o3 \in -12..16 : o = OffsetAt(z, t) /\ o3 = OffsetAt(z, 24 * e2 + h)
    BY <2>3, OffsetIs
  <2>5. InstantOf(z, e2, h) = 24 * e2 + h - o3
    BY <2>4, InstantIs
  <2>6. e2 >= d + k + 7
    BY <1>4, <2>1, <2>2
  <2>7. 24 * e2 + h - o3 > t
    BY <1>2, <2>4, <2>6
  <2>8. ComputeWeekly(z, s, t) = 24 * e2 + h - o3
    BY <1>7, <1>9, <2>1, <2>2, <2>5
  <2>9. QED
    BY <2>7, <2>8
<1>10. QED
  BY <1>8, <1>9

\* Every day of the calendar is in one month, and no day is in an earlier month
\* than the day before.
LEMMA MonthIs ==
    ASSUME NEW day \in Int, InCalendar(day)
    PROVE  /\ MonthOf(day) \in 1..(Len(MonthStart) - 1) /\ MonthOf(day) \in Nat
           /\ MonthStart[MonthOf(day)] <= day /\ day < MonthStart[MonthOf(day) + 1]
<1>1. PICK n \in Nat : /\ n = Len(MonthStart) /\ DOMAIN MonthStart = 1..n
                       /\ n > 0 /\ \A m \in 1..n : MonthStart[m] \in Int
  BY NextRunAssumption DEF InCalendar
<1>2. MonthStart[1] <= day /\ day < MonthStart[n] /\ 1 \in 1..n /\ n \in 1..n
  BY <1>1 DEF InCalendar
<1> DEFINE After == {m \in 1..n : day < MonthStart[m]}
           Holds(m) == MonthStart[m] <= day /\ (m + 1 \in DOMAIN MonthStart => day < MonthStart[m + 1])
<1>3. PICK l \in After : \A m \in After : l <= m
  <2>1. n \in After /\ After \in SUBSET Nat
    BY <1>1, <1>2
  <2>2. QED
    BY <2>1, LeastNatural
<1>4. l # 1
  BY <1>1, <1>2, <1>3
<1>5. PICK f \in Nat : f = l - 1 /\ f \in 1..n /\ f + 1 = l
  BY <1>1, <1>3, <1>4
<1>6. ~(f \in After)
  BY <1>1, <1>3, <1>5
<1>7. MonthStart[f] <= day
  BY <1>1, <1>5, <1>6
<1>8. Holds(f)
  BY <1>3, <1>5, <1>7
<1>9. PICK c \in DOMAIN MonthStart : c = MonthOf(day) /\ Holds(c)
  BY <1>1, <1>5, <1>8 DEF MonthOf
<1> HIDE DEF Holds
<1>10. c \in 1..n /\ MonthStart[c] \in Int /\ MonthStart[n] \in Int /\ MonthStart[c] <= day
  BY <1>1, <1>9 DEF Holds
<1>11. c # n
  BY <1>2, <1>10
<1>12. c + 1 \in 1..n
  BY <1>1, <1>10, <1>11
<1>13. day < MonthStart[c + 1]
  BY <1>1, <1>9, <1>12 DEF Holds
<1>14. QED
  BY <1>1, <1>9, <1>10, <1>12, <1>13

\* Month m holds day x.
HasDay(m, x) == /\ MonthStart[m] <= x
                /\ m + 1 \in DOMAIN MonthStart => x < MonthStart[m + 1]

\* The month of any day it holds.
LEMMA MonthIsOne ==
    ASSUME NEW day \in Int, NEW m \in DOMAIN MonthStart, HasDay(m, day)
    PROVE  MonthOf(day) = m
<1>1. PICK n \in Nat : DOMAIN MonthStart = 1..n /\ \A i \in 1..n : MonthStart[i] \in Int
  BY NextRunAssumption
<1> DEFINE Holds(i) == MonthStart[i] <= day /\ (i + 1 \in DOMAIN MonthStart => day < MonthStart[i + 1])
<1>2. ASSUME NEW i \in 1..n, NEW j \in 1..n, Holds(i), Holds(j), i < j PROVE FALSE
  <2>1. i + 1 \in 1..n /\ (i + 1 = j \/ i + 1 < j)
    BY <1>2
  <2>2. MonthStart[i + 1] <= MonthStart[j]
    <3>1. MonthStart[i + 1] \in Int /\ MonthStart[j] \in Int
      BY <1>1, <2>1
    <3>2. i + 1 < j => MonthStart[i + 1] + 28 <= MonthStart[j]
      BY <1>1, <2>1, NextRunAssumption
    <3>3. QED
      BY <2>1, <3>1, <3>2
  <2>3. MonthStart[i + 1] \in Int /\ MonthStart[j] \in Int /\ MonthStart[j] <= day /\ day < MonthStart[i + 1]
    BY <1>1, <1>2, <2>1
  <2>4. QED
    BY <2>2, <2>3
<1>3. PICK c \in 1..n : c = MonthOf(day) /\ Holds(c)
  <2>1. Holds(m)
    BY DEF HasDay
  <2>2. QED
    BY <1>1, <2>1 DEF MonthOf
<1>4. m \in 1..n /\ Holds(m)
  BY <1>1 DEF HasDay
<1> HIDE DEF Holds
<1>5. ~(c < m) /\ ~(m < c)
  BY <1>2, <1>3, <1>4
<1>6. QED
  BY <1>3, <1>4, <1>5

\* From the last day of a month on, at t, to the hour h of a day of the next month,
\* which begins on day first.
LEMMA NextMonthIsLater ==
    ASSUME NEW std \in -12..14, NEW dst \in std..(std + 2), NEW from \in Int, NEW until \in Int,
           NEW t \in Int, NEW d \in Int, NEW e \in Int, NEW first \in Int, NEW h \in 0..23,
           NEW o \in Int, NEW o2 \in Int,
           Shows(std, dst, from, until, t, o), Shows(std, dst, from, until, 24 * e + h, o2),
           24 * d <= t + o, t + o < 24 * d + 24, d < first, first <= e
    PROVE  /\ 24 * e + h - o2 >= t - 1
           /\ 24 * e + h - o2 > t \/ WithinADay(until, t) \/ WithinADay(from, t)
<1>1. std \in Int /\ dst \in Int
  OBVIOUS
<1>2. o \in {std, dst} /\ o2 \in {std, dst}
  BY DEF Shows
<1>3. 24 * e >= 24 * d + 24
  OBVIOUS
<1>4. 24 * e + h - o2 >= t - 1
  BY <1>1, <1>2, <1>3
<1>5. CASE o2 <= o
  BY <1>1, <1>2, <1>3, <1>4, <1>5
<1>6. CASE o2 > o
  <2>1. o = std /\ o2 = dst /\ dst # std
    BY <1>1, <1>2, <1>6
  <2>2. from <= 24 * e + h /\ 24 * e + h < until
    BY <2>1 DEF Shows
  <2>3. t < from \/ until <= t
    BY <2>1 DEF Shows
  <2>4. CASE until <= t
    <3>1. 24 * e + h >= t - 14
      BY <1>1, <1>3, <2>1
    <3>2. WithinADay(until, t)
      BY <2>2, <2>4, <3>1 DEF WithinADay
    <3>3. QED
      BY <1>4, <3>2
  <2>5. CASE t < from /\ from <= t + 24
    BY <1>4, <2>5 DEF WithinADay
  <2>6. CASE t + 24 < from
    <3>1. 24 * e + h - o2 > t
      BY <1>1, <1>2, <2>2, <2>6
    <3>2. QED
      BY <1>4, <3>1
  <2>7. QED
    BY <2>3, <2>4, <2>5, <2>6
<1>7. QED
  BY <1>1, <1>2, <1>5, <1>6

LEMMA CappedIs ==
    ASSUME NEW d \in 1..31
    PROVE  Capped(d) \in 1..28
  BY DEF Capped

\* The instant of a monthly schedule in month m.
InMonth(z, s, m) == InstantOf(z, MonthStart[m] + Capped(s.day) - 1, s.hours)

LEMMA MonthlyIs ==
    ASSUME NEW z, NEW s, NEW t, NEW m, m = MonthOf(LocalDay(z, t))
    PROVE  ComputeMonthly(z, s, t) = IF Past(InMonth(z, s, m), t) THEN InMonth(z, s, m + 1)
                                     ELSE InMonth(z, s, m)
  BY DEF ComputeMonthly, InMonth

\* The day e of month m on which it runs.
LEMMA MonthDayIs ==
    ASSUME NEW s, s.day \in 1..31, NEW m \in DOMAIN MonthStart
    PROVE  \E e \in Int : /\ e = MonthStart[m] + Capped(s.day) - 1 /\ MonthStart[m] \in Int
                          /\ MonthStart[m] <= e /\ e <= MonthStart[m] + 27
<1>1. PICK first \in Int : first = MonthStart[m]
  BY NextRunAssumption
<1>2. PICK c \in 1..28 : c = Capped(s.day)
  BY CappedIs
<1>3. PICK e \in Int : e = first + c - 1
  OBVIOUS
<1>4. QED
  BY <1>1, <1>2, <1>3

LEMMA InMonthIs ==
    ASSUME NEW z \in Zones, NEW s, NEW h \in 0..23, h = s.hours,
           NEW m, NEW e \in Int, e = MonthStart[m] + Capped(s.day) - 1
    PROVE  InMonth(z, s, m) = 24 * e + h - OffsetAt(z, 24 * e + h)
<1>1. InMonth(z, s, m) = InstantOf(z, e, h)
  BY DEF InMonth
<1>2. QED
  BY <1>1, InstantIs

LEMMA MonthlyIsLater ==
    ASSUME NEW z \in Zones, NEW s, s.hours \in 0..23, s.day \in 1..31, NEW t \in Int,
           InCalendar(LocalDay(z, t))
    PROVE  /\ ComputeMonthly(z, s, t) \in Int /\ ComputeMonthly(z, s, t) >= t - 1
           /\ ComputeMonthly(z, s, t) > t \/ WithinADay(z.until, t) \/ WithinADay(z.from, t)
<1>1. PICK h \in 0..23 : h = s.hours
  OBVIOUS
<1>2. PICK d \in Int : d = LocalDay(z, t) /\ 24 * d <= t + OffsetAt(z, t) /\ t + OffsetAt(z, t) < 24 * d + 24
  BY LocalDayIs
<1>3. PICK m \in Nat : /\ m = MonthOf(d) /\ m \in DOMAIN MonthStart /\ m + 1 \in DOMAIN MonthStart
                       /\ MonthStart[m] <= d /\ d < MonthStart[m + 1]
  <2>1. PICK n \in Nat : n = Len(MonthStart) /\ DOMAIN MonthStart = 1..n
    BY NextRunAssumption
  <2>2. InCalendar(d)
    BY <1>2
  <2>3. PICK k \in 1..(n - 1) : /\ k = MonthOf(d)
                                /\ MonthStart[k] <= d /\ d < MonthStart[k + 1]
    BY <2>1, <2>2, MonthIs
  <2>4. k \in 1..n /\ k + 1 \in 1..n /\ k \in Nat
    OBVIOUS
  <2>5. QED
    BY <2>1, <2>3, <2>4
<1>4. PICK now \in Int : now = InMonth(z, s, m)
  <2> DEFINE at == MonthStart[m] + Capped(s.day) - 1
  <2>1. PICK e \in Int : e = at
    BY <1>3, MonthDayIs
  <2>2. 24 * e + h \in Int
    OBVIOUS
  <2>3. PICK o \in Int : o = OffsetAt(z, 24 * e + h)
    BY <2>2, OffsetIs
  <2>4. InMonth(z, s, m) = 24 * e + h - OffsetAt(z, 24 * e + h)
    <3>1. InMonth(z, s, m) = InstantOf(z, at, h)
      BY <1>1 DEF InMonth
    <3>2. InstantOf(z, e, h) = 24 * e + h - OffsetAt(z, 24 * e + h)
      BY InstantIs
    <3> HIDE DEF at
    <3>3. QED
      BY <2>1, <3>1, <3>2
  <2>5. 24 * e + h - o \in Int
    OBVIOUS
  <2>6. QED
    BY <2>3, <2>4, <2>5
<1>5. ComputeMonthly(z, s, t) = IF Past(now, t) THEN InMonth(z, s, m + 1) ELSE now
  BY <1>2, <1>3, <1>4, MonthlyIs
<1>6. CASE ~Past(now, t)
  <2>1. now > t
    BY <1>6 DEF Past
  <2>2. QED
    BY <1>5, <1>6, <2>1
<1>7. CASE Past(now, t)
  <2>1. PICK n \in DOMAIN MonthStart : n = m + 1
    BY <1>3
  <2>2. PICK e \in Int : /\ e = MonthStart[n] + Capped(s.day) - 1
                         /\ MonthStart[n] \in Int /\ MonthStart[n] <= e
    BY MonthDayIs
  <2>3. PICK first \in Int : first = MonthStart[n] /\ d < first /\ first <= e
    BY <1>3, <2>1, <2>2
  <2>4. 24 * e + h \in Int
    OBVIOUS
  <2>5. PICK o2 \in Int : /\ o2 = OffsetAt(z, 24 * e + h)
                          /\ Shows(z.std, z.dst, z.from, z.until, 24 * e + h, o2)
    BY <2>4, OffsetIs
  <2>6. InMonth(z, s, n) = 24 * e + h - o2
    BY <1>1, <2>2, <2>5, InMonthIs
  <2>7. PICK o \in Int : o = OffsetAt(z, t) /\ Shows(z.std, z.dst, z.from, z.until, t, o)
    BY OffsetIs
  <2>8. PICK std \in Int, dst \in Int, from \in Int, until \in Int :
           /\ std = z.std /\ dst = z.dst /\ from = z.from /\ until = z.until
           /\ std \in -12..14 /\ dst \in std..(std + 2)
    BY OffsetIs
  <2>9. 24 * d <= t + o /\ t + o < 24 * d + 24
    BY <1>2, <2>7
  <2>10. Shows(std, dst, from, until, t, o) /\ Shows(std, dst, from, until, 24 * e + h, o2)
    BY <2>5, <2>7, <2>8
  <2>11. /\ 24 * e + h - o2 >= t - 1
         /\ 24 * e + h - o2 > t \/ WithinADay(until, t) \/ WithinADay(from, t)
    BY <2>3, <2>8, <2>9, <2>10, NextMonthIsLater
  <2>12. ComputeMonthly(z, s, t) = 24 * e + h - o2
    BY <1>5, <1>7, <2>1, <2>6
  <2>13. QED
    BY <2>8, <2>11, <2>12
<1>8. QED
  BY <1>6, <1>7

-----------------------------------------------------------------------------
(* NextRun: the first such instant, away from clock changes *)

\* Up to two days around the interval the clock shows one offset.
LEMMA SteadyClock ==
    ASSUME NEW z \in Zones, NEW t \in Int, NEW n \in Int, n >= t - 1, NoClockChange(z, t, n),
           NEW x \in Int, t - 48 <= x, x <= n + 48
    PROVE  OffsetAt(z, x) = OffsetAt(z, t)
<1>1. PICK from \in Int, until \in Int : from = z.from /\ until = z.until
  BY OffsetIs
<1>2. from < t - 48 \/ n + 48 < from
  BY <1>1 DEF NoClockChange
<1>3. until < t - 48 \/ n + 48 < until
  BY <1>1 DEF NoClockChange
<1>4. (from <= x <=> from <= t) /\ (x < until <=> t < until)
  BY <1>2, <1>3
<1>5. QED
  BY <1>1, <1>4 DEF OffsetAt

\* The instant of a day, when the clock does not change around it.
LEMMA SteadyInstant ==
    ASSUME NEW z \in Zones, NEW t \in Int, NEW n \in Int, n >= t - 1, NoClockChange(z, t, n),
           NEW e \in Int, NEW h \in 0..23, n = InstantOf(z, e, h)
    PROVE  n = 24 * e + h - OffsetAt(z, t)
<1>1. PICK wall \in Int : wall = 24 * e + h
  OBVIOUS
<1>2. PICK o \in Int : o = OffsetAt(z, wall) /\ o \in -12..16
  BY OffsetIs
<1>3. n = wall - o
  <2>1. InstantOf(z, e, h) = 24 * e + h - OffsetAt(z, 24 * e + h)
    BY InstantIs
  <2>2. QED
    BY <1>1, <1>2, <2>1
<1>4. t - 48 <= wall /\ wall <= n + 48
  BY <1>2, <1>3
<1>5. o = OffsetAt(z, t)
  BY <1>2, <1>4, SteadyClock
<1>6. QED
  BY <1>1, <1>3, <1>5

\* The local day of an instant near the interval.
LEMMA SteadyDay ==
    ASSUME NEW z \in Zones, NEW t \in Int, NEW n \in Int, n >= t - 1, NoClockChange(z, t, n),
           NEW o \in Int, o = OffsetAt(z, t),
           NEW x \in Int, t - 48 <= x, x <= n + 48
    PROVE  /\ LocalDay(z, x) \in Int
           /\ 24 * LocalDay(z, x) <= x + o /\ x + o < 24 * LocalDay(z, x) + 24
  BY SteadyClock, LocalDayIs

LEMMA DayOfHit ==
    ASSUME NEW z \in Zones, NEW s, NEW x \in Int, Hits(z, s, x)
    PROVE  /\ RunsOn(s, LocalDay(z, x))
           /\ \E d \in Int : d = LocalDay(z, x) /\ x = 24 * d + s.hours - OffsetAt(z, x)
<1>1. PICK o \in Int : o = OffsetAt(z, x)
  BY OffsetIs
<1>2. PICK l \in Int : l = x + o
  OBVIOUS
<1>3. l % 24 = s.hours /\ LocalDay(z, x) = l \div 24 /\ RunsOn(s, LocalDay(z, x))
  BY <1>1, <1>2 DEF Hits, Local, LocalDay
<1>4. PICK d \in Int, h \in Int : d = l \div 24 /\ h = l % 24 /\ l = 24 * d + h
  BY DayAndHour
<1>5. x = 24 * d + h - o
  BY <1>2, <1>4
<1>6. QED
  BY <1>1, <1>3, <1>4, <1>5

LEMMA HitsOnDay ==
    ASSUME NEW z \in Zones, NEW s, NEW h \in 0..23, h = s.hours, NEW x \in Int,
           NEW o \in Int, o = OffsetAt(z, x), NEW d \in Int, x = 24 * d + h - o, RunsOn(s, d)
    PROVE  Hits(z, s, x)
<1>1. PICK l \in Int : l = x + o /\ l = 24 * d + h
  OBVIOUS
<1>2. l \div 24 = d /\ l % 24 = h
  BY <1>1, DayOfHour
<1>3. QED
  BY <1>1, <1>2 DEF Hits, Local, LocalDay

\* On no day from d on and before e would the schedule run after t.
NoneBetween(s, d, e, h, o, t) ==
    \A x \in Int : d <= x /\ x < e /\ RunsOn(s, x) => 24 * x + h - o <= t

\* The instant n of a day e the schedule runs on is the first after t, if on none of
\* the days between it would have run after t.
LEMMA FirstHit ==
    ASSUME NEW z \in Zones, NEW s, NEW h \in 0..23, h = s.hours, NEW t \in Int, NEW n \in Int,
           NEW o \in Int, o = OffsetAt(z, t), NEW e \in Int, RunsOn(s, e),
           n = 24 * e + h - o, n > t, NoClockChange(z, t, n),
           NEW d \in Int, 24 * d <= t + o, NoneBetween(s, d, e, h, o, t)
    PROVE  /\ Hits(z, s, n)
           /\ \A x \in (t + 1)..(n - 1) : ~Hits(z, s, x)
<1>1. ASSUME NEW x \in Int, t <= x, x <= n
      PROVE  o = OffsetAt(z, x)
  <2>1. t - 48 <= x /\ x <= n + 48
    BY <1>1
  <2>2. QED
    BY <2>1, SteadyClock
<1>2. Hits(z, s, n)
  BY <1>1, HitsOnDay
<1>3. ASSUME NEW x \in (t + 1)..(n - 1), Hits(z, s, x) PROVE FALSE
  <2>1. x \in Int /\ t < x /\ x < n /\ o = OffsetAt(z, x)
    BY <1>1
  <2>2. RunsOn(s, LocalDay(z, x))
    BY <1>3, <2>1, DayOfHit
  <2>3. PICK y \in Int : y = LocalDay(z, x) /\ x = 24 * y + h - o /\ RunsOn(s, y)
    BY <1>3, <2>1, DayOfHit
  <2>4. d <= y /\ y < e
    BY <2>1, <2>3
  <2>5. 24 * y + h - o <= t
    BY <2>3, <2>4 DEF NoneBetween
  <2>6. QED
    BY <2>1, <2>3, <2>5
<1>4. QED
  BY <1>2, <1>3
\* The offset and the local day at now, and an hour of a day.
LEMMA NowIs ==
    ASSUME NEW z \in Zones, NEW t \in Int
    PROVE  \E o \in Int, d \in Int :
              /\ o = OffsetAt(z, t) /\ -12 <= o /\ o <= 16
              /\ d = LocalDay(z, t) /\ 24 * d <= t + o /\ t + o < 24 * d + 24
<1>1. PICK o \in Int : o = OffsetAt(z, t) /\ o \in -12..16
  BY OffsetIs
<1>2. PICK d \in Int : d = LocalDay(z, t) /\ 24 * d <= t + o /\ t + o < 24 * d + 24
  BY <1>1, LocalDayIs
<1>3. QED
  BY <1>1, <1>2

\* An earlier candidate, on a day from today on, and not after now.
LEMMA SteadyCandidate ==
    ASSUME NEW z \in Zones, NEW t \in Int, NEW n \in Int, n >= t - 1, NoClockChange(z, t, n),
           NEW o \in Int, o = OffsetAt(z, t), -12 <= o, o <= 16,
           NEW d \in Int, t + o < 24 * d + 24,
           NEW e \in Int, d <= e, NEW h \in 0..23, NEW c \in Int, c = InstantOf(z, e, h), c <= t
    PROVE  24 * e + h - o <= t
<1>1. PICK wall \in Int : wall = 24 * e + h
  OBVIOUS
<1>2. PICK v \in Int : v = OffsetAt(z, wall) /\ v \in -12..16
  BY OffsetIs
<1>3. c = wall - v
  <2>1. InstantOf(z, e, h) = 24 * e + h - OffsetAt(z, 24 * e + h)
    BY InstantIs
  <2>2. QED
    BY <1>1, <1>2, <2>1
<1>4. t - 48 <= wall /\ wall <= n + 48
  BY <1>1, <1>2, <1>3
<1>5. v = o
  BY <1>2, <1>4, SteadyClock
<1>6. QED
  BY <1>1, <1>3, <1>5

LEMMA DailyIsFirst ==
    ASSUME NEW z \in Zones, NEW s, NEW h \in 0..23, h = s.hours, s.frequency = "daily",
           NEW t \in Int, NEW n \in Int, n = ComputeDaily(z, s, t), n > t, NoClockChange(z, t, n)
    PROVE  Hits(z, s, n) /\ \A x \in (t + 1)..(n - 1) : ~Hits(z, s, x)
<1>1. PICK o \in Int, d \in Int : /\ o = OffsetAt(z, t) /\ -12 <= o /\ o <= 16
                                  /\ d = LocalDay(z, t) /\ 24 * d <= t + o /\ t + o < 24 * d + 24
  BY NowIs
<1>2. -12 <= o /\ o <= 16 /\ 24 * d <= t + o /\ t + o < 24 * d + 24
  BY <1>1
<1>3. o = OffsetAt(z, t)
  BY <1>1
<1>4. PICK today \in Int : today = InstantOf(z, d, h)
  BY InstantIs
<1>5. \A x : RunsOn(s, x)
  BY DEF RunsOn
<1>6. CASE ~Past(today, t)
  <2>1. n = InstantOf(z, d, h)
    BY <1>1, <1>4, <1>6 DEF ComputeDaily
  <2>2. n = 24 * d + h - o
    BY <1>1, <2>1, SteadyInstant
  <2>3. NoneBetween(s, d, d, h, o, t)
    BY DEF NoneBetween
  <2>4. QED
    <3>1. RunsOn(s, d)
      BY <1>5
    <3>2. QED
      BY <1>2, <1>3, <2>2, <2>3, <3>1, FirstHit
<1>7. CASE Past(today, t)
  <2>1. PICK e \in Int : e = LocalDay(z, t + 24) /\ 24 * e <= t + 24 + o /\ t + 24 + o < 24 * e + 24
    <3>1. PICK x \in Int : x = t + 24
      OBVIOUS
    <3>2. t - 48 <= x /\ x <= n + 48
      BY <3>1
    <3>3. /\ LocalDay(z, x) \in Int
          /\ 24 * LocalDay(z, x) <= x + o /\ x + o < 24 * LocalDay(z, x) + 24
      BY <1>1, <3>2, SteadyDay
    <3>4. QED
      BY <3>1, <3>3
  <2>2. e = d + 1
    <3>1. 24 * e <= t + 24 + o /\ t + 24 + o < 24 * e + 24
      BY <2>1
    <3>2. QED
      BY <1>2, <3>1
  <2>3. n = InstantOf(z, e, h)
    BY <1>1, <1>4, <1>7, <2>1 DEF ComputeDaily
  <2>4. n = 24 * e + h - o
    BY <1>1, <2>3, SteadyInstant
  <2>5. 24 * d + h - o <= t
    <3>1. today <= t /\ n >= t - 1 /\ d <= d
      BY <1>7 DEF Past
    <3>2. QED
      BY <1>2, <1>3, <1>4, <3>1, SteadyCandidate
  <2>6. NoneBetween(s, d, e, h, o, t)
    <3>1. \A x \in Int : d <= x /\ x < e => x = d
      BY <2>2
    <3>2. QED
      BY <2>5, <3>1 DEF NoneBetween
  <2>7. QED
    <3>1. RunsOn(s, e)
      BY <1>5
    <3>2. QED
      BY <1>2, <1>3, <2>4, <2>6, <3>1, FirstHit
<1>8. QED
  BY <1>6, <1>7

\* The day looked up at noon UTC of day y, when the instant n of that day is the next
\* run or later than it.
LEMMA NoonIs ==
    ASSUME NEW z \in Zones, NEW t \in Int, NEW n \in Int, n >= t - 1, NoClockChange(z, t, n),
           NEW o \in Int, o = OffsetAt(z, t), -12 <= o, o < 12,
           NEW y \in Int, t - 48 <= 24 * y + 12, 24 * y + 12 <= n + 48
    PROVE  LocalDay(z, 24 * y + 12) = y
<1>1. PICK x \in Int : x = 24 * y + 12
  OBVIOUS
<1>2. PICK e \in Int : e = LocalDay(z, x) /\ 24 * e <= x + o /\ x + o < 24 * e + 24
  BY <1>1, SteadyDay
<1>3. 24 * e <= x + o /\ x + o < 24 * e + 24
  BY <1>2
<1>4. e = y
  BY <1>1, <1>3
<1>5. QED
  BY <1>1, <1>2, <1>4

\* The instant n of the day looked up at noon UTC of day y is at most a day and an hour
\* or two before that noon.
LEMMA NoonIsNear ==
    ASSUME NEW z \in Zones, NEW y \in Int, NEW h \in 0..23, NEW n \in Int,
           n = InstantOf(z, LocalDay(z, 24 * y + 12), h)
    PROVE  24 * y + 12 <= n + 26
<1>1. PICK x \in Int : x = 24 * y + 12
  OBVIOUS
<1>2. PICK std \in Int, dst \in Int : /\ std = z.std /\ dst = z.dst
                                     /\ std <= dst /\ dst <= std + 2
  BY OffsetIs
<1>3. PICK v \in Int : v = OffsetAt(z, x) /\ v \in {std, dst}
  BY <1>2, OffsetIs DEF OffsetAt
<1>4. PICK e \in Int : e = LocalDay(z, x) /\ 24 * e <= x + v /\ x + v < 24 * e + 24
  BY <1>3, LocalDayIs
<1>5. PICK wall \in Int : wall = 24 * e + h
  OBVIOUS
<1>6. PICK w \in Int : w = OffsetAt(z, wall) /\ w \in {std, dst}
  BY <1>2, OffsetIs DEF OffsetAt
<1>7. n = wall - w
  <2>1. InstantOf(z, e, h) = 24 * e + h - OffsetAt(z, 24 * e + h)
    BY InstantIs
  <2>2. n = InstantOf(z, e, h)
    BY <1>1, <1>4
  <2>3. QED
    BY <1>5, <1>6, <2>1, <2>2
<1>8. x + v < 24 * e + 24 /\ w <= v + 2
  BY <1>2, <1>3, <1>4, <1>6
<1>9. QED
  BY <1>1, <1>5, <1>7, <1>8

LEMMA WeeklyIsFirst ==
    ASSUME NEW z \in Zones, NEW s, NEW h \in 0..23, h = s.hours, s.frequency = "weekly",
           s.day \in 0..6, NEW t \in Int, OffsetAt(z, t) < 12,
           NEW n \in Int, n = ComputeWeekly(z, s, t), n > t, NoClockChange(z, t, n)
    PROVE  Hits(z, s, n) /\ \A x \in (t + 1)..(n - 1) : ~Hits(z, s, x)
<1>1. PICK o \in Int, d \in Int : /\ o = OffsetAt(z, t) /\ -12 <= o /\ o <= 16
                                  /\ d = LocalDay(z, t) /\ 24 * d <= t + o /\ t + o < 24 * d + 24
  BY NowIs
<1>2. o < 12 /\ -12 <= o /\ o <= 16 /\ 24 * d <= t + o /\ t + o < 24 * d + 24
  BY <1>1
<1>3. o = OffsetAt(z, t) /\ d = LocalDay(z, t)
  BY <1>1
<1>4. PICK w \in 0..6 : w = s.day
  OBVIOUS
<1>5. PICK k \in 0..6 : /\ k = (w - d) % 7 /\ (d + k) % 7 = w /\ (d + k + 7) % 7 = w
                        /\ \A x \in Int : x >= d /\ x % 7 = w => x = d + k \/ x >= d + k + 7
  <2>1. PICK j \in 0..6 : j = (w - d) % 7
    OBVIOUS
  <2>2. /\ j \in 0..6 /\ (d + j) % 7 = w /\ (d + j + 7) % 7 = w
        /\ \A x \in Int : x >= d /\ x % 7 = w => x = d + j \/ x >= d + j + 7
    BY <2>1
  <2>3. QED
    BY <2>1, <2>2
<1>6. PICK y \in Int, y2 \in Int : y = d + k /\ y2 = d + k + 7
  OBVIOUS
<1>7. \A x \in Int : RunsOn(s, x) <=> x % 7 = w
  BY <1>4 DEF RunsOn
<1>8. PICK c \in Int : c = InstantOf(z, LocalDay(z, 24 * y + 12), h)
  <2>1. 24 * y + 12 \in Int
    OBVIOUS
  <2>2. LocalDay(z, 24 * y + 12) \in Int
    BY <2>1, LocalDayIs
  <2>3. QED
    BY <2>2, InstantIs
<1>9. n = IF Past(c, t) THEN InstantOf(z, LocalDay(z, 24 * y2 + 12), h) ELSE c
  <2>1. s.day - LocalDay(z, t) = w - d
    BY <1>3, <1>4
  <2>2. 24 * y + 12 + 7 * 24 = 24 * y2 + 12
    BY <1>6
  <2>3. 24 * (LocalDay(z, t) + ((s.day - LocalDay(z, t)) % 7)) + 12 = 24 * y + 12
    BY <1>3, <1>5, <1>6, <2>1
  <2>4. QED
    BY <1>8, <2>2, <2>3 DEF ComputeWeekly
<1>10. t - 48 <= 24 * y + 12 /\ t - 48 <= 24 * y2 + 12
  BY <1>2, <1>5, <1>6
<1>11. RunsOn(s, y) /\ RunsOn(s, y2)
  BY <1>5, <1>6, <1>7
<1>12. CASE ~Past(c, t)
  <2>1. n = c
    BY <1>9, <1>12
  <2>2. 24 * y + 12 <= n + 26
    BY <1>8, <2>1, NoonIsNear
  <2>3. 24 * y + 12 <= n + 48 /\ n >= t - 1
    BY <2>2
  <2>4. LocalDay(z, 24 * y + 12) = y
    BY <1>2, <1>3, <1>10, <2>3, NoonIs
  <2>5. n = InstantOf(z, y, h)
    BY <1>8, <2>1, <2>4
  <2>6. n = 24 * y + h - o
    BY <1>3, <2>3, <2>5, SteadyInstant
  <2>7. NoneBetween(s, d, y, h, o, t)
    <3>1. ASSUME NEW x \in Int, d <= x, x < y, RunsOn(s, x) PROVE FALSE
      BY <1>5, <1>6, <1>7, <3>1
    <3>2. QED
      BY <3>1 DEF NoneBetween
  <2>8. QED
    BY <1>2, <1>3, <1>11, <2>6, <2>7, FirstHit
<1>13. CASE Past(c, t)
  <2>1. n = InstantOf(z, LocalDay(z, 24 * y2 + 12), h)
    BY <1>9, <1>13
  <2>2. 24 * y2 + 12 <= n + 26
    BY <2>1, NoonIsNear
  <2>3. 24 * y2 + 12 <= n + 48 /\ 24 * y + 12 <= n + 48 /\ n >= t - 1
    BY <1>6, <2>2
  <2>4. LocalDay(z, 24 * y + 12) = y
    BY <1>2, <1>3, <1>10, <2>3, NoonIs
  <2>5. LocalDay(z, 24 * y2 + 12) = y2
    BY <1>2, <1>3, <1>10, <2>3, NoonIs
  <2>6. n = InstantOf(z, y2, h)
    BY <2>1, <2>5
  <2>7. n = 24 * y2 + h - o
    BY <1>3, <2>3, <2>6, SteadyInstant
  <2>8. 24 * y + h - o <= t
    <3>1. c <= t /\ d <= y
      BY <1>5, <1>6, <1>13 DEF Past
    <3>2. c = InstantOf(z, y, h)
      BY <1>8, <2>4
    <3>3. QED
      BY <1>2, <1>3, <2>3, <3>1, <3>2, SteadyCandidate
  <2>9. NoneBetween(s, d, y2, h, o, t)
    <3>1. ASSUME NEW x \in Int, d <= x, x < y2, RunsOn(s, x) PROVE x = y
      BY <1>5, <1>6, <1>7, <3>1
    <3>2. QED
      BY <2>8, <3>1 DEF NoneBetween
  <2>10. QED
    BY <1>2, <1>3, <1>11, <2>7, <2>9, FirstHit
<1>14. QED
  BY <1>12, <1>13

\* The day a monthly schedule runs on in the month that begins on day first.
LEMMA OneDayAMonth ==
    ASSUME NEW s, s.frequency = "monthly", NEW cap \in 1..28, cap = Capped(s.day),
           NEW m \in DOMAIN MonthStart, NEW first \in Int, first = MonthStart[m],
           NEW x \in Int, HasDay(m, x)
    PROVE  RunsOn(s, x) <=> x = first + cap - 1
<1>1. MonthOf(x) = m
  BY MonthIsOne
<1>2. RunsOn(s, x) <=> x - first + 1 = cap
  BY <1>1 DEF RunsOn
<1>3. QED
  BY <1>2

LEMMA MonthlyIsFirst ==
    ASSUME NEW z \in Zones, NEW s, NEW h \in 0..23, h = s.hours, s.frequency = "monthly",
           s.day \in 1..31, NEW t \in Int, InCalendar(LocalDay(z, t)),
           NEW n \in Int, n = ComputeMonthly(z, s, t), n > t, NoClockChange(z, t, n)
    PROVE  Hits(z, s, n) /\ \A x \in (t + 1)..(n - 1) : ~Hits(z, s, x)
<1>1. PICK o \in Int, d \in Int : /\ o = OffsetAt(z, t) /\ -12 <= o /\ o <= 16
                                  /\ d = LocalDay(z, t) /\ 24 * d <= t + o /\ t + o < 24 * d + 24
  BY NowIs
<1>2. -12 <= o /\ o <= 16 /\ 24 * d <= t + o /\ t + o < 24 * d + 24
  BY <1>1
<1>3. o = OffsetAt(z, t) /\ d = LocalDay(z, t)
  BY <1>1
<1>4. PICK len \in Nat : len = Len(MonthStart) /\ DOMAIN MonthStart = 1..len
  BY NextRunAssumption
<1>5. PICK m \in 1..(len - 1), m2 \in 1..len :
         m = MonthOf(d) /\ m2 = m + 1 /\ MonthStart[m] <= d /\ d < MonthStart[m2]
  <2>1. InCalendar(d)
    BY <1>3
  <2>2. PICK k \in 1..(len - 1) : k = MonthOf(d) /\ MonthStart[k] <= d /\ d < MonthStart[k + 1]
    BY <1>4, <2>1, MonthIs
  <2>3. PICK k2 \in 1..len : k2 = k + 1
    OBVIOUS
  <2>4. QED
    BY <2>2, <2>3
<1>6. m \in DOMAIN MonthStart /\ m2 \in DOMAIN MonthStart /\ m + 1 \in DOMAIN MonthStart
  BY <1>4, <1>5
<1>7. PICK first \in Int, first2 \in Int :
         /\ first = MonthStart[m] /\ first2 = MonthStart[m2]
         /\ first <= d /\ d < first2 /\ first + 28 <= first2
  <2>1. MonthStart[m] \in Int /\ MonthStart[m2] \in Int
    BY <1>6, NextRunAssumption
  <2>2. m < m2
    BY <1>5
  <2>3. MonthStart[m] + 28 <= MonthStart[m2]
    BY <1>6, <2>2, NextRunAssumption
  <2>4. QED
    BY <1>5, <2>1, <2>3
<1>8. PICK cap \in 1..28 : cap = Capped(s.day)
  BY CappedIs
<1>9. PICK e \in Int, e2 \in Int : e = first + cap - 1 /\ e2 = first2 + cap - 1
  OBVIOUS
<1>10. first <= e /\ e < first2 /\ first2 <= e2
  BY <1>7, <1>9
<1>11. ASSUME NEW x \in Int, first <= x, x < first2
       PROVE  RunsOn(s, x) <=> x = e
  <2>1. HasDay(m, x)
    BY <1>5, <1>7, <1>11 DEF HasDay
  <2>2. RunsOn(s, x) <=> x = first + cap - 1
    BY <1>6, <1>7, <1>8, <1>11, <2>1, OneDayAMonth
  <2>3. QED
    BY <1>9, <2>2
<1>12. ASSUME NEW x \in Int, first2 <= x, x <= e2
       PROVE  RunsOn(s, x) <=> x = e2
  <2>1. HasDay(m2, x)
    <3>1. SUFFICES ASSUME m2 + 1 \in DOMAIN MonthStart PROVE x < MonthStart[m2 + 1]
      BY <1>7, <1>12 DEF HasDay
    <3>2. PICK m3 \in DOMAIN MonthStart : m3 = m2 + 1
      BY <3>1
    <3>3. m2 < m3 /\ MonthStart[m3] \in Int
      <4>1. m2 < m3
        BY <1>5, <3>2
      <4>2. MonthStart[m3] \in Int
        BY <3>2, NextRunAssumption
      <4>3. QED
        BY <4>1, <4>2
    <3>4. MonthStart[m2] + 28 <= MonthStart[m3]
      BY <1>6, <3>3, NextRunAssumption
    <3>5. x < MonthStart[m3]
      BY <1>7, <1>9, <1>12, <3>3, <3>4
    <3>6. QED
      BY <3>2, <3>5
  <2>2. RunsOn(s, x) <=> x = first2 + cap - 1
    <3>1. m2 \in DOMAIN MonthStart /\ first2 = MonthStart[m2] /\ first2 <= x /\ cap = Capped(s.day)
      BY <1>6, <1>7, <1>8, <1>12
    <3>2. QED
      BY <2>1, <3>1, OneDayAMonth
  <2>3. QED
    BY <1>9, <2>2
<1>13. RunsOn(s, e) /\ RunsOn(s, e2)
  BY <1>10, <1>11, <1>12
<1>14. InMonth(z, s, m) = InstantOf(z, e, h) /\ InMonth(z, s, m2) = InstantOf(z, e2, h)
  BY <1>7, <1>8, <1>9 DEF InMonth
<1>15. PICK now \in Int : now = InstantOf(z, e, h)
  BY InstantIs
<1>16. n = IF Past(now, t) THEN InstantOf(z, e2, h) ELSE now
  <2>1. m = MonthOf(LocalDay(z, t))
    BY <1>3, <1>5
  <2>2. n = IF Past(InMonth(z, s, m), t) THEN InMonth(z, s, m2) ELSE InMonth(z, s, m)
    BY <1>5, <2>1, MonthlyIs
  <2>3. QED
    BY <1>14, <1>15, <2>2
<1>17. n >= t - 1
  OBVIOUS
<1>18. CASE ~Past(now, t)
  <2>1. n = InstantOf(z, e, h)
    BY <1>15, <1>16, <1>18
  <2>2. n = 24 * e + h - o
    BY <1>3, <1>17, <2>1, SteadyInstant
  <2>3. NoneBetween(s, d, e, h, o, t)
    <3>1. ASSUME NEW x \in Int, d <= x, x < e, RunsOn(s, x) PROVE FALSE
      <4>1. first <= x /\ x < first2
        BY <1>7, <1>10, <3>1
      <4>2. x = e
        BY <1>11, <3>1, <4>1
      <4>3. QED
        BY <3>1, <4>2
    <3>2. QED
      BY <3>1 DEF NoneBetween
  <2>4. QED
    BY <1>2, <1>3, <1>13, <2>2, <2>3, FirstHit
<1>19. CASE Past(now, t)
  <2>1. n = InstantOf(z, e2, h)
    BY <1>16, <1>19
  <2>2. n = 24 * e2 + h - o
    BY <1>3, <1>17, <2>1, SteadyInstant
  <2>3. now <= t
    BY <1>19 DEF Past
  <2>4. d <= e => 24 * e + h - o <= t
    BY <1>2, <1>3, <1>15, <1>17, <2>3, SteadyCandidate
  <2>5. NoneBetween(s, d, e2, h, o, t)
    <3>1. ASSUME NEW x \in Int, d <= x, x < e2, RunsOn(s, x) PROVE x = e
      <4>1. CASE x < first2
        BY <1>7, <1>11, <3>1, <4>1
      <4>2. CASE first2 <= x
        BY <1>12, <3>1, <4>2
      <4>3. QED
        BY <4>1, <4>2
    <3>2. QED
      BY <2>4, <3>1 DEF NoneBetween
  <2>6. QED
    BY <1>2, <1>3, <1>13, <2>2, <2>5, FirstHit
<1>20. QED
  BY <1>18, <1>19

\* What is said of the next run n of schedule s in zone z, computed at t.
First(z, s, t, n) ==
    /\ t < n \/ WithinADay(z.until, t) \/ (s.frequency = "monthly" /\ WithinADay(z.from, t))
    /\ NoClockChange(z, t, n) /\ (s.frequency = "weekly" => OffsetAt(z, t) < 12)
       => /\ t < n /\ Hits(z, s, n)
          /\ \A x \in (t + 1)..(n - 1) : ~Hits(z, s, x)

LEMMA NextRunIsLater ==
    ASSUME NEW z \in Zones, NEW s \in Recurrences, NEW t \in Int, InCalendar(LocalDay(z, t)),
           NEW n, n = ComputeNextRun(z, s, t)
    PROVE  /\ n \in Int /\ n >= t - 1
           /\ n > t \/ WithinADay(z.until, t) \/ (s.frequency = "monthly" /\ WithinADay(z.from, t))
<1>1. s.hours \in 0..23 /\ s.frequency \in {"daily", "weekly", "monthly"}
  BY NextRunAssumption
<1>2. CASE s.frequency = "daily"
  <2>1. n = ComputeDaily(z, s, t)
    BY <1>2 DEF ComputeNextRun
  <2>2. QED
    BY <1>1, <2>1, DailyIsLater
<1>3. CASE s.frequency = "weekly"
  <2>1. n = ComputeWeekly(z, s, t) /\ s.day \in 0..6
    BY <1>3, NextRunAssumption DEF ComputeNextRun
  <2>2. n \in Int /\ n > t
    BY <1>1, <2>1, WeeklyIsLater
  <2>3. QED
    BY <2>2
<1>4. CASE s.frequency = "monthly"
  <2>1. n = ComputeMonthly(z, s, t) /\ s.day \in 1..31
    BY <1>4, NextRunAssumption DEF ComputeNextRun
  <2>2. QED
    BY <1>1, <1>4, <2>1, MonthlyIsLater
<1>5. QED
  BY <1>1, <1>2, <1>3, <1>4

LEMMA NextRunIsFirst ==
    ASSUME NEW z \in Zones, NEW s \in Recurrences, NEW t \in Int, InCalendar(LocalDay(z, t)),
           NEW n, n = ComputeNextRun(z, s, t)
    PROVE  First(z, s, t, n)
<1>1. PICK h \in 0..23 : h = s.hours
  BY NextRunAssumption
<1>2. s.frequency \in {"daily", "weekly", "monthly"}
  BY NextRunAssumption
<1>3. /\ n \in Int /\ n >= t - 1
      /\ n > t \/ WithinADay(z.until, t) \/ (s.frequency = "monthly" /\ WithinADay(z.from, t))
  BY NextRunIsLater
<1>4. ASSUME NoClockChange(z, t, n) PROVE n > t
  <2>1. PICK from \in Int, until \in Int : from = z.from /\ until = z.until
    BY OffsetIs
  <2>2. (from < t - 48 \/ n + 48 < from) /\ (until < t - 48 \/ n + 48 < until)
    BY <1>4, <2>1 DEF NoClockChange
  <2>3. ~WithinADay(from, t) /\ ~WithinADay(until, t)
    BY <1>3, <2>2 DEF WithinADay
  <2>4. QED
    BY <1>3, <2>1, <2>3
<1>5. ASSUME NoClockChange(z, t, n), s.frequency = "weekly" => OffsetAt(z, t) < 12
      PROVE  Hits(z, s, n) /\ \A x \in (t + 1)..(n - 1) : ~Hits(z, s, x)
  <2>1. n \in Int /\ n > t
    BY <1>3, <1>4, <1>5
  <2>2. CASE s.frequency = "daily"
    <3>1. n = ComputeDaily(z, s, t)
      BY <2>2 DEF ComputeNextRun
    <3>2. QED
      BY <1>1, <1>5, <2>1, <2>2, <3>1, DailyIsFirst
  <2>3. CASE s.frequency = "weekly"
    <3>1. n = ComputeWeekly(z, s, t) /\ s.day \in 0..6
      BY <2>3, NextRunAssumption DEF ComputeNextRun
    <3>2. QED
      BY <1>1, <1>5, <2>1, <2>3, <3>1, WeeklyIsFirst
  <2>4. CASE s.frequency = "monthly"
    <3>1. n = ComputeMonthly(z, s, t) /\ s.day \in 1..31
      BY <2>4, NextRunAssumption DEF ComputeNextRun
    <3>2. QED
      BY <1>1, <1>5, <2>1, <2>4, <3>1, MonthlyIsFirst
  <2>5. QED
    BY <1>2, <2>2, <2>3, <2>4
<1>6. QED
  BY <1>3, <1>4, <1>5 DEF First

NextRunInv ==
    /\ zone \in Zones /\ schedule \in Recurrences
    /\ after \in Int /\ nextRun \in Int /\ runs \in Nat
    /\ runs > 0 => /\ InCalendar(LocalDay(zone, after))
                   /\ nextRun = ComputeNextRun(zone, schedule, after)

LEMMA NextRunInvStep ==
    ASSUME NextRunInv, [NextRunNext]_nextRunVars
    PROVE  NextRunInv'
<1>1. CASE NextRunNext
  <2>1. PICK late \in 0..MaxLate : ComputeRun(late)
    BY <1>1 DEF NextRunNext
  <2>2. late \in Int
    BY <2>1, NextRunAssumption
  <2>3. after' \in Int /\ runs' \in Nat
    <3>1. (IF nextRun > after THEN nextRun ELSE after) \in Int /\ after \in Int /\ runs \in Nat
      BY DEF NextRunInv
    <3>2. PICK base \in Int : base = IF nextRun > after THEN nextRun ELSE after
      BY <3>1
    <3>3. after' = (IF runs = 0 THEN after ELSE base + late) /\ runs' = runs + 1
      BY <2>1, <3>2 DEF ComputeRun
    <3>4. QED
      BY <2>2, <3>1, <3>3
  <2>4. /\ zone' = zone /\ schedule' = schedule /\ zone \in Zones /\ schedule \in Recurrences
        /\ InCalendar(LocalDay(zone, after'))
        /\ nextRun' = ComputeNextRun(zone, schedule, after')
    BY <2>1 DEF ComputeRun, NextRunInv
  <2>5. PICK t \in Int : t = after'
    BY <2>3
  <2>6. InCalendar(LocalDay(zone, t)) /\ nextRun' = ComputeNextRun(zone, schedule, t)
    BY <2>4, <2>5
  <2>7. nextRun' \in Int
    BY <2>4, <2>6, NextRunIsLater
  <2>8. InCalendar(LocalDay(zone, after))' /\ nextRun' = ComputeNextRun(zone, schedule, after)'
    BY <2>4
  <2>9. QED
    BY <2>3, <2>4, <2>7, <2>8 DEF NextRunInv
<1>2. CASE UNCHANGED nextRunVars
  BY <1>2 DEF nextRunVars, NextRunInv
<1>3. QED
  BY <1>1, <1>2

\* However the clocks change, the next run lies after "now", unless they are put back
\* within a day of it or, for a monthly schedule, put forward; and away from clock
\* changes, and west of UTC+12 for weekly schedules, it is the first instant after "now"
\* at which the local clock shows the day and the hour of the schedule, for any zone with
\* one summer time, any recurrence and any calendar (computeNextRun).
THEOREM NextRunIsTheFirstAlways == NextRunSpec => []NextRunIsTheFirst
<1>1. NextRunInit => NextRunInv
  BY NextRunAssumption DEF NextRunInit, NextRunInv
<1>2. NextRunInv /\ [NextRunNext]_nextRunVars => NextRunInv'
  BY NextRunInvStep
<1>3. NextRunInv => NextRunIsTheFirst
  <2> SUFFICES ASSUME NextRunInv, runs > 0 PROVE First(zone, schedule, after, nextRun)
    BY DEF First, NextRunIsTheFirst
  <2>1. /\ zone \in Zones /\ schedule \in Recurrences /\ after \in Int
        /\ InCalendar(LocalDay(zone, after)) /\ nextRun = ComputeNextRun(zone, schedule, after)
    BY DEF NextRunInv
  <2>2. QED
    BY <2>1, NextRunIsFirst
<1>4. QED
  BY <1>1, <1>2, <1>3, PTL DEF NextRunSpec
=============================================================================
