------------------------------ MODULE Schedules ------------------------------
(***************************************************************************)
(* src/src/workers/scheduled-notification.worker.js with the routes of     *)
(* src/src/api/routes/schedules.js, over scheduled_notifications and        *)
(* schedule_execution_logs of migration 012.  A tick locks every due        *)
(* schedule in one transaction, asks each schedule's data source for its    *)
(* notifications, writes them, the log and the schedule, commits, and then  *)
(* enqueues the jobs of all schedules.  The notifications of one schedule    *)
(* in one tick are one batch; what happens to a job is Delivery's concern.  *)
(* The manual trigger, which writes nothing to a schedule, is left out.     *)
(***************************************************************************)
EXTENDS Integers, FiniteSets

CONSTANTS
    Schedules,      \* schedule ids
    OneTime,        \* those of type one_time, the others are recurring
    Poisoned,       \* those whose notifications the database refuses, see SqlError
    Throwing,       \* those whose data source may answer with an item null
    Pollers,        \* processes that run the poller
    max_retries,    \* data source failures before a schedule is given up
    MaxRuns,        \* bound: runs of a schedule, numbered 1..MaxRuns
    MaxPatches,     \* bound: PATCH requests
    MaxFaults       \* bound: crashes and failures of the database or of Redis

ASSUME ScheduleAssumption ==
    /\ OneTime \subseteq Schedules
    /\ Poisoned \subseteq Schedules
    /\ Throwing \subseteq Schedules
    /\ max_retries \in Nat
    /\ MaxRuns \in Nat \ {0}
    /\ MaxPatches \in Nat
    /\ MaxFaults \in Nat

VARIABLES
    status,         \* the status of a schedule, "none" before it and "deleted" after
    due,            \* whether next_run_at has passed
    retry_count,    \* the retry_count, up to max_retries: nothing looks beyond
    run,            \* which run next_run_at is for
    logged,         \* runs with an execution log of their notifications
    tick,           \* what a poller is doing
    work,           \* what its transaction makes of a schedule, "unlocked" if nothing
    jobs,           \* the run whose batch it is to enqueue after COMMIT, 0 if none
    sent,           \* how often the batch of a run was enqueued: 0, 1 or 2 (more)
    ghosts,         \* runs enqueued although their transaction was rolled back
    patches,        \* PATCH requests so far
    faults          \* faults so far

rowVars == <<status, due, retry_count, run, logged>>
tickVars == <<tick, work, jobs>>
historyVars == <<sent, ghosts>>
scheduleVars == <<rowVars, tickVars, historyVars, patches, faults>>

Statuses == {"active", "paused", "completed", "failed"}
Runs == 1 .. MaxRuns
Works ==
    {"unlocked",
     "claimed",     \* locked, not processed yet
     "missed",      \* the data source failed
     "threw",       \* processSchedule threw, the transaction is as good as before
     "ran"}         \* notifications inserted

Exists(s) == status[s] \in Statuses

\* Mutant: the SELECT without FOR UPDATE.
LockedNever(s) == FALSE

Locked(s) == \E p \in Pollers : work[p][s] # "unlocked"

Fault == faults < MaxFaults /\ faults' = faults + 1
NoFault == UNCHANGED faults
NoPatch == UNCHANGED patches

Nothing == [s \in Schedules |-> "unlocked"]
NoJobs == [s \in Schedules |-> 0]

ScheduleInit ==
    /\ status = [s \in Schedules |-> "none"]
    /\ due = [s \in Schedules |-> FALSE]
    /\ retry_count = [s \in Schedules |-> 0]
    /\ run = [s \in Schedules |-> 1]
    /\ logged = [s \in Schedules |-> {}]
    /\ tick = [p \in Pollers |-> "idle"]
    /\ work = [p \in Pollers |-> Nothing]
    /\ jobs = [p \in Pollers |-> NoJobs]
    /\ sent = [s \in Schedules |-> [k \in Runs |-> 0]]
    /\ ghosts = {}
    /\ patches = 0
    /\ faults = 0

-----------------------------------------------------------------------------
(* The routes *)

\* POST /schedules, with a next_run_at to come.
CreateSchedule(s) ==
    /\ status[s] = "none"
    /\ status' = [status EXCEPT ![s] = "active"]
    /\ UNCHANGED <<due, retry_count, run, logged, tickVars, historyVars>>
    /\ NoPatch /\ NoFault

\* PATCH /schedules/:id, at the UPDATE, which waits for the row.  Of the row
\* read before only the timing is used, and the next_run_at computed from it is
\* SchedulePatches' concern; the status is the body's.  Any status may follow
\* any other; leaving completed asks for one more run.  Changed timing fields
\* recompute next_run_at, from now on for a recurring schedule and to whatever
\* run_at says for a one_time one.  retry_count is left alone.
PatchSchedule(s) ==
    /\ patches < MaxPatches
    /\ patches' = patches + 1
    /\ Exists(s) /\ ~Locked(s)
    /\ \E st \in Statuses :
         /\ status' = [status EXCEPT ![s] = st]
         /\ IF status[s] = "completed" /\ st # "completed"
            THEN run[s] + 1 < MaxRuns /\ run' = [run EXCEPT ![s] = @ + 1]
            ELSE UNCHANGED run
    /\ \E d \in {due[s], FALSE} \cup (IF s \in OneTime THEN BOOLEAN ELSE {}) :
         /\ d => run'[s] < MaxRuns
         /\ due' = [due EXCEPT ![s] = d]
    /\ UNCHANGED <<retry_count, logged, tickVars, historyVars>>
    /\ NoFault

\* DELETE /schedules/:id, which waits as well and takes the logs along.
DeleteSchedule(s) ==
    /\ Exists(s) /\ ~Locked(s)
    /\ status' = [status EXCEPT ![s] = "deleted"]
    /\ logged' = [logged EXCEPT ![s] = {}]
    /\ UNCHANGED <<due, retry_count, run, tickVars, historyVars>>
    /\ NoPatch /\ NoFault

\* next_run_at passes.
BecomesDue(s) ==
    /\ Exists(s)
    /\ run[s] < MaxRuns
    /\ due' = [due EXCEPT ![s] = TRUE]
    /\ UNCHANGED <<status, retry_count, run, logged, tickVars, historyVars>>
    /\ NoPatch /\ NoFault

-----------------------------------------------------------------------------
(* A tick: the transaction *)

\* Mutant: paused, completed and failed schedules are claimed as well.
IsDueInAnyStatus(s) == Exists(s) /\ due[s]

IsDue(s) == status[s] = "active" /\ due[s]

\* SELECT .. FOR UPDATE SKIP LOCKED
Poll(p) ==
    LET claimed == {s \in Schedules : IsDue(s) /\ ~Locked(s)}
    IN /\ tick[p] = "idle"
       /\ claimed # {}
       /\ tick' = [tick EXCEPT ![p] = "open"]
       /\ work' = [work EXCEPT ![p] =
                     [s \in Schedules |-> IF s \in claimed THEN "claimed" ELSE "unlocked"]]
       /\ UNCHANGED <<rowVars, jobs, historyVars>>
       /\ NoPatch /\ NoFault

Process(p, s, result) ==
    /\ tick[p] = "open"
    /\ work[p][s] = "claimed"
    /\ work' = [work EXCEPT ![p][s] = result]
    /\ UNCHANGED <<rowVars, tick, historyVars>>
    /\ NoPatch

\* The data source answers late, wrongly or not at all.
FetchFails(p, s) ==
    /\ Process(p, s, "missed")
    /\ UNCHANGED jobs
    /\ NoFault

\* The notifications are written, if there are any that pass.
RunSchedule(p, s) ==
    /\ Process(p, s, "ran")
    /\ \/ s \notin Poisoned /\ jobs' = [jobs EXCEPT ![p][s] = run[s]]
       \/ UNCHANGED jobs
    /\ NoFault

\* processSchedule throws: a lookup over another connection fails, or an item is
\* null, whose user_id is read by the catch block of the item as well.  The jobs
\* of the items before it are lost with the stack, their rows are kept.
RunThrows(p, s) ==
    /\ (s \in Throwing /\ NoFault) \/ Fault
    /\ Process(p, s, "threw")
    /\ UNCHANGED jobs

\* A statement of the transaction fails: for this schedule's data always, such
\* as a template_key longer than notifications.type, or by accident.  Every
\* catch block goes on, but in an aborted transaction no statement succeeds.
\* The jobs of the schedules processed before are kept.
SqlError(p, s) ==
    /\ tick[p] = "open"
    /\ work[p][s] = "claimed"
    /\ IF s \in Poisoned THEN NoFault ELSE Fault
    /\ tick' = [tick EXCEPT ![p] = "aborted"]
    /\ UNCHANGED <<rowVars, work, jobs, historyVars>>
    /\ NoPatch

-----------------------------------------------------------------------------
(* A tick: COMMIT, and the jobs *)

\* Mutant: a failed call of the data source is not counted.
RetryCountKept(p, s) == IF work[p][s] = "ran" THEN 0 ELSE retry_count[s]

RetryCount(p, s) ==
    CASE work[p][s] \in {"missed", "threw"} ->
           IF retry_count[s] < max_retries THEN retry_count[s] + 1 ELSE max_retries
      [] work[p][s] = "ran" -> 0
      [] OTHER -> retry_count[s]

\* Only a failed call of the data source is compared with max_retries.
NextStatus(p, s) ==
    CASE work[p][s] = "missed" /\ RetryCount(p, s) >= max_retries -> "failed"
      [] work[p][s] = "ran" /\ s \in OneTime -> "completed"
      [] OTHER -> status[s]

Advances(p, s) == work[p][s] = "ran" /\ s \notin OneTime

\* What the transaction of p wrote.
Apply(p) ==
    /\ status' = [s \in Schedules |-> NextStatus(p, s)]
    /\ retry_count' = [s \in Schedules |-> RetryCount(p, s)]
    /\ run' = [s \in Schedules |-> IF Advances(p, s) THEN run[s] + 1 ELSE run[s]]
    /\ due' = [s \in Schedules |-> due[s] /\ ~Advances(p, s)]
    /\ logged' = [s \in Schedules |->
                    IF work[p][s] = "ran" THEN logged[s] \cup {run[s]} ELSE logged[s]]

EndTransaction(p, next) ==
    /\ work' = [work EXCEPT ![p] = Nothing]
    /\ tick' = [tick EXCEPT ![p] = next]

\* COMMIT of an aborted transaction rolls back and reports no error, so the
\* jobs collected before the error are enqueued in either case.
Commit(p) ==
    /\ \/ /\ tick[p] = "open"
          /\ \A s \in Schedules : work[p][s] # "claimed"
          /\ Apply(p)
          /\ UNCHANGED ghosts
       \/ /\ tick[p] = "aborted"
          /\ UNCHANGED rowVars
          /\ ghosts' = ghosts \cup {<<s, jobs[p][s]>> : s \in {x \in Schedules : jobs[p][x] > 0}}
    /\ EndTransaction(p, IF jobs[p] = NoJobs THEN "idle" ELSE "enqueuing")
    /\ UNCHANGED <<jobs, sent>>
    /\ NoPatch /\ NoFault

Abandon(p) ==
    /\ EndTransaction(p, "idle")
    /\ jobs' = [jobs EXCEPT ![p] = NoJobs]

\* COMMIT fails, the connection is lost before it or the process stops: what
\* was written is rolled back, jobs not enqueued yet are forgotten.
TickFails(p) ==
    /\ Fault
    /\ tick[p] # "idle"
    /\ Abandon(p)
    /\ UNCHANGED <<rowVars, historyVars>>
    /\ NoPatch

\* The same, but COMMIT had taken effect.
AckLost(p) ==
    /\ Fault
    /\ tick[p] = "open"
    /\ \A s \in Schedules : work[p][s] # "claimed"
    /\ Apply(p)
    /\ Abandon(p)
    /\ UNCHANGED historyVars
    /\ NoPatch

\* The next batch leaves the list of jobs.
Dequeue(p, s) ==
    /\ tick[p] = "enqueuing"
    /\ jobs[p][s] > 0
    /\ jobs' = [jobs EXCEPT ![p][s] = 0]
    /\ tick' = [tick EXCEPT ![p] =
                  IF \A x \in Schedules \ {s} : jobs[p][x] = 0 THEN "idle" ELSE @]
    /\ UNCHANGED <<rowVars, work, ghosts>>
    /\ NoPatch

Enqueue(p, s) ==
    /\ Dequeue(p, s)
    /\ sent' = [sent EXCEPT ![s][jobs[p][s]] = IF @ = 0 THEN 1 ELSE 2]
    /\ NoFault

\* enqueueNotification throws: only logged, the next job follows.
EnqueueFails(p, s) ==
    /\ Fault
    /\ Dequeue(p, s)
    /\ UNCHANGED sent

-----------------------------------------------------------------------------

PollerStep(p) ==
    \/ Poll(p)
    \/ \E s \in Schedules :
          FetchFails(p, s) \/ RunSchedule(p, s) \/ SqlError(p, s) \/ Enqueue(p, s)
    \/ Commit(p)

ScheduleNext ==
    \/ \E s \in Schedules :
          CreateSchedule(s) \/ PatchSchedule(s) \/ DeleteSchedule(s) \/ BecomesDue(s)
    \/ \E p \in Pollers :
          \/ PollerStep(p)
          \/ TickFails(p)
          \/ AckLost(p)
          \/ \E s \in Schedules : RunThrows(p, s) \/ EnqueueFails(p, s)

ScheduleSpec == ScheduleInit /\ [][ScheduleNext]_scheduleVars

\* The poll job repeats every two minutes and a tick goes on to its end.  No
\* request, due time or fault has to happen.
FairScheduleSpec ==
    /\ ScheduleSpec
    /\ \A p \in Pollers : WF_scheduleVars(PollerStep(p))

-----------------------------------------------------------------------------
(* Properties *)

\* Every variable has its type, and a poller between two ticks holds neither
\* locks nor jobs.
ScheduleTypeOK ==
    /\ status \in [Schedules -> Statuses \cup {"none", "deleted"}]
    /\ due \in [Schedules -> BOOLEAN]
    /\ retry_count \in [Schedules -> 0 .. max_retries]
    /\ run \in [Schedules -> Runs]
    /\ \A s \in Schedules : due[s] => run[s] < MaxRuns
    /\ logged \in [Schedules -> SUBSET Runs]
    /\ tick \in [Pollers -> {"idle", "open", "aborted", "enqueuing"}]
    /\ work \in [Pollers -> [Schedules -> Works]]
    /\ jobs \in [Pollers -> [Schedules -> Runs \cup {0}]]
    /\ \A p \in Pollers : tick[p] \in {"idle", "enqueuing"} => work[p] = Nothing
    /\ \A p \in Pollers : tick[p] = "idle" => jobs[p] = NoJobs
    /\ sent \in [Schedules -> [Runs -> 0 .. 2]]
    /\ ghosts \subseteq Schedules \X Runs
    /\ patches \in 0 .. MaxPatches
    /\ faults \in 0 .. MaxFaults

\* FIX 2 in pollTick: the locks prevent duplicate sends.  Two processes that
\* poll at a time, a crash anywhere in a tick, a lost acknowledgement and any
\* PATCH leave every run enqueued once at most, unless its transaction was
\* rolled back by an error inside it.
RunsAreSentOnce ==
    \A s \in Schedules, k \in Runs : <<s, k>> \notin ghosts => sent[s][k] <= 1

\* Nothing is enqueued before the run is in the execution log: a run whose jobs
\* went out cannot be forgotten, unless its transaction was rolled back.
SentRunsAreLogged ==
    \A s \in Schedules, k \in Runs :
      Exists(s) /\ sent[s][k] > 0 /\ <<s, k>> \notin ghosts => k \in logged[s]

\* A tick takes several seconds per schedule.  A schedule that a request
\* paused, completed, failed or deleted is not changed by a tick that was
\* under way, nor by a later one: only another request revives it.
InactiveStaysInactive ==
    [][\A s \in Schedules :
         status[s] \in {"paused", "completed", "failed", "deleted"} /\ patches' = patches
           => status'[s] \in {status[s], "deleted"}]_scheduleVars

Waits(s) == status[s] = "active" /\ due[s]

\* Its data source made the tick throw, see FailedRunsGiveUp.
Threw(s) == s \in Throwing /\ \E p \in Pollers : work[p][s] = "threw"

\* A schedule that is due is run, postponed, stopped or given up: no crash, no
\* data source that fails and no other schedule that throws at every tick keeps
\* it due for ever, unless its own data source answers with an item null again
\* and again.
EveryDueScheduleIsSettled ==
    \A s \in Schedules \ Poisoned : Waits(s) ~> ~Waits(s) \/ Threw(s)

-----------------------------------------------------------------------------
(* What the documentation says and the code does not do *)

\* TECHNICAL_IMPLEMENTATION_GUIDE.md:632: a one-time schedule fires once.
OneTimeFiresOnce ==
    \A s \in OneTime : sent[s][1] <= 1

\* DOCUMENTATION.md:675: on failure retry_count is incremented and the schedule
\* is failed when the retries are exhausted, so that none stays due for ever.
FailedRunsGiveUp ==
    \A s \in Schedules \ Poisoned : Waits(s) ~> ~Waits(s)
=============================================================================
