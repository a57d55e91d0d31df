------------------------------ MODULE Delivery ------------------------------
(***************************************************************************)
(* A notification from its submission to notification.final.  A submitter  *)
(* (the scheduler's worker, or the handler of POST /notify) stores it and   *)
(* enqueues one job per channel; channel workers (workers/base.worker.js,  *)
(* workers/whatsapp.worker.js) attempt each job until it is sent, rejected  *)
(* or out of attempts, and write log, status and quota in one transaction;  *)
(* the stale sweep gives back units nobody settled.  BullMQ and the         *)
(* providers are modelled from how the workers use them.                    *)
(***************************************************************************)
EXTENDS Quota

CONSTANTS
    SessionChannels,    \* channels that need an entity's session: whatsapp over Meta
    MaxAttempts,        \* attempts of a job, retries + 1
    MaxStalls,          \* BullMQ: times a stalled job is handed out again
    MaxJobs,            \* bound: jobs over all notifications
    MaxFaults           \* bound: crashes and failures of the database or of Redis

ASSUME DeliveryAssumption ==
    /\ SessionChannels \subseteq Channels
    /\ MaxAttempts \in Nat \ {0}
    /\ MaxStalls \in Nat
    /\ MaxFaults \in Nat

VARIABLES
    status,     \* notifications.status, "absent" before the row is inserted
    expected,   \* notifications.expected_channels
    logs,       \* the statuses in notification_logs, by notification and channel
    hook,       \* status in the live notification.final delivery row, "none" without one
    submitter,  \* what the process that submits the notification is doing
    toEnqueue,  \* the channels it has not enqueued yet
    job,        \* where the job of a notification and channel is
    attempts,   \* job.attemptsMade
    stalls,     \* how often BullMQ found the job stalled
    row,        \* status a worker got from UPDATE .. RETURNING, "none" when no row
    faults      \* faults so far

notifVars == <<status, expected, logs, hook>>
submitVars == <<submitter, toEnqueue>>
jobVars == <<job, attempts, stalls, row>>
deliveryVars == <<quotaVars, notifVars, submitVars, jobVars, faults>>

Finals == {"delivered", "partial", "failed"}
JobStates ==
    {"none",            \* not enqueued
     "waiting",         \* in the queue
     "accepted",        \* active: the provider took the message
     "rejected",        \* active: a failure not worth a retry
     "errored",         \* active: a failure worth a retry
     "threw",           \* the processor threw
     "exhausted",       \* the last attempt failed, the failed handler is due
     "checking",        \* committed, active: about to look for notification.final
     "checkingFailed",  \* the same, in the failed handler
     "done",            \* finished
     "dead"}            \* failed for good with nothing recorded

Fault == faults < MaxFaults /\ faults' = faults + 1
NoFault == UNCHANGED faults
SetJob(n, c, s) == job' = [job EXCEPT ![n][c] = s]

DeliveryInit ==
    /\ QuotaInit
    /\ status = [n \in Notifs |-> "absent"]
    /\ expected = [n \in Notifs |-> {}]
    /\ logs = [n \in Notifs |-> [c \in Channels |-> {}]]
    /\ hook = [n \in Notifs |-> "none"]
    /\ submitter = [n \in Notifs |-> "none"]
    /\ toEnqueue = [n \in Notifs |-> {}]
    /\ job = [n \in Notifs |-> [c \in Channels |-> "none"]]
    /\ attempts = [n \in Notifs |-> [c \in Channels |-> 0]]
    /\ stalls = [n \in Notifs |-> [c \in Channels |-> 0]]
    /\ row = [n \in Notifs |-> [c \in Channels |-> "none"]]
    /\ faults = 0

-----------------------------------------------------------------------------
(* Submission *)

Expected == {s \in Notifs \X Channels : s[2] \in expected[s[1]]}

\* The notification row of a fresh id, for the channels the quota let through.
Insert(n, chs, who) ==
    /\ status[n] = "absent"
    /\ chs # {}
    /\ Cardinality(Expected) + Cardinality(chs) <= MaxJobs
    /\ status' = [status EXCEPT ![n] = "pending"]
    /\ expected' = [expected EXCEPT ![n] = chs]
    /\ submitter' = [submitter EXCEPT ![n] = who]
    /\ toEnqueue' = [toEnqueue EXCEPT ![n] = chs]
    /\ UNCHANGED <<logs, hook, jobVars>>
    /\ NoFault

\* The scheduler reserves and inserts in one transaction, the notification
\* row first, and enqueues after its commit.
SubmitScheduled(n, chs) ==
    /\ Insert(n, chs \ BlockedOf(chs), "schedule")
    /\ ReserveForChannels(n, chs)

\* POST /notify reserves before the notification row exists.  The foreign key
\* of quota_reservations refuses a granted row, the reservation is rolled back
\* and the request goes on with every channel, unreserved; blocked channels
\* are dropped only when no other limited channel is granted.
SubmitNotify(n, chs) ==
    /\ Insert(n, IF GrantedOf(chs) = {} THEN chs \ BlockedOf(chs) ELSE chs, "notify")
    /\ UNCHANGED quotaVars

\* queue.add of the next channel.
EnqueueJob(n, c) ==
    /\ submitter[n] \in {"notify", "schedule"}
    /\ c \in toEnqueue[n]
    /\ SetJob(n, c, "waiting")
    /\ toEnqueue' = [toEnqueue EXCEPT ![n] = @ \ {c}]
    /\ submitter' = [submitter EXCEPT ![n] = IF toEnqueue[n] = {c} THEN "idle" ELSE @]
    /\ UNCHANGED <<quotaVars, notifVars, attempts, stalls, row>>
    /\ NoFault

\* queue.add throws, the job added or not; the remaining channels are skipped.
\* The scheduler only logs it, /notify goes on to mark the notification failed.
EnqueueFails(n, c) ==
    /\ Fault
    /\ c \in toEnqueue[n]
    /\ \E s \in {"none", "waiting"} : SetJob(n, c, s)
    /\ toEnqueue' = [toEnqueue EXCEPT ![n] = {}]
    /\ submitter' = [submitter EXCEPT ![n] = IF @ = "notify" THEN "failing" ELSE "idle"]
    /\ UNCHANGED <<quotaVars, notifVars, attempts, stalls, row>>

\* /notify after a failed enqueue, whatever its jobs did meanwhile.  There is
\* no reservation to give back: none outlived SubmitNotify.
MarkFailed(n) ==
    /\ submitter[n] = "failing"
    /\ status' = [status EXCEPT ![n] = "failed"]
    /\ submitter' = [submitter EXCEPT ![n] = "idle"]
    /\ UNCHANGED <<quotaVars, expected, logs, hook, toEnqueue, jobVars>>
    /\ NoFault

\* The submitting process stops, or its UPDATE after a failed enqueue does.
SubmitterCrashes(n) ==
    /\ Fault
    /\ submitter[n] \in {"notify", "schedule", "failing"}
    /\ submitter' = [submitter EXCEPT ![n] = "idle"]
    /\ toEnqueue' = [toEnqueue EXCEPT ![n] = {}]
    /\ UNCHANGED <<quotaVars, notifVars, jobVars>>

-----------------------------------------------------------------------------
(* What a worker's transactions write *)

SentStatus(s) ==
    CASE s = "pending" -> "delivered"
      [] s = "failed"  -> "partial"
      [] OTHER         -> s

\* Mutant: the UPDATE without its WHERE.
AlwaysFailed(s) == "failed"

\* UPDATE .. SET status = 'failed' WHERE status != 'delivered' RETURNING status
FailedStatus(s) == IF s = "delivered" THEN s ELSE "failed"
FailedRow(s) == IF s = "delivered" THEN "none" ELSE "failed"

Log(n, c, entry) == logs' = [logs EXCEPT ![n][c] = @ \cup {entry}]

\* Mutant: the sent message is never charged.
RecordSentUncharged(n, c) ==
    /\ Log(n, c, "sent")
    /\ status' = [status EXCEPT ![n] = SentStatus(@)]
    /\ UNCHANGED <<quotaVars, expected, hook>>

RecordSent(n, c) ==
    /\ Log(n, c, "sent")
    /\ status' = [status EXCEPT ![n] = SentStatus(@)]
    /\ SettleOnClient(n, c, "consumed")
    /\ UNCHANGED <<expected, hook>>

RecordFailure(n, c, entry) ==
    /\ Log(n, c, entry)
    /\ status' = [status EXCEPT ![n] = FailedStatus(@)]
    /\ SettleOnClient(n, c, "released")
    /\ UNCHANGED <<expected, hook>>

\* The worker goes on to the final check when the UPDATE returned a row.
Committed(n, c, returned, next) ==
    /\ row' = [row EXCEPT ![n][c] = returned]
    /\ SetJob(n, c, IF returned = "none" THEN "done" ELSE next)
    /\ UNCHANGED <<submitVars, attempts, stalls>>

-----------------------------------------------------------------------------
(* A worker *)

\* The provider call, with the fallback from the app's provider to the default.
Attempt(n, c) ==
    /\ job[n][c] = "waiting"
    /\ \E outcome \in {"accepted", "rejected", "errored", "threw"} : SetJob(n, c, outcome)
    /\ UNCHANGED <<quotaVars, notifVars, submitVars, attempts, stalls, row>>
    /\ NoFault

\* No usable session: a terminal failure without calling the provider.
NoSession(n, c) ==
    /\ c \in SessionChannels
    /\ job[n][c] = "waiting"
    /\ RecordFailure(n, c, "failed")
    /\ Committed(n, c, FailedRow(status[n]), "checking")
    /\ NoFault

\* Mutant: the UPDATE returns a row only for a pending notification.
CommitSentOfPending(n, c) ==
    /\ job[n][c] = "accepted"
    /\ RecordSent(n, c)
    /\ Committed(n, c, IF status[n] = "pending" THEN "delivered" ELSE "none", "checking")
    /\ NoFault

CommitSent(n, c) ==
    /\ job[n][c] = "accepted"
    /\ RecordSent(n, c)
    /\ Committed(n, c, SentStatus(status[n]), "checking")
    /\ NoFault

CommitRejected(n, c) ==
    /\ job[n][c] = "rejected"
    /\ RecordFailure(n, c, "failed")
    /\ Committed(n, c, FailedRow(status[n]), "checking")
    /\ NoFault

\* The log of a failed attempt; the reservation stays and the processor throws.
LogTransient(n, c) ==
    /\ job[n][c] = "errored"
    /\ Log(n, c, "failed")
    /\ SetJob(n, c, "threw")
    /\ UNCHANGED <<quotaVars, status, expected, hook, submitVars, attempts, stalls, row>>
    /\ NoFault

\* BullMQ counts the attempt and retries the job or fails it.
FailAttempt(n, c) ==
    /\ job[n][c] = "threw"
    /\ attempts' = [attempts EXCEPT ![n][c] = @ + 1]
    /\ SetJob(n, c, IF attempts[n][c] + 1 >= MaxAttempts THEN "exhausted" ELSE "waiting")
    /\ UNCHANGED <<quotaVars, notifVars, submitVars, stalls, row>>
    /\ NoFault

\* The failed handler, after the last attempt.
CommitPermanent(n, c) ==
    /\ job[n][c] = "exhausted"
    /\ RecordFailure(n, c, "permanently_failed")
    /\ Committed(n, c, FailedRow(status[n]), "checkingFailed")
    /\ NoFault

\* _maybeFireNotificationFinal and the INSERT .. ON CONFLICT DO NOTHING of
\* enqueueWebhookEvent, for an app whose webhook subscribes to the event.  The
\* logs only grow, so reading them and inserting is one step.
Settled(n) == {c \in Channels : logs[n][c] \cap {"sent", "failed", "permanently_failed"} # {}}

\* Mutant: any settled channel will do.
FireFinalOnAny(n, c) ==
    /\ job[n][c] \in {"checking", "checkingFailed"}
    /\ hook' = [hook EXCEPT ![n] =
                  IF expected[n] \cap Settled(n) # {} /\ @ = "none" THEN row[n][c] ELSE @]
    /\ SetJob(n, c, "done")
    /\ row' = [row EXCEPT ![n][c] = "none"]
    /\ UNCHANGED <<quotaVars, status, expected, logs, submitVars, attempts, stalls>>
    /\ NoFault

FireFinal(n, c) ==
    /\ job[n][c] \in {"checking", "checkingFailed"}
    /\ hook' = [hook EXCEPT ![n] =
                  IF expected[n] \subseteq Settled(n) /\ @ = "none" THEN row[n][c] ELSE @]
    /\ SetJob(n, c, "done")
    /\ row' = [row EXCEPT ![n][c] = "none"]
    /\ UNCHANGED <<quotaVars, status, expected, logs, submitVars, attempts, stalls>>
    /\ NoFault

-----------------------------------------------------------------------------
(* What goes wrong under a worker *)

\* Mutant: the status was written outside the transaction that fails.
TxFailsKeepsStatus(n, c) ==
    /\ Fault
    /\ job[n][c] = "accepted"
    /\ SetJob(n, c, "threw")
    /\ status' = [status EXCEPT ![n] = SentStatus(@)]
    /\ UNCHANGED <<quotaVars, expected, logs, hook, submitVars, attempts, stalls, row>>

\* A transaction or the log INSERT fails: the processor throws, the failed
\* handler gives up.
TxFails(n, c) ==
    /\ Fault
    /\ \/ job[n][c] \in {"accepted", "rejected", "errored"} /\ SetJob(n, c, "threw")
       \/ job[n][c] = "exhausted" /\ SetJob(n, c, "dead")
    /\ UNCHANGED <<quotaVars, notifVars, submitVars, attempts, stalls, row>>

\* The same, but the COMMIT had taken effect before the connection was lost.
AckLost(n, c) ==
    /\ Fault
    /\ \/ job[n][c] = "accepted" /\ RecordSent(n, c) /\ SetJob(n, c, "threw")
       \/ job[n][c] = "rejected" /\ RecordFailure(n, c, "failed") /\ SetJob(n, c, "threw")
       \/ job[n][c] = "exhausted" /\ RecordFailure(n, c, "permanently_failed")
                                  /\ SetJob(n, c, "dead")
    /\ UNCHANGED <<submitVars, attempts, stalls, row>>

\* The final check fails, or the handler's process stops: only a warning.
CheckFails(n, c) ==
    /\ Fault
    /\ job[n][c] \in {"checking", "checkingFailed"}
    /\ SetJob(n, c, "done")
    /\ row' = [row EXCEPT ![n][c] = "none"]
    /\ UNCHANGED <<quotaVars, notifVars, submitVars, attempts, stalls>>

\* The worker stops with the job active.  BullMQ hands a stalled job out again
\* without counting an attempt, MaxStalls times; then it fails the job, and the
\* failed handler acts only if the attempts are used up as well.
WorkerCrashes(n, c) ==
    /\ Fault
    /\ job[n][c] \in {"accepted", "rejected", "errored", "threw", "checking"}
    /\ row' = [row EXCEPT ![n][c] = "none"]
    /\ IF stalls[n][c] < MaxStalls
       THEN /\ stalls' = [stalls EXCEPT ![n][c] = @ + 1]
            /\ SetJob(n, c, "waiting")
            /\ UNCHANGED attempts
       ELSE /\ attempts' = [attempts EXCEPT ![n][c] = @ + 1]
            /\ SetJob(n, c, IF attempts[n][c] + 1 >= MaxAttempts THEN "exhausted" ELSE "dead")
            /\ UNCHANGED stalls
    /\ UNCHANGED <<quotaVars, notifVars, submitVars>>

-----------------------------------------------------------------------------
(* The stale sweep and the clock *)

\* Mutant: only the sweep of notifications in a final state.
SweepFinals(S) ==
    /\ ReleaseStaleReservations(S)
    /\ \A s \in S : status[s[1]] \in Finals
    /\ UNCHANGED <<notifVars, submitVars, jobVars>>
    /\ NoFault

\* The units of S go back; a pending notification they belong to is failed.
Sweep(S) ==
    /\ ReleaseStaleReservations(S)
    /\ status' = [n \in Notifs |->
                    IF status[n] = "pending" /\ (\E c \in Channels : <<n, c>> \in S)
                    THEN "failed" ELSE status[n]]
    /\ UNCHANGED <<expected, logs, hook, submitVars, jobVars>>
    /\ NoFault

Clock(c) ==
    /\ NewPeriod(c)
    /\ UNCHANGED <<notifVars, submitVars, jobVars>>
    /\ NoFault

-----------------------------------------------------------------------------
Worker(n, c) ==
    \/ Attempt(n, c)
    \/ NoSession(n, c)
    \/ CommitSent(n, c)
    \/ CommitRejected(n, c)
    \/ LogTransient(n, c)
    \/ FailAttempt(n, c)
    \/ CommitPermanent(n, c)
    \/ FireFinal(n, c)

Trouble(n, c) ==
    \/ EnqueueFails(n, c)
    \/ TxFails(n, c)
    \/ AckLost(n, c)
    \/ CheckFails(n, c)
    \/ WorkerCrashes(n, c)

Sweeper == \E S \in SUBSET Held : Sweep(S)

DeliveryNext ==
    \/ \E n \in Notifs, chs \in SUBSET Channels :
          SubmitScheduled(n, chs) \/ SubmitNotify(n, chs)
    \/ \E n \in Notifs : MarkFailed(n) \/ SubmitterCrashes(n)
    \/ \E n \in Notifs, c \in Channels : EnqueueJob(n, c) \/ Worker(n, c) \/ Trouble(n, c)
    \/ Sweeper
    \/ \E c \in Limited : Clock(c)

DeliverySpec == DeliveryInit /\ [][DeliveryNext]_deliveryVars

\* Workers take and finish jobs, and the sweep runs every five minutes and at
\* every start.  No submission, fault or new period has to happen.
DeliveryFairness ==
    /\ \A n \in Notifs, c \in Channels : WF_deliveryVars(Worker(n, c))
    /\ WF_deliveryVars(Sweeper)

FairDeliverySpec == DeliverySpec /\ DeliveryFairness

-----------------------------------------------------------------------------
(* Properties *)

DeliveryTypeOK ==
    /\ QuotaTypeOK
    /\ status \in [Notifs -> {"absent", "pending"} \cup Finals]
    /\ expected \in [Notifs -> SUBSET Channels]
    /\ logs \in [Notifs -> [Channels -> SUBSET {"sent", "failed", "permanently_failed"}]]
    /\ hook \in [Notifs -> {"none"} \cup Finals]
    /\ submitter \in [Notifs -> {"none", "schedule", "notify", "failing", "idle"}]
    /\ toEnqueue \in [Notifs -> SUBSET Channels]
    /\ job \in [Notifs -> [Channels -> JobStates]]
    /\ attempts \in [Notifs -> [Channels -> 0 .. MaxAttempts]]
    /\ stalls \in [Notifs -> [Channels -> 0 .. MaxStalls]]
    /\ row \in [Notifs -> [Channels -> {"none"} \cup Finals]]
    /\ faults \in 0 .. MaxFaults

\* Charging and logging never come apart, whatever is retried, redelivered or
\* swept: a charged unit has a sent log, and no unit is still held once its
\* channel has a sent or permanently_failed log.
ChargeMatchesLog ==
    \A n \in Notifs, c \in Channels :
        /\ resv[n][c].state = "consumed" => "sent" \in logs[n][c]
        /\ logs[n][c] \cap {"sent", "permanently_failed"} # {} => resv[n][c].state # "reserved"

\* A job that ran to its end has settled its unit: only a job that never got
\* into the queue, or died with nothing recorded, leaves work to the sweep.
FinishedJobHoldsNothing ==
    \A n \in Notifs, c \in Channels :
        job[n][c] \in {"checking", "checkingFailed", "done"} => resv[n][c].state # "reserved"

SentSomewhere(n) == \E c \in Channels : "sent" \in logs[n][c]

\* The status never claims more than the logs show, in either direction: while
\* it is pending nothing was sent or given up, and delivered or partial means
\* that some channel was sent.
StatusBackedByLogs ==
    \A n \in Notifs :
        /\ status[n] \in {"absent", "pending"} =>
              \A c \in Channels : logs[n][c] \cap {"sent", "permanently_failed"} = {}
        /\ status[n] \in {"delivered", "partial"} => SentSomewhere(n)

Over(n, c) == job[n][c] \in {"checking", "checkingFailed", "done", "dead"}

\* An attempt of the job came to nothing, and BullMQ hands it out again.
Repeated(n, c) == attempts[n][c] > 0 \/ stalls[n][c] > 0 \/ job[n][c] = "threw"

\* notification.final waits for the first outcome of every expected channel: the
\* channels whose job is not over when it is announced are those on another
\* attempt, and not ones still in the queue, with the provider or between the
\* provider's answer and the log.  A delivered or partial announcement has a sent
\* message behind it.
FinalIsEarlyForRetriesAlone ==
    \A n \in Notifs : hook[n] # "none" =>
        /\ \A c \in expected[n] : Over(n, c) \/ Repeated(n, c)
        /\ hook[n] \in {"delivered", "partial"} => SentSomewhere(n)

\* A delivered notification is not degraded by a channel that fails later, nor
\* by the sweep; only its own submitter does that, when an enqueue failed.
DeliveredStays ==
    [][\A n \in Notifs : status[n] = "delivered" /\ status'[n] # "delivered"
                             => submitter[n] = "failing"]_deliveryVars

\* base.worker.js:23: a transient failure keeps the unit.  A unit is given back
\* by the sweep, which leaves the jobs alone, or by a terminal failure.
TransientFailureKeepsUnit ==
    [][\A n \in Notifs, c \in Channels :
         resv[n][c].state = "reserved" /\ resv'[n][c].state = "released"
           => \/ job' = job
              \/ job[n][c] \in {"rejected", "exhausted"}
              \/ job[n][c] = "waiting" /\ c \in SessionChannels]_deliveryVars

\* No unit is held for ever, and no notification that holds one stays pending,
\* whatever crashed.
EveryReservationSettles ==
    \A n \in Notifs, c \in Channels :
        (resv[n][c].state = "reserved")
            ~> (resv[n][c].state # "reserved" /\ status[n] # "pending")

\* When every expected channel was sent at its first attempt and nothing broke,
\* notification.final goes out.
FinalWhenAllSent ==
    \A n \in Notifs :
        (expected[n] # {} /\ \A c \in expected[n] : logs[n][c] = {"sent"})
            ~> (hook[n] # "none" \/ faults > 0)

-----------------------------------------------------------------------------
(* What the documentation says and the code does not do *)

\* docs/webhooks.md:13: notification.final is sent when all expected channels
\* have reached a terminal state, so not while one of them is going to retry.
FinalOnlyWhenAllTerminal ==
    \A n \in Notifs : hook[n] # "none" => \A c \in expected[n] : Over(n, c)

\* docs/webhooks.md:13: and it is sent then, without any fault.
FinalEventuallyFires ==
    \A n \in Notifs :
        (expected[n] # {} /\ \A c \in expected[n] : Over(n, c)) ~> (hook[n] # "none")

\* docs/webhooks.md:113: the status in the event is failed when all channels failed.
FailedMeansAllFailed ==
    \A n \in Notifs, c \in Channels : hook[n] = "failed" => "sent" \notin logs[n][c]

\* docs/quotas.md:5-8: the quota limits how many notifications are sent per
\* channel and period, and blocked ones never reach the provider.
QuotaEnforced ==
    \A c \in Limited :
        Cardinality({n \in Notifs : "sent" \in logs[n][c]}) <= MaxPeriod * Limit[c]
=============================================================================
