--------------------------- MODULE Delivery_proofs ---------------------------
(* What the delivery model guarantees for every set of notifications and     *)
(* channels, every limit, and any number of attempts, redeliveries and faults. *)
EXTENDS Delivery, Quota_proofs

-----------------------------------------------------------------------------
(* Every step of Delivery is a step of Quota, or leaves its tables alone *)

\* A settlement is a step of Quota.
LEMMA SettleIsQuotaStep ==
    ASSUME NEW n \in Notifs, NEW c \in Channels, NEW outcome \in {"consumed", "released"},
           SettleOnClient(n, c, outcome)
    PROVE  [QuotaNext]_quotaVars
BY DEF QuotaNext

\* A worker uses the quota tables only to settle.
LEMMA WorkerIsQuotaStep ==
    ASSUME NEW n \in Notifs, NEW c \in Channels, Worker(n, c)
    PROVE  [QuotaNext]_quotaVars
<1>1. CASE Attempt(n, c) \/ LogTransient(n, c) \/ FailAttempt(n, c) \/ FireFinal(n, c)
  BY <1>1 DEF Attempt, LogTransient, FailAttempt, FireFinal
<1>2. CASE NoSession(n, c) \/ CommitRejected(n, c) \/ CommitPermanent(n, c)
  <2>1. SettleOnClient(n, c, "released")
    BY <1>2 DEF NoSession, CommitRejected, CommitPermanent, RecordFailure
  <2>2. QED
    BY <2>1, SettleIsQuotaStep
<1>3. CASE CommitSent(n, c)
  <2>1. SettleOnClient(n, c, "consumed")
    BY <1>3 DEF CommitSent, RecordSent
  <2>2. QED
    BY <2>1, SettleIsQuotaStep
<1>4. QED
  BY <1>1, <1>2, <1>3 DEF Worker

\* Of the faults, only a lost acknowledgement touches the quota tables.
LEMMA TroubleIsQuotaStep ==
    ASSUME NEW n \in Notifs, NEW c \in Channels, Trouble(n, c)
    PROVE  [QuotaNext]_quotaVars
<1>1. CASE EnqueueFails(n, c) \/ TxFails(n, c) \/ CheckFails(n, c) \/ WorkerCrashes(n, c)
  BY <1>1 DEF EnqueueFails, TxFails, CheckFails, WorkerCrashes
<1>2. CASE AckLost(n, c)
  <2>1. SettleOnClient(n, c, "consumed") \/ SettleOnClient(n, c, "released")
    BY <1>2 DEF AckLost, RecordSent, RecordFailure
  <2>2. QED
    BY <2>1, SettleIsQuotaStep
<1>3. QED
  BY <1>1, <1>2 DEF Trouble

\* The refinement, step by step.
LEMMA DeliveryStepIsQuotaStep == [DeliveryNext]_deliveryVars => [QuotaNext]_quotaVars
<1> SUFFICES ASSUME [DeliveryNext]_deliveryVars
             PROVE  [QuotaNext]_quotaVars
  OBVIOUS
<1>1. ASSUME NEW n \in Notifs, NEW chs \in SUBSET Channels,
             SubmitScheduled(n, chs) \/ SubmitNotify(n, chs)
      PROVE  [QuotaNext]_quotaVars
  <2>1. ReserveForChannels(n, chs) \/ UNCHANGED quotaVars
    BY <1>1 DEF SubmitScheduled, SubmitNotify
  <2>2. QED
    BY <2>1 DEF QuotaNext
<1>2. ASSUME NEW n \in Notifs, MarkFailed(n) \/ SubmitterCrashes(n)
      PROVE  [QuotaNext]_quotaVars
  BY <1>2 DEF MarkFailed, SubmitterCrashes
<1>3. ASSUME NEW n \in Notifs, NEW c \in Channels,
             EnqueueJob(n, c) \/ Worker(n, c) \/ Trouble(n, c)
      PROVE  [QuotaNext]_quotaVars
  <2>1. CASE EnqueueJob(n, c)
    BY <2>1 DEF EnqueueJob
  <2>2. QED
    BY <1>3, <2>1, WorkerIsQuotaStep, TroubleIsQuotaStep
<1>4. CASE Sweeper
  <2>1. PICK S \in SUBSET Held : ReleaseStaleReservations(S)
    BY <1>4 DEF Sweeper, Sweep
  <2>2. S \in SUBSET (Notifs \X Channels)
    BY DEF Held
  <2>3. QED
    BY <2>1, <2>2 DEF QuotaNext
<1>5. ASSUME NEW c \in Limited, Clock(c)
      PROVE  [QuotaNext]_quotaVars
  BY <1>5 DEF Clock, QuotaNext
<1>6. CASE UNCHANGED deliveryVars
  BY <1>6 DEF deliveryVars, quotaVars
<1>7. QED
  BY <1>1, <1>2, <1>3, <1>4, <1>5, <1>6 DEF DeliveryNext

\* Submitters, workers, retries, crashes and the sweep use the quota tables
\* only through the operations of Quota.
THEOREM DeliveryUsesQuota == DeliverySpec => QuotaSpec
<1>1. DeliveryInit => QuotaInit
  BY DEF DeliveryInit
<1>2. QED
  BY <1>1, DeliveryStepIsQuotaStep, PTL DEF DeliverySpec, QuotaSpec

\* The counters count the rows, whatever is retried, redelivered, lost or swept.
THEOREM DeliveryCountersCorrect == DeliverySpec => []CountersMatchRows
  BY DeliveryUsesQuota, QuotaCountersCorrect, PTL

\* No order of submissions, settlements and sweeps takes used + reserved past
\* the limit.
THEOREM DeliveryLimitRespected == DeliverySpec => []WithinLimit
  BY DeliveryUsesQuota, QuotaLimitRespected, PTL

\* The whole delivery process implements the abstract ledger: in particular a
\* unit is charged at most once however often its job is handed out.
THEOREM DeliveryImplementsLedger == DeliverySpec => ImplementsLedger
  BY DeliveryUsesQuota, QuotaImplementsLedger, PTL
-----------------------------------------------------------------------------
(* The inductive invariant *)

\* A job that may still be attempted has attempts left.
AttemptsLeft ==
    \A n \in Notifs, c \in Channels :
        job[n][c] \in {"none", "waiting", "accepted", "rejected", "errored", "threw", "checking"}
            => attempts[n][c] < MaxAttempts

\* A channel still to be enqueued has no job.
QueuedOnce ==
    \A n \in Notifs, c \in Channels : c \in toEnqueue[n] => job[n][c] = "none"

\* Nothing exists of a notification that was not submitted.
FreshIsClean ==
    \A n \in Notifs : status[n] = "absent" =>
        /\ toEnqueue[n] = {} /\ submitter[n] = "none" /\ hook[n] = "none"
        /\ \A c \in Channels : job[n][c] = "none" /\ logs[n][c] = {}

\* A worker about to announce a sent message has logged one.
RowBackedByLogs ==
    \A n \in Notifs, c \in Channels :
        row[n][c] \in {"delivered", "partial"} => SentSomewhere(n)

\* An announcement found a log of every expected channel.
HookBackedByLogs ==
    \A n \in Notifs : hook[n] # "none" =>
        /\ expected[n] \subseteq Settled(n)
        /\ hook[n] \in {"delivered", "partial"} => SentSomewhere(n)

\* What every step keeps: the checked invariants and the five above.
DeliveryInv ==
    /\ QuotaInv
    /\ DeliveryTypeOK
    /\ AttemptsLeft
    /\ FreshIsClean
    /\ QueuedOnce
    /\ ChargeMatchesLog
    /\ FinishedJobHoldsNothing
    /\ StatusBackedByLogs
    /\ RowBackedByLogs
    /\ HookBackedByLogs

\* Updating one entry keeps the type of a table.
LEMMA UpdateTyped ==
    ASSUME NEW S, NEW f \in [Notifs -> [Channels -> S]],
           NEW n \in Notifs, NEW c \in Channels, NEW v \in S
    PROVE  [f EXCEPT ![n][c] = v] \in [Notifs -> [Channels -> S]]
OBVIOUS

\* The provider call.
LEMMA AttemptInv ==
    ASSUME DeliveryInv, NEW n \in Notifs, NEW c \in Channels, Attempt(n, c)
    PROVE  DeliveryInv'
<1> USE DEF Attempt, SetJob
<1>1. QuotaInv'
  BY StutterInv DEF DeliveryInv
<1>2. DeliveryTypeOK'
  BY <1>1, DeliveryAssumption
     DEF DeliveryInv, QuotaInv, DeliveryTypeOK, AttemptsLeft, JobStates, Fault, NoFault, notifVars, submitVars
<1>3. AttemptsLeft'
  BY DeliveryAssumption DEF DeliveryInv, DeliveryTypeOK, AttemptsLeft, QueuedOnce
<1>7. FreshIsClean' /\ QueuedOnce'
  BY DEF DeliveryInv, DeliveryTypeOK, FreshIsClean, QueuedOnce, notifVars, submitVars
<1>4. ChargeMatchesLog' /\ FinishedJobHoldsNothing'
  BY DEF DeliveryInv, DeliveryTypeOK, ChargeMatchesLog, FinishedJobHoldsNothing, quotaVars, notifVars
<1>5. StatusBackedByLogs' /\ RowBackedByLogs' /\ HookBackedByLogs'
  BY DEF DeliveryInv, DeliveryTypeOK, StatusBackedByLogs, RowBackedByLogs, HookBackedByLogs,
         SentSomewhere, Settled, notifVars
<1>6. QED
  BY <1>1, <1>2, <1>3, <1>4, <1>5, <1>7 DEF DeliveryInv

\* A job enters the queue.
LEMMA EnqueueJobInv ==
    ASSUME DeliveryInv, NEW n \in Notifs, NEW c \in Channels, EnqueueJob(n, c)
    PROVE  DeliveryInv'
<1> USE DEF EnqueueJob, SetJob
<1>1. QuotaInv'
  BY StutterInv DEF DeliveryInv
<1>2. DeliveryTypeOK'
  BY <1>1, DeliveryAssumption
     DEF DeliveryInv, QuotaInv, DeliveryTypeOK, AttemptsLeft, JobStates, Fault, NoFault, notifVars, submitVars
<1>3. AttemptsLeft'
  BY DeliveryAssumption DEF DeliveryInv, DeliveryTypeOK, AttemptsLeft, QueuedOnce
<1>7. FreshIsClean' /\ QueuedOnce'
  BY DEF DeliveryInv, DeliveryTypeOK, FreshIsClean, QueuedOnce, notifVars, submitVars
<1>4. ChargeMatchesLog' /\ FinishedJobHoldsNothing'
  BY DEF DeliveryInv, DeliveryTypeOK, ChargeMatchesLog, FinishedJobHoldsNothing, quotaVars, notifVars
<1>5. StatusBackedByLogs' /\ RowBackedByLogs' /\ HookBackedByLogs'
  BY DEF DeliveryInv, DeliveryTypeOK, StatusBackedByLogs, RowBackedByLogs, HookBackedByLogs,
         SentSomewhere, Settled, notifVars
<1>6. QED
  BY <1>1, <1>2, <1>3, <1>4, <1>5, <1>7 DEF DeliveryInv

\* An attempt is counted.
LEMMA FailAttemptInv ==
    ASSUME DeliveryInv, NEW n \in Notifs, NEW c \in Channels, FailAttempt(n, c)
    PROVE  DeliveryInv'
<1> USE DEF FailAttempt, SetJob
<1>1. QuotaInv'
  BY StutterInv DEF DeliveryInv
<1>2. DeliveryTypeOK'
  BY <1>1, DeliveryAssumption
     DEF DeliveryInv, QuotaInv, DeliveryTypeOK, AttemptsLeft, JobStates, Fault, NoFault, notifVars, submitVars
<1>3. AttemptsLeft'
  BY DeliveryAssumption DEF DeliveryInv, DeliveryTypeOK, AttemptsLeft, QueuedOnce
<1>7. FreshIsClean' /\ QueuedOnce'
  BY DEF DeliveryInv, DeliveryTypeOK, FreshIsClean, QueuedOnce, notifVars, submitVars
<1>4. ChargeMatchesLog' /\ FinishedJobHoldsNothing'
  BY DEF DeliveryInv, DeliveryTypeOK, ChargeMatchesLog, FinishedJobHoldsNothing, quotaVars, notifVars
<1>5. StatusBackedByLogs' /\ RowBackedByLogs' /\ HookBackedByLogs'
  BY DEF DeliveryInv, DeliveryTypeOK, StatusBackedByLogs, RowBackedByLogs, HookBackedByLogs,
         SentSomewhere, Settled, notifVars
<1>6. QED
  BY <1>1, <1>2, <1>3, <1>4, <1>5, <1>7 DEF DeliveryInv

\* A failed attempt is logged.
LEMMA LogTransientInv ==
    ASSUME DeliveryInv, NEW n \in Notifs, NEW c \in Channels, LogTransient(n, c)
    PROVE  DeliveryInv'
<1> USE DEF LogTransient, SetJob, Log
<1>1. QuotaInv'
  BY StutterInv DEF DeliveryInv
<1>2. DeliveryTypeOK'
  BY <1>1, DeliveryAssumption
     DEF DeliveryInv, QuotaInv, DeliveryTypeOK, AttemptsLeft, JobStates, Fault, NoFault, notifVars, submitVars
<1>3. AttemptsLeft'
  BY DeliveryAssumption DEF DeliveryInv, DeliveryTypeOK, AttemptsLeft, QueuedOnce
<1>7. FreshIsClean' /\ QueuedOnce'
  BY DEF DeliveryInv, DeliveryTypeOK, FreshIsClean, QueuedOnce, notifVars, submitVars
<1>4. ChargeMatchesLog' /\ FinishedJobHoldsNothing'
  BY DEF DeliveryInv, DeliveryTypeOK, ChargeMatchesLog, FinishedJobHoldsNothing, quotaVars, notifVars
<1>5. StatusBackedByLogs' /\ RowBackedByLogs' /\ HookBackedByLogs'
  BY DEF DeliveryInv, DeliveryTypeOK, StatusBackedByLogs, RowBackedByLogs, HookBackedByLogs,
         SentSomewhere, Settled, notifVars
<1>6. QED
  BY <1>1, <1>2, <1>3, <1>4, <1>5, <1>7 DEF DeliveryInv

\* notification.final is looked for; logs only grow, so it stays backed.
LEMMA FireFinalInv ==
    ASSUME DeliveryInv, NEW n \in Notifs, NEW c \in Channels, FireFinal(n, c)
    PROVE  DeliveryInv'
<1> USE DEF FireFinal, SetJob
<1>1. QuotaInv'
  BY StutterInv DEF DeliveryInv
<1>2. DeliveryTypeOK'
  BY <1>1, DeliveryAssumption
     DEF DeliveryInv, QuotaInv, DeliveryTypeOK, AttemptsLeft, JobStates, Fault, NoFault, notifVars, submitVars
<1>3. AttemptsLeft'
  BY DeliveryAssumption DEF DeliveryInv, DeliveryTypeOK, AttemptsLeft, QueuedOnce
<1>7. FreshIsClean' /\ QueuedOnce'
  BY DEF DeliveryInv, DeliveryTypeOK, FreshIsClean, QueuedOnce, notifVars, submitVars
<1>4. ChargeMatchesLog' /\ FinishedJobHoldsNothing'
  BY DEF DeliveryInv, DeliveryTypeOK, ChargeMatchesLog, FinishedJobHoldsNothing, quotaVars, notifVars
<1>5. StatusBackedByLogs' /\ RowBackedByLogs' /\ HookBackedByLogs'
  BY DEF DeliveryInv, DeliveryTypeOK, StatusBackedByLogs, RowBackedByLogs, HookBackedByLogs,
         SentSomewhere, Settled, notifVars
<1>6. QED
  BY <1>1, <1>2, <1>3, <1>4, <1>5, <1>7 DEF DeliveryInv

\* Enqueueing stops half way.
LEMMA EnqueueFailsInv ==
    ASSUME DeliveryInv, NEW n \in Notifs, NEW c \in Channels, EnqueueFails(n, c)
    PROVE  DeliveryInv'
<1> USE DEF EnqueueFails, SetJob
<1>1. QuotaInv'
  BY StutterInv DEF DeliveryInv
<1>2. DeliveryTypeOK'
  BY <1>1, DeliveryAssumption
     DEF DeliveryInv, QuotaInv, DeliveryTypeOK, AttemptsLeft, JobStates, Fault, NoFault, notifVars, submitVars
<1>3. AttemptsLeft'
  BY DeliveryAssumption DEF DeliveryInv, DeliveryTypeOK, AttemptsLeft, QueuedOnce
<1>7. FreshIsClean' /\ QueuedOnce'
  BY DEF DeliveryInv, DeliveryTypeOK, FreshIsClean, QueuedOnce, notifVars, submitVars
<1>4. ChargeMatchesLog' /\ FinishedJobHoldsNothing'
  BY DEF DeliveryInv, DeliveryTypeOK, ChargeMatchesLog, FinishedJobHoldsNothing, quotaVars, notifVars
<1>5. StatusBackedByLogs' /\ RowBackedByLogs' /\ HookBackedByLogs'
  BY DEF DeliveryInv, DeliveryTypeOK, StatusBackedByLogs, RowBackedByLogs, HookBackedByLogs,
         SentSomewhere, Settled, notifVars
<1>6. QED
  BY <1>1, <1>2, <1>3, <1>4, <1>5, <1>7 DEF DeliveryInv

\* A rolled back transaction.
LEMMA TxFailsInv ==
    ASSUME DeliveryInv, NEW n \in Notifs, NEW c \in Channels, TxFails(n, c)
    PROVE  DeliveryInv'
<1>0. PICK s \in {"threw", "dead"} :
        /\ job' = [job EXCEPT ![n][c] = s]
        /\ job[n][c] \in {"accepted", "rejected", "errored"} \/ s = "dead"
        /\ job[n][c] # "none"
  BY DEF TxFails, SetJob
<1>7. UNCHANGED <<quotaVars, notifVars, submitVars, attempts, stalls, row>> /\ Fault
  BY DEF TxFails
<1>1. QuotaInv'
  BY <1>7, StutterInv DEF DeliveryInv
<1>2. DeliveryTypeOK'
  BY <1>0, <1>1, <1>7, DeliveryAssumption
     DEF DeliveryInv, QuotaInv, DeliveryTypeOK, JobStates, Fault, notifVars, submitVars
<1>3. AttemptsLeft'
  BY <1>0, <1>7 DEF DeliveryInv, DeliveryTypeOK, AttemptsLeft
<1>8. FreshIsClean' /\ QueuedOnce'
  BY <1>0, <1>7 DEF DeliveryInv, DeliveryTypeOK, FreshIsClean, QueuedOnce, notifVars, submitVars
<1>4. ChargeMatchesLog' /\ FinishedJobHoldsNothing'
  BY <1>0, <1>7 DEF DeliveryInv, DeliveryTypeOK, ChargeMatchesLog, FinishedJobHoldsNothing, quotaVars, notifVars
<1>5. StatusBackedByLogs' /\ RowBackedByLogs' /\ HookBackedByLogs'
  BY <1>7 DEF DeliveryInv, StatusBackedByLogs, RowBackedByLogs, HookBackedByLogs,
         SentSomewhere, Settled, notifVars
<1>6. QED
  BY <1>1, <1>2, <1>3, <1>4, <1>5, <1>8 DEF DeliveryInv

\* A final check that fails.
LEMMA CheckFailsInv ==
    ASSUME DeliveryInv, NEW n \in Notifs, NEW c \in Channels, CheckFails(n, c)
    PROVE  DeliveryInv'
<1> USE DEF CheckFails, SetJob
<1>1. QuotaInv'
  BY StutterInv DEF DeliveryInv
<1>2. DeliveryTypeOK'
  BY <1>1, DeliveryAssumption
     DEF DeliveryInv, QuotaInv, DeliveryTypeOK, AttemptsLeft, JobStates, Fault, NoFault, notifVars, submitVars
<1>3. AttemptsLeft'
  BY DeliveryAssumption DEF DeliveryInv, DeliveryTypeOK, AttemptsLeft, QueuedOnce
<1>7. FreshIsClean' /\ QueuedOnce'
  BY DEF DeliveryInv, DeliveryTypeOK, FreshIsClean, QueuedOnce, notifVars, submitVars
<1>4. ChargeMatchesLog' /\ FinishedJobHoldsNothing'
  BY DEF DeliveryInv, DeliveryTypeOK, ChargeMatchesLog, FinishedJobHoldsNothing, quotaVars, notifVars
<1>5. StatusBackedByLogs' /\ RowBackedByLogs' /\ HookBackedByLogs'
  BY DEF DeliveryInv, DeliveryTypeOK, StatusBackedByLogs, RowBackedByLogs, HookBackedByLogs,
         SentSomewhere, Settled, notifVars
<1>6. QED
  BY <1>1, <1>2, <1>3, <1>4, <1>5, <1>7 DEF DeliveryInv

\* A redelivery, or the end of a job that stalled too often.
LEMMA WorkerCrashesInv ==
    ASSUME DeliveryInv, NEW n \in Notifs, NEW c \in Channels, WorkerCrashes(n, c)
    PROVE  DeliveryInv'
<1>0. /\ job[n][c] \in {"accepted", "rejected", "errored", "threw", "checking"}
      /\ row' = [row EXCEPT ![n][c] = "none"]
      /\ UNCHANGED <<quotaVars, notifVars, submitVars>> /\ Fault
  BY DEF WorkerCrashes
<1>7. PICK s \in {"waiting", "exhausted", "dead"} :
        /\ job' = [job EXCEPT ![n][c] = s]
        /\ \/ /\ s = "waiting" /\ attempts' = attempts
              /\ stalls[n][c] < MaxStalls /\ stalls' = [stalls EXCEPT ![n][c] = @ + 1]
           \/ /\ s # "waiting" /\ stalls' = stalls
              /\ attempts' = [attempts EXCEPT ![n][c] = @ + 1]
  BY DEF WorkerCrashes, SetJob
<1>1. QuotaInv'
  BY <1>0, StutterInv DEF DeliveryInv
<1>2. DeliveryTypeOK'
  <2>1. attempts[n][c] < MaxAttempts
    BY <1>0 DEF DeliveryInv, AttemptsLeft
  <2>2. attempts' \in [Notifs -> [Channels -> 0 .. MaxAttempts]]
    <3>1. attempts[n][c] + 1 \in 0 .. MaxAttempts
      BY <2>1, DeliveryAssumption DEF DeliveryInv, DeliveryTypeOK
    <3>2. [attempts EXCEPT ![n][c] = @ + 1] \in [Notifs -> [Channels -> 0 .. MaxAttempts]]
      BY <3>1, UpdateTyped DEF DeliveryInv, DeliveryTypeOK
    <3>3. attempts \in [Notifs -> [Channels -> 0 .. MaxAttempts]]
      BY DEF DeliveryInv, DeliveryTypeOK
    <3>4. QED
      BY <1>7, <3>2, <3>3
  <2>3. stalls' \in [Notifs -> [Channels -> 0 .. MaxStalls]]
    <3>1. stalls[n][c] < MaxStalls => stalls[n][c] + 1 \in 0 .. MaxStalls
      BY DeliveryAssumption DEF DeliveryInv, DeliveryTypeOK
    <3>2. stalls[n][c] < MaxStalls
             => [stalls EXCEPT ![n][c] = @ + 1] \in [Notifs -> [Channels -> 0 .. MaxStalls]]
      BY <3>1, UpdateTyped DEF DeliveryInv, DeliveryTypeOK
    <3>3. stalls \in [Notifs -> [Channels -> 0 .. MaxStalls]]
      BY DEF DeliveryInv, DeliveryTypeOK
    <3>4. QED
      BY <1>7, <3>2, <3>3
  <2>4. job' \in [Notifs -> [Channels -> JobStates]]
    BY <1>7 DEF DeliveryInv, DeliveryTypeOK, JobStates
  <2>5. row' \in [Notifs -> [Channels -> {"none"} \cup Finals]] /\ faults' \in 0 .. MaxFaults
    BY <1>0, DeliveryAssumption DEF DeliveryInv, DeliveryTypeOK, Fault
  <2>6. QED
    BY <1>0, <1>1, <2>2, <2>3, <2>4, <2>5
       DEF DeliveryInv, QuotaInv, DeliveryTypeOK, notifVars, submitVars
<1>3. AttemptsLeft'
  BY <1>0, <1>7 DEF DeliveryInv, DeliveryTypeOK, AttemptsLeft
<1>8. FreshIsClean' /\ QueuedOnce'
  BY <1>0, <1>7 DEF DeliveryInv, DeliveryTypeOK, FreshIsClean, QueuedOnce, notifVars, submitVars
<1>4. ChargeMatchesLog' /\ FinishedJobHoldsNothing'
  BY <1>0, <1>7 DEF DeliveryInv, DeliveryTypeOK, ChargeMatchesLog, FinishedJobHoldsNothing, quotaVars, notifVars
<1>5. StatusBackedByLogs' /\ RowBackedByLogs' /\ HookBackedByLogs'
  BY <1>0 DEF DeliveryInv, DeliveryTypeOK, StatusBackedByLogs, RowBackedByLogs, HookBackedByLogs,
         SentSomewhere, Settled, notifVars
<1>6. QED
  BY <1>1, <1>2, <1>3, <1>4, <1>5, <1>8 DEF DeliveryInv

-----------------------------------------------------------------------------
(* The steps that record an outcome *)

\* A settlement leaves its own row settled and every other row alone.
LEMMA SettleEffect ==
    ASSUME QuotaTypeOK, NEW n \in Notifs, NEW c \in Channels,
           NEW outcome \in {"consumed", "released"}, SettleOnClient(n, c, outcome)
    PROVE  /\ resv'[n][c].state # "reserved"
           /\ resv'[n][c].state = "consumed" => outcome = "consumed" \/ resv[n][c].state = "consumed"
           /\ \A m \in Notifs, d \in Channels : m # n \/ d # c => resv'[m][d] = resv[m][d]
BY DEF QuotaTypeOK, SettleOnClient, quotaVars, Row

\* What recording an outcome of channel c does to the tables.
Recorded(n, c) ==
    /\ QuotaInv' /\ ChargeMatchesLog' /\ StatusBackedByLogs'
    /\ status' \in [Notifs -> {"absent", "pending"} \cup Finals]
    /\ logs' \in [Notifs -> [Channels -> SUBSET {"sent", "failed", "permanently_failed"}]]
    /\ \A m \in Notifs : status'[m] = "absent" => m # n /\ status[m] = "absent" /\ logs'[m] = logs[m]
    /\ \A m \in Notifs, d \in Channels : logs[m][d] \subseteq logs'[m][d]
    /\ resv'[n][c].state # "reserved"
    /\ \A m \in Notifs, d \in Channels : m # n \/ d # c => resv'[m][d] = resv[m][d]
    /\ UNCHANGED <<expected, hook>>

\* Recording a sent message; it then has a sent log.
LEMMA RecordSentRecords ==
    ASSUME DeliveryInv, NEW n \in Notifs, NEW c \in Channels,
           status[n] # "absent", RecordSent(n, c)
    PROVE  Recorded(n, c) /\ "sent" \in logs'[n][c]
<1>1. /\ status' = [status EXCEPT ![n] = SentStatus(@)]
      /\ logs' = [logs EXCEPT ![n][c] = @ \cup {"sent"}]
      /\ SettleOnClient(n, c, "consumed") /\ UNCHANGED <<expected, hook>>
  BY DEF RecordSent, Log
<1>2. SentStatus(status[n]) \in Finals /\ SentStatus(status[n]) # "pending"
  BY DEF DeliveryInv, DeliveryTypeOK, SentStatus, Finals
<1>3. QuotaInv'
  BY <1>1, SettleInv DEF DeliveryInv
<1>4. /\ resv'[n][c].state # "reserved"
      /\ \A m \in Notifs, d \in Channels : m # n \/ d # c => resv'[m][d] = resv[m][d]
  BY <1>1, SettleEffect DEF DeliveryInv, QuotaInv
<1>5. ChargeMatchesLog'
  BY <1>1, <1>4 DEF DeliveryInv, DeliveryTypeOK, ChargeMatchesLog
<1>6. "sent" \in logs'[n][c]
  BY <1>1 DEF DeliveryInv, DeliveryTypeOK
<1>7. StatusBackedByLogs'
  BY <1>1, <1>2, <1>6 DEF DeliveryInv, DeliveryTypeOK, StatusBackedByLogs, SentSomewhere, Finals
<1>8. QED
  BY <1>1, <1>2, <1>3, <1>4, <1>5, <1>6, <1>7 DEF Recorded, DeliveryInv, DeliveryTypeOK, Finals

\* Recording a terminal failure.
LEMMA RecordFailureRecords ==
    ASSUME DeliveryInv, NEW n \in Notifs, NEW c \in Channels,
           status[n] # "absent", NEW entry \in {"failed", "permanently_failed"},
           RecordFailure(n, c, entry)
    PROVE  Recorded(n, c)
<1>1. /\ status' = [status EXCEPT ![n] = FailedStatus(@)]
      /\ logs' = [logs EXCEPT ![n][c] = @ \cup {entry}]
      /\ SettleOnClient(n, c, "released") /\ UNCHANGED <<expected, hook>>
  BY DEF RecordFailure, Log
<1>2. FailedStatus(status[n]) \in {"delivered", "failed"}
  BY DEF FailedStatus
<1>3. QuotaInv'
  BY <1>1, SettleInv DEF DeliveryInv
<1>4. /\ resv'[n][c].state # "reserved"
      /\ resv'[n][c].state = "consumed" => resv[n][c].state = "consumed"
      /\ \A m \in Notifs, d \in Channels : m # n \/ d # c => resv'[m][d] = resv[m][d]
  BY <1>1, SettleEffect DEF DeliveryInv, QuotaInv
<1>5. ChargeMatchesLog'
  BY <1>1, <1>4 DEF DeliveryInv, DeliveryTypeOK, ChargeMatchesLog
<1>6. \A m \in Notifs : SentSomewhere(m) => SentSomewhere(m)'
  BY <1>1 DEF DeliveryInv, DeliveryTypeOK, SentSomewhere
<1>7. StatusBackedByLogs'
  <2>1. FailedStatus(status[n]) = "delivered" => status[n] = "delivered"
    BY DEF FailedStatus
  <2>2. QED
    BY <1>1, <1>2, <1>6, <2>1 DEF DeliveryInv, DeliveryTypeOK, StatusBackedByLogs
<1>8. QED
  BY <1>1, <1>2, <1>3, <1>4, <1>5, <1>7 DEF Recorded, DeliveryInv, DeliveryTypeOK, Finals

\* Recording an outcome and moving the job on keeps the invariant.
LEMMA RecordedInv ==
    ASSUME DeliveryInv, NEW n \in Notifs, NEW c \in Channels, Recorded(n, c),
           NEW s \in {"checking", "checkingFailed", "done", "threw", "dead"},
           NEW r \in {"none"} \cup Finals,
           job[n][c] # "none", job' = [job EXCEPT ![n][c] = s],
           s \in {"checking", "threw"} => attempts[n][c] < MaxAttempts,
           row' = [row EXCEPT ![n][c] = r],
           r \in {"delivered", "partial"} => SentSomewhere(n)',
           UNCHANGED <<submitVars, attempts, stalls>>, faults' \in 0 .. MaxFaults
    PROVE  DeliveryInv'
<1>1. DeliveryTypeOK'
  <2>1. job' \in [Notifs -> [Channels -> JobStates]]
    BY DEF DeliveryInv, DeliveryTypeOK, JobStates
  <2>2. row' \in [Notifs -> [Channels -> {"none"} \cup Finals]]
    BY UpdateTyped DEF DeliveryInv, DeliveryTypeOK
  <2>3. QED
    BY <2>1, <2>2 DEF Recorded, QuotaInv, DeliveryInv, DeliveryTypeOK, submitVars
<1>2. \A m \in Notifs : SentSomewhere(m) => SentSomewhere(m)'
  BY DEF Recorded, SentSomewhere
<1>3. AttemptsLeft'
  BY DEF DeliveryInv, DeliveryTypeOK, AttemptsLeft
<1>4. FreshIsClean' /\ QueuedOnce'
  BY DEF DeliveryInv, DeliveryTypeOK, FreshIsClean, QueuedOnce, Recorded, submitVars
<1>5. FinishedJobHoldsNothing'
  <2>1. /\ resv'[n][c].state # "reserved"
        /\ \A m \in Notifs, d \in Channels : m # n \/ d # c => resv'[m][d] = resv[m][d]
    BY DEF Recorded
  <2>2. \A m \in Notifs, d \in Channels : m # n \/ d # c => job'[m][d] = job[m][d]
    BY DEF DeliveryInv, DeliveryTypeOK
  <2>3. QED
    BY <2>1, <2>2 DEF DeliveryInv, FinishedJobHoldsNothing
<1>6. RowBackedByLogs'
  BY <1>2 DEF DeliveryInv, DeliveryTypeOK, RowBackedByLogs
<1>7. HookBackedByLogs'
  <2>1. \A m \in Notifs : Settled(m) \subseteq Settled(m)'
    BY DEF Recorded, Settled
  <2>2. QED
    BY <1>2, <2>1 DEF DeliveryInv, HookBackedByLogs, Recorded
<1>8. QED
  BY <1>1, <1>3, <1>4, <1>5, <1>6, <1>7 DEF DeliveryInv, Recorded
\* A terminal failure without a retry.
LEMMA FailureInv ==
    ASSUME DeliveryInv, NEW n \in Notifs, NEW c \in Channels,
           NoSession(n, c) \/ CommitRejected(n, c)
    PROVE  DeliveryInv'
<1>1. job[n][c] \in {"waiting", "rejected"} /\ RecordFailure(n, c, "failed")
      /\ Committed(n, c, FailedRow(status[n]), "checking") /\ NoFault
  BY DEF NoSession, CommitRejected
<1>2. status[n] # "absent" /\ attempts[n][c] < MaxAttempts
  BY <1>1 DEF DeliveryInv, FreshIsClean, AttemptsLeft
<1>3. Recorded(n, c)
  BY <1>1, <1>2, RecordFailureRecords
<1>4. FailedRow(status[n]) \in {"none", "failed"}
  BY DEF FailedRow
<1>5. PICK s \in {"checking", "done"} : job' = [job EXCEPT ![n][c] = s]
  BY <1>1 DEF Committed, SetJob
<1>6. row' = [row EXCEPT ![n][c] = FailedRow(status[n])] /\ UNCHANGED <<submitVars, attempts, stalls>>
  BY <1>1 DEF Committed
<1>7. faults' \in 0 .. MaxFaults
  BY <1>1 DEF NoFault, DeliveryInv, DeliveryTypeOK
<1>8. QED
  BY <1>1, <1>2, <1>3, <1>4, <1>5, <1>6, <1>7, RecordedInv DEF Finals

\* The failed handler.
LEMMA CommitPermanentInv ==
    ASSUME DeliveryInv, NEW n \in Notifs, NEW c \in Channels, CommitPermanent(n, c)
    PROVE  DeliveryInv'
<1>1. job[n][c] = "exhausted" /\ RecordFailure(n, c, "permanently_failed")
      /\ Committed(n, c, FailedRow(status[n]), "checkingFailed") /\ NoFault
  BY DEF CommitPermanent
<1>2. status[n] # "absent"
  BY <1>1 DEF DeliveryInv, FreshIsClean
<1>3. Recorded(n, c)
  BY <1>1, <1>2, RecordFailureRecords
<1>4. FailedRow(status[n]) \in {"none", "failed"}
  BY DEF FailedRow
<1>5. PICK s \in {"checkingFailed", "done"} : job' = [job EXCEPT ![n][c] = s]
  BY <1>1 DEF Committed, SetJob
<1>6. row' = [row EXCEPT ![n][c] = FailedRow(status[n])] /\ UNCHANGED <<submitVars, attempts, stalls>>
  BY <1>1 DEF Committed
<1>7. faults' \in 0 .. MaxFaults
  BY <1>1 DEF NoFault, DeliveryInv, DeliveryTypeOK
<1>8. QED
  BY <1>1, <1>2, <1>3, <1>4, <1>5, <1>6, <1>7, RecordedInv DEF Finals

\* A sent message.
LEMMA CommitSentInv ==
    ASSUME DeliveryInv, NEW n \in Notifs, NEW c \in Channels, CommitSent(n, c)
    PROVE  DeliveryInv'
<1>1. job[n][c] = "accepted" /\ RecordSent(n, c)
      /\ Committed(n, c, SentStatus(status[n]), "checking") /\ NoFault
  BY DEF CommitSent
<1>2. status[n] # "absent" /\ attempts[n][c] < MaxAttempts
  BY <1>1 DEF DeliveryInv, FreshIsClean, AttemptsLeft
<1>3. Recorded(n, c) /\ SentSomewhere(n)'
  BY <1>1, <1>2, RecordSentRecords DEF SentSomewhere
<1>4. SentStatus(status[n]) \in Finals
  BY <1>2 DEF SentStatus, DeliveryInv, DeliveryTypeOK, Finals
<1>5. PICK s \in {"checking", "done"} : job' = [job EXCEPT ![n][c] = s]
  BY <1>1 DEF Committed, SetJob
<1>6. row' = [row EXCEPT ![n][c] = SentStatus(status[n])] /\ UNCHANGED <<submitVars, attempts, stalls>>
  BY <1>1 DEF Committed
<1>7. faults' \in 0 .. MaxFaults
  BY <1>1 DEF NoFault, DeliveryInv, DeliveryTypeOK
<1>8. QED
  BY <1>1, <1>2, <1>3, <1>4, <1>5, <1>6, <1>7, RecordedInv

\* A transaction that committed unnoticed.
LEMMA AckLostInv ==
    ASSUME DeliveryInv, NEW n \in Notifs, NEW c \in Channels, AckLost(n, c)
    PROVE  DeliveryInv'
<1>1. PICK s \in {"threw", "dead"} :
        /\ job' = [job EXCEPT ![n][c] = s]
        /\ job[n][c] \in {"accepted", "rejected", "exhausted"}
        /\ s = "threw" => job[n][c] \in {"accepted", "rejected"}
        /\ \/ RecordSent(n, c)
           \/ \E entry \in {"failed", "permanently_failed"} : RecordFailure(n, c, entry)
  BY DEF AckLost, SetJob
<1>2. status[n] # "absent" /\ (s = "threw" => attempts[n][c] < MaxAttempts)
  BY <1>1 DEF DeliveryInv, FreshIsClean, AttemptsLeft
<1>3. Recorded(n, c)
  BY <1>1, <1>2, RecordSentRecords, RecordFailureRecords
<1>4. row[n][c] \in {"none"} \cup Finals
  BY DEF DeliveryInv, DeliveryTypeOK
<1>5. row[n][c] \in {"delivered", "partial"} => SentSomewhere(n)'
  BY <1>3 DEF DeliveryInv, RowBackedByLogs, Recorded, SentSomewhere
<1>6. row' = [row EXCEPT ![n][c] = row[n][c]] /\ UNCHANGED <<submitVars, attempts, stalls>>
  BY DEF AckLost, DeliveryInv, DeliveryTypeOK
<1>7. faults' \in 0 .. MaxFaults
  BY DeliveryAssumption DEF AckLost, Fault, DeliveryInv, DeliveryTypeOK
<1>8. QED
  BY <1>1, <1>2, <1>3, <1>4, <1>5, <1>6, <1>7, RecordedInv

-----------------------------------------------------------------------------
(* Submission, sweep and clock *)

\* A new notification, with its reservation rows at most reserved.
LEMMA InsertInv ==
    ASSUME DeliveryInv, QuotaInv', NEW n \in Notifs, NEW chs \in SUBSET Channels,
           NEW who \in {"schedule", "notify"}, Insert(n, chs, who),
           \A m \in Notifs : m # n => resv'[m] = resv[m],
           \A c \in Channels : resv'[n][c].state # "consumed"
    PROVE  DeliveryInv'
<1> USE DEF Insert
<1>1. DeliveryTypeOK'
  BY DEF DeliveryInv, QuotaInv, DeliveryTypeOK, NoFault, jobVars
<1>2. AttemptsLeft' /\ FreshIsClean' /\ QueuedOnce'
  BY DEF DeliveryInv, DeliveryTypeOK, AttemptsLeft, FreshIsClean, QueuedOnce, jobVars
<1>3. \A c \in Channels : job[n][c] = "none" /\ logs[n][c] = {}
  BY DEF DeliveryInv, FreshIsClean
<1>4. ChargeMatchesLog'
  BY <1>3 DEF DeliveryInv, ChargeMatchesLog
<1>5. FinishedJobHoldsNothing'
  BY <1>3 DEF DeliveryInv, FinishedJobHoldsNothing, jobVars
<1>6. StatusBackedByLogs' /\ RowBackedByLogs'
  BY <1>3 DEF DeliveryInv, DeliveryTypeOK, StatusBackedByLogs, RowBackedByLogs, SentSomewhere, jobVars
<1>7. HookBackedByLogs'
  BY DEF DeliveryInv, DeliveryTypeOK, FreshIsClean, HookBackedByLogs, SentSomewhere, Settled
<1>8. QED
  BY <1>1, <1>2, <1>4, <1>5, <1>6, <1>7 DEF DeliveryInv

\* Submission by the scheduler.
LEMMA SubmitScheduledInv ==
    ASSUME DeliveryInv, NEW n \in Notifs, NEW chs \in SUBSET Channels, SubmitScheduled(n, chs)
    PROVE  DeliveryInv'
<1>1. Insert(n, chs \ BlockedOf(chs), "schedule") /\ ReserveForChannels(n, chs)
  BY DEF SubmitScheduled
<1>2. QuotaInv'
  BY <1>1, ReserveInv DEF DeliveryInv
<1>3. \A m \in Notifs : m # n => resv'[m] = resv[m]
  BY <1>1 DEF ReserveForChannels, DeliveryInv, QuotaInv, QuotaTypeOK
<1>4. \A c \in Channels : resv'[n][c].state # "consumed"
  BY <1>1 DEF ReserveForChannels, DeliveryInv, QuotaInv, QuotaTypeOK, Row, NoRow
<1>5. QED
  BY <1>1, <1>2, <1>3, <1>4, InsertInv

\* Submission by POST /notify.
LEMMA SubmitNotifyInv ==
    ASSUME DeliveryInv, NEW n \in Notifs, NEW chs \in SUBSET Channels, SubmitNotify(n, chs)
    PROVE  DeliveryInv'
<1>1. PICK accepted \in SUBSET Channels : Insert(n, accepted, "notify")
  BY DEF SubmitNotify
<1>2. UNCHANGED quotaVars
  BY DEF SubmitNotify
<1>3. QuotaInv'
  BY <1>2, StutterInv DEF DeliveryInv
<1>4. \A c \in Channels : resv[n][c].state # "consumed"
  BY <1>1 DEF Insert, DeliveryInv, FreshIsClean, ChargeMatchesLog
<1>5. QED
  BY <1>1, <1>2, <1>3, <1>4, InsertInv DEF quotaVars

\* /notify marks its notification failed.
LEMMA MarkFailedInv ==
    ASSUME DeliveryInv, NEW n \in Notifs, MarkFailed(n)
    PROVE  DeliveryInv'
<1> USE DEF MarkFailed
<1>1. QuotaInv'
  BY StutterInv DEF DeliveryInv
<1>2. DeliveryTypeOK'
  BY <1>1 DEF DeliveryInv, QuotaInv, DeliveryTypeOK, Finals, NoFault, jobVars
<1>3. AttemptsLeft' /\ FreshIsClean' /\ QueuedOnce'
  BY DEF DeliveryInv, DeliveryTypeOK, AttemptsLeft, FreshIsClean, QueuedOnce, jobVars
<1>4. ChargeMatchesLog' /\ FinishedJobHoldsNothing'
  BY DEF DeliveryInv, ChargeMatchesLog, FinishedJobHoldsNothing, quotaVars, jobVars
<1>5. StatusBackedByLogs' /\ RowBackedByLogs' /\ HookBackedByLogs'
  BY DEF DeliveryInv, DeliveryTypeOK, StatusBackedByLogs, RowBackedByLogs, HookBackedByLogs,
         SentSomewhere, Settled, jobVars
<1>6. QED
  BY <1>1, <1>2, <1>3, <1>4, <1>5 DEF DeliveryInv

\* A submitter stops.
LEMMA SubmitterCrashesInv ==
    ASSUME DeliveryInv, NEW n \in Notifs, SubmitterCrashes(n)
    PROVE  DeliveryInv'
<1> USE DEF SubmitterCrashes
<1>1. QuotaInv'
  BY StutterInv DEF DeliveryInv
<1>2. DeliveryTypeOK'
  BY <1>1, DeliveryAssumption
     DEF DeliveryInv, QuotaInv, DeliveryTypeOK, Fault, notifVars, jobVars
<1>3. AttemptsLeft' /\ FreshIsClean' /\ QueuedOnce'
  BY DEF DeliveryInv, DeliveryTypeOK, AttemptsLeft, FreshIsClean, QueuedOnce, notifVars, jobVars
<1>4. ChargeMatchesLog' /\ FinishedJobHoldsNothing'
  BY DEF DeliveryInv, ChargeMatchesLog, FinishedJobHoldsNothing, quotaVars, notifVars, jobVars
<1>5. StatusBackedByLogs' /\ RowBackedByLogs' /\ HookBackedByLogs'
  BY DEF DeliveryInv, StatusBackedByLogs, RowBackedByLogs, HookBackedByLogs,
         SentSomewhere, Settled, notifVars, jobVars
<1>6. QED
  BY <1>1, <1>2, <1>3, <1>4, <1>5 DEF DeliveryInv

\* The sweep only turns reserved rows into released ones.
LEMMA SweepInv ==
    ASSUME DeliveryInv, NEW S \in SUBSET Held, Sweep(S)
    PROVE  DeliveryInv'
<1> USE DEF Sweep
<1>1. QuotaInv'
  BY ReleaseInv DEF DeliveryInv, Held
<1>2. DeliveryTypeOK'
  BY <1>1 DEF DeliveryInv, QuotaInv, DeliveryTypeOK, Finals, NoFault, submitVars, jobVars
<1>3. AttemptsLeft' /\ FreshIsClean' /\ QueuedOnce'
  BY DEF DeliveryInv, AttemptsLeft, FreshIsClean, QueuedOnce, submitVars, jobVars
<1>4. \A n \in Notifs, c \in Channels :
         \/ resv'[n][c] = resv[n][c]
         \/ resv'[n][c].state = "released"
  BY DEF ReleaseStaleReservations, Row
<1>5. ChargeMatchesLog' /\ FinishedJobHoldsNothing'
  BY <1>4 DEF DeliveryInv, ChargeMatchesLog, FinishedJobHoldsNothing, jobVars
<1>6. StatusBackedByLogs' /\ RowBackedByLogs' /\ HookBackedByLogs'
  BY DEF DeliveryInv, DeliveryTypeOK, StatusBackedByLogs, RowBackedByLogs, HookBackedByLogs,
         SentSomewhere, Settled, jobVars
<1>7. QED
  BY <1>1, <1>2, <1>3, <1>5, <1>6 DEF DeliveryInv

\* Nothing but the quota tables changes, and no row of them.
LEMMA IdleInv ==
    ASSUME DeliveryInv, QuotaInv', UNCHANGED <<resv, notifVars, submitVars, jobVars, faults>>
    PROVE  DeliveryInv'
<1>1. DeliveryTypeOK'
  BY DEF DeliveryInv, QuotaInv, DeliveryTypeOK, notifVars, submitVars, jobVars
<1>2. AttemptsLeft' /\ FreshIsClean' /\ QueuedOnce'
  BY DEF DeliveryInv, AttemptsLeft, FreshIsClean, QueuedOnce, notifVars, submitVars, jobVars
<1>3. ChargeMatchesLog' /\ FinishedJobHoldsNothing'
  BY DEF DeliveryInv, ChargeMatchesLog, FinishedJobHoldsNothing, notifVars, jobVars
<1>4. StatusBackedByLogs' /\ RowBackedByLogs' /\ HookBackedByLogs'
  BY DEF DeliveryInv, StatusBackedByLogs, RowBackedByLogs, HookBackedByLogs,
         SentSomewhere, Settled, notifVars, jobVars
<1>5. QED
  BY <1>1, <1>2, <1>3, <1>4 DEF DeliveryInv

\* A new period.
LEMMA ClockInv ==
    ASSUME DeliveryInv, NEW c \in Limited, Clock(c)
    PROVE  DeliveryInv'
<1>1. QuotaInv'
  BY NewPeriodInv, LedgerAssumption DEF DeliveryInv, Clock
<1>2. UNCHANGED <<resv, notifVars, submitVars, jobVars, faults>>
  BY DEF Clock, NewPeriod, NoFault
<1>3. QED
  BY <1>1, <1>2, IdleInv

-----------------------------------------------------------------------------
(* The invariant of the whole *)

\* The initial state.
LEMMA DeliveryInitInv == DeliveryInit => DeliveryInv
<1> SUFFICES ASSUME DeliveryInit PROVE DeliveryInv
  OBVIOUS
<1> USE DEF DeliveryInit
<1>1. QuotaInv
  BY InitInv
<1>2. DeliveryTypeOK
  BY <1>1, DeliveryAssumption DEF QuotaInv, DeliveryTypeOK, JobStates
<1>3. AttemptsLeft /\ FreshIsClean /\ QueuedOnce
  BY DeliveryAssumption DEF AttemptsLeft, FreshIsClean, QueuedOnce
<1>4. ChargeMatchesLog /\ FinishedJobHoldsNothing
  BY DEF ChargeMatchesLog, FinishedJobHoldsNothing, QuotaInit, NoRow
<1>5. StatusBackedByLogs /\ RowBackedByLogs /\ HookBackedByLogs
  BY DEF StatusBackedByLogs, RowBackedByLogs, HookBackedByLogs
<1>6. QED
  BY <1>1, <1>2, <1>3, <1>4, <1>5 DEF DeliveryInv

\* One step per action.
LEMMA DeliveryNextInv == DeliveryInv /\ [DeliveryNext]_deliveryVars => DeliveryInv'
<1> SUFFICES ASSUME DeliveryInv, [DeliveryNext]_deliveryVars
             PROVE  DeliveryInv'
  OBVIOUS
<1>1. ASSUME NEW n \in Notifs, NEW chs \in SUBSET Channels,
             SubmitScheduled(n, chs) \/ SubmitNotify(n, chs)
      PROVE  DeliveryInv'
  BY <1>1, SubmitScheduledInv, SubmitNotifyInv
<1>2. ASSUME NEW n \in Notifs, MarkFailed(n) \/ SubmitterCrashes(n)
      PROVE  DeliveryInv'
  BY <1>2, MarkFailedInv, SubmitterCrashesInv
<1>3. ASSUME NEW n \in Notifs, NEW c \in Channels, EnqueueJob(n, c)
      PROVE  DeliveryInv'
  BY <1>3, EnqueueJobInv
<1>4. ASSUME NEW n \in Notifs, NEW c \in Channels, Worker(n, c)
      PROVE  DeliveryInv'
  BY <1>4, AttemptInv, FailureInv, CommitSentInv, LogTransientInv, FailAttemptInv,
     CommitPermanentInv, FireFinalInv DEF Worker
<1>5. ASSUME NEW n \in Notifs, NEW c \in Channels, Trouble(n, c)
      PROVE  DeliveryInv'
  BY <1>5, EnqueueFailsInv, TxFailsInv, AckLostInv, CheckFailsInv, WorkerCrashesInv DEF Trouble
<1>6. CASE Sweeper
  BY <1>6, SweepInv DEF Sweeper
<1>7. ASSUME NEW c \in Limited, Clock(c)
      PROVE  DeliveryInv'
  BY <1>7, ClockInv
<1>8. CASE UNCHANGED deliveryVars
  <2>1. QuotaInv' /\ UNCHANGED <<resv, notifVars, submitVars, jobVars, faults>>
    BY <1>8, StutterInv DEF deliveryVars, quotaVars, DeliveryInv
  <2>2. QED
    BY <2>1, IdleInv
<1>9. QED
  BY <1>1, <1>2, <1>3, <1>4, <1>5, <1>6, <1>7, <1>8 DEF DeliveryNext

-----------------------------------------------------------------------------
(* Theorems *)

\* The invariant holds in every state.
LEMMA DeliveryAlwaysInv == DeliverySpec => []DeliveryInv
  BY DeliveryInitInv, DeliveryNextInv, PTL DEF DeliverySpec

\* Every table, queue and worker is in a state the program gives it.
THEOREM DeliveryTypeCorrect == DeliverySpec => []DeliveryTypeOK
<1>1. DeliveryInv => DeliveryTypeOK
  BY DEF DeliveryInv
<1>2. QED
  BY <1>1, DeliveryAlwaysInv, PTL

\* Retries, lost acknowledgements, redeliveries and sweeps never charge a unit
\* without a sent log, nor log an outcome and leave its unit held.
THEOREM DeliveryChargesWhatItLogs == DeliverySpec => []ChargeMatchesLog
<1>1. DeliveryInv => ChargeMatchesLog
  BY DEF DeliveryInv
<1>2. QED
  BY <1>1, DeliveryAlwaysInv, PTL

\* A job that ran to its end left no unit for the sweep.
THEOREM DeliverySettlesItsJobs == DeliverySpec => []FinishedJobHoldsNothing
<1>1. DeliveryInv => FinishedJobHoldsNothing
  BY DEF DeliveryInv
<1>2. QED
  BY <1>1, DeliveryAlwaysInv, PTL

\* The status of a notification is backed by its logs.
THEOREM DeliveryStatusIsBacked == DeliverySpec => []StatusBackedByLogs
<1>1. DeliveryInv => StatusBackedByLogs
  BY DEF DeliveryInv
<1>2. QED
  BY <1>1, DeliveryAlwaysInv, PTL

-----------------------------------------------------------------------------
(* Whom an announcement may not wait for *)

\* What was logged for a job ended it, or an attempt of it that is being repeated.
LoggedJobsAreOverOrRepeated ==
    \A n \in Notifs, c \in Channels : logs[n][c] # {} => Over(n, c) \/ Repeated(n, c)

\* Only the job of n and c moves, and only it gets a log.
JobMoves(n, c) ==
    \A m \in Notifs, d \in Channels : m # n \/ d # c =>
        /\ logs'[m][d] = logs[m][d] /\ job'[m][d] = job[m][d]
        /\ attempts'[m][d] = attempts[m][d] /\ stalls'[m][d] = stalls[m][d]

LEMMA MovedJobIsOverOrRepeated ==
    ASSUME LoggedJobsAreOverOrRepeated, NEW n \in Notifs, NEW c \in Channels, JobMoves(n, c),
           logs'[n][c] = {} \/ Over(n, c)' \/ Repeated(n, c)'
    PROVE  LoggedJobsAreOverOrRepeated'
<1> SUFFICES ASSUME NEW m \in Notifs, NEW d \in Channels, logs'[m][d] # {}
             PROVE  Over(m, d)' \/ Repeated(m, d)'
  BY DEF LoggedJobsAreOverOrRepeated
<1>1. CASE m = n /\ d = c
  BY <1>1
<1>2. CASE m # n \/ d # c
  BY <1>2 DEF JobMoves, LoggedJobsAreOverOrRepeated, Over, Repeated
<1>3. QED
  BY <1>1, <1>2

\* A job that comes to its end.
LEMMA OverStaysOver ==
    ASSUME DeliveryInv, LoggedJobsAreOverOrRepeated, NEW n \in Notifs, NEW c \in Channels,
           \/ NoSession(n, c) \/ CommitSent(n, c) \/ CommitRejected(n, c)
           \/ CommitPermanent(n, c) \/ FireFinal(n, c) \/ CheckFails(n, c)
    PROVE  LoggedJobsAreOverOrRepeated'
<1>1. logs \in [Notifs -> [Channels -> SUBSET {"sent", "failed", "permanently_failed"}]]
      /\ job \in [Notifs -> [Channels -> JobStates]]
  BY DEF DeliveryInv, DeliveryTypeOK
<1>2. Over(n, c)'
  BY <1>1 DEF NoSession, CommitSent, CommitRejected, CommitPermanent, FireFinal, CheckFails,
              Committed, SetJob, Over
<1>3. JobMoves(n, c)
  BY <1>1 DEF NoSession, CommitSent, CommitRejected, CommitPermanent, FireFinal, CheckFails,
              Committed, SetJob, RecordSent, RecordFailure, Log, JobMoves, notifVars
<1>4. QED
  BY <1>2, <1>3, MovedJobIsOverOrRepeated

\* A job whose attempt, transaction or worker failed.
LEMMA FailedIsRepeated ==
    ASSUME DeliveryInv, LoggedJobsAreOverOrRepeated, NEW n \in Notifs, NEW c \in Channels,
           LogTransient(n, c) \/ FailAttempt(n, c) \/ TxFails(n, c) \/ AckLost(n, c)
           \/ WorkerCrashes(n, c)
    PROVE  LoggedJobsAreOverOrRepeated'
<1>1. /\ logs \in [Notifs -> [Channels -> SUBSET {"sent", "failed", "permanently_failed"}]]
      /\ job \in [Notifs -> [Channels -> JobStates]]
      /\ attempts \in [Notifs -> [Channels -> 0 .. MaxAttempts]]
      /\ stalls \in [Notifs -> [Channels -> 0 .. MaxStalls]]
  BY DEF DeliveryInv, DeliveryTypeOK
<1>2. Over(n, c)' \/ Repeated(n, c)'
  <2>1. attempts[n][c] + 1 > 0 /\ stalls[n][c] + 1 > 0
    BY <1>1, DeliveryAssumption
  <2>2. QED
    BY <1>1, <2>1 DEF LogTransient, FailAttempt, TxFails, AckLost, WorkerCrashes, SetJob,
                      Over, Repeated
<1>3. JobMoves(n, c)
  BY <1>1 DEF LogTransient, FailAttempt, TxFails, AckLost, WorkerCrashes, SetJob, RecordSent,
              RecordFailure, Log, JobMoves, notifVars
<1>4. QED
  BY <1>2, <1>3, MovedJobIsOverOrRepeated

\* A job that is taken or enqueued, which nothing counts.
LEMMA TakenStaysRepeated ==
    ASSUME DeliveryInv, LoggedJobsAreOverOrRepeated, NEW n \in Notifs, NEW c \in Channels,
           Attempt(n, c) \/ EnqueueJob(n, c) \/ EnqueueFails(n, c)
    PROVE  LoggedJobsAreOverOrRepeated'
<1>1. /\ job \in [Notifs -> [Channels -> JobStates]] /\ QueuedOnce
      /\ UNCHANGED <<logs, attempts, stalls>>
  BY DEF DeliveryInv, DeliveryTypeOK, Attempt, EnqueueJob, EnqueueFails, notifVars
<1>2. job[n][c] \in {"none", "waiting"}
  BY <1>1 DEF Attempt, EnqueueJob, EnqueueFails, QueuedOnce
<1>3. logs'[n][c] = {} \/ Repeated(n, c)'
  BY <1>1, <1>2 DEF LoggedJobsAreOverOrRepeated, Over, Repeated
<1>4. JobMoves(n, c)
  BY <1>1 DEF Attempt, EnqueueJob, EnqueueFails, SetJob, JobMoves
<1>5. QED
  BY <1>3, <1>4, MovedJobIsOverOrRepeated

LEMMA LoggedStep ==
    DeliveryInv /\ LoggedJobsAreOverOrRepeated /\ [DeliveryNext]_deliveryVars
        => LoggedJobsAreOverOrRepeated'
<1> SUFFICES ASSUME DeliveryInv, LoggedJobsAreOverOrRepeated, [DeliveryNext]_deliveryVars
             PROVE  LoggedJobsAreOverOrRepeated'
  OBVIOUS
<1>1. CASE UNCHANGED <<logs, job, attempts, stalls>>
  BY <1>1 DEF LoggedJobsAreOverOrRepeated, Over, Repeated
<1>2. ASSUME NEW n \in Notifs, NEW chs \in SUBSET Channels,
             SubmitScheduled(n, chs) \/ SubmitNotify(n, chs)
      PROVE  UNCHANGED <<logs, job, attempts, stalls>>
  BY <1>2 DEF SubmitScheduled, SubmitNotify, Insert, jobVars
<1>3. ASSUME NEW n \in Notifs, MarkFailed(n) \/ SubmitterCrashes(n)
      PROVE  UNCHANGED <<logs, job, attempts, stalls>>
  BY <1>3 DEF MarkFailed, SubmitterCrashes, jobVars, notifVars
<1>4. ASSUME NEW n \in Notifs, NEW c \in Channels, EnqueueJob(n, c) \/ Worker(n, c) \/ Trouble(n, c)
      PROVE  LoggedJobsAreOverOrRepeated'
  BY <1>4, OverStaysOver, FailedIsRepeated, TakenStaysRepeated DEF Worker, Trouble
<1>5. ASSUME Sweeper \/ (\E c \in Limited : Clock(c)) \/ UNCHANGED deliveryVars
      PROVE  UNCHANGED <<logs, job, attempts, stalls>>
  BY <1>5 DEF Sweeper, Sweep, Clock, deliveryVars, jobVars, notifVars
<1>6. QED
  BY <1>1, <1>2, <1>3, <1>4, <1>5 DEF DeliveryNext

\* However the workers of a notification's channels interleave, crash and repeat,
\* notification.final is announced before the end of a job only if an attempt of
\* that job has failed and is repeated: no channel's first outcome is anticipated.
THEOREM DeliveryFinalIsEarlyForRetriesAlone == DeliverySpec => []FinalIsEarlyForRetriesAlone
<1>1. DeliveryInit => LoggedJobsAreOverOrRepeated
  BY DEF DeliveryInit, LoggedJobsAreOverOrRepeated
<1>2. DeliveryInv /\ LoggedJobsAreOverOrRepeated => FinalIsEarlyForRetriesAlone
  BY DEF DeliveryInv, HookBackedByLogs, LoggedJobsAreOverOrRepeated, DeliveryTypeOK,
         FinalIsEarlyForRetriesAlone, Settled
<1>3. QED
  BY <1>1, <1>2, LoggedStep, DeliveryAlwaysInv, PTL DEF DeliverySpec

-----------------------------------------------------------------------------
(* What a step may not do *)

\* The statuses a step other than MarkFailed leaves at delivered.
LEMMA DeliveredStep ==
    ASSUME DeliveryInv, [DeliveryNext]_deliveryVars,
           NEW m \in Notifs, status[m] = "delivered", status'[m] # "delivered"
    PROVE  submitter[m] = "failing"
<1>1. CASE UNCHANGED status
  BY <1>1
<1>2. ASSUME NEW n \in Notifs, NEW chs \in SUBSET Channels, Insert(n, chs, "schedule") \/ Insert(n, chs, "notify")
      PROVE  FALSE
  BY <1>2 DEF Insert, DeliveryInv, DeliveryTypeOK
<1>3. ASSUME NEW n \in Notifs, MarkFailed(n)
      PROVE  submitter[m] = "failing"
  BY <1>3 DEF MarkFailed, DeliveryInv, DeliveryTypeOK
<1>4. ASSUME NEW n \in Notifs, NEW c \in Channels,
             RecordSent(n, c) \/ (\E entry : RecordFailure(n, c, entry))
      PROVE  FALSE
  BY <1>4 DEF RecordSent, RecordFailure, SentStatus, FailedStatus, DeliveryInv, DeliveryTypeOK
<1>5. ASSUME NEW S, Sweep(S)
      PROVE  FALSE
  BY <1>5 DEF Sweep
<1>6. ASSUME NEW n \in Notifs, NEW chs \in SUBSET Channels,
             SubmitScheduled(n, chs) \/ SubmitNotify(n, chs)
      PROVE  FALSE
  <2>1. PICK accepted \in SUBSET Channels :
          Insert(n, accepted, "schedule") \/ Insert(n, accepted, "notify")
    BY <1>6 DEF SubmitScheduled, SubmitNotify
  <2>2. QED
    BY <2>1, <1>2
<1>7. ASSUME NEW n \in Notifs, SubmitterCrashes(n)
      PROVE  UNCHANGED status
  BY <1>7 DEF SubmitterCrashes, notifVars
<1>8. ASSUME NEW n \in Notifs, NEW c \in Channels, EnqueueJob(n, c) \/ Worker(n, c) \/ Trouble(n, c)
      PROVE  UNCHANGED status
  <2>1. CASE NoSession(n, c) \/ CommitSent(n, c) \/ CommitRejected(n, c) \/ CommitPermanent(n, c) \/ AckLost(n, c)
    BY <2>1, <1>4 DEF NoSession, CommitSent, CommitRejected, CommitPermanent, AckLost
  <2>2. CASE EnqueueJob(n, c) \/ Attempt(n, c) \/ LogTransient(n, c) \/ FailAttempt(n, c) \/ FireFinal(n, c)
    BY <2>2 DEF EnqueueJob, Attempt, LogTransient, FailAttempt, FireFinal, notifVars
  <2>3. CASE EnqueueFails(n, c) \/ TxFails(n, c) \/ CheckFails(n, c) \/ WorkerCrashes(n, c)
    BY <2>3 DEF EnqueueFails, TxFails, CheckFails, WorkerCrashes, notifVars
  <2>4. QED
    BY <1>8, <2>1, <2>2, <2>3 DEF Worker, Trouble
<1>9. ASSUME NEW c \in Limited, Clock(c)
      PROVE  UNCHANGED status
  BY <1>9 DEF Clock, notifVars
<1>10. CASE UNCHANGED deliveryVars
  BY <1>10 DEF deliveryVars, notifVars
<1>11. QED
  BY <1>1, <1>3, <1>5, <1>6, <1>7, <1>8, <1>9, <1>10 DEF DeliveryNext, Sweeper

\* No later failure of a channel and no sweep degrades a delivered notification.
THEOREM DeliveryKeepsDelivered == DeliverySpec => DeliveredStays
<1>1. DeliveryInv /\ [DeliveryNext]_deliveryVars
        => [\A n \in Notifs : status[n] = "delivered" /\ status'[n] # "delivered"
                                => submitter[n] = "failing"]_deliveryVars
  BY DeliveredStep
<1>2. QED
  BY <1>1, DeliveryAlwaysInv, PTL DEF DeliverySpec, DeliveredStays

\* A unit given back by a settlement is the one settled, as released.
LEMMA ReleasedBySettling ==
    ASSUME QuotaTypeOK, NEW n \in Notifs, NEW c \in Channels,
           NEW outcome \in {"consumed", "released"}, SettleOnClient(n, c, outcome),
           NEW m \in Notifs, NEW d \in Channels,
           resv[m][d].state = "reserved", resv'[m][d].state = "released"
    PROVE  m = n /\ d = c /\ outcome = "released"
BY DEF QuotaTypeOK, SettleOnClient, quotaVars, Row

\* The steps that give a unit back.
LEMMA ReleasedStep ==
    ASSUME DeliveryInv, [DeliveryNext]_deliveryVars, NEW m \in Notifs, NEW d \in Channels,
           resv[m][d].state = "reserved", resv'[m][d].state = "released"
    PROVE  \/ job' = job
           \/ job[m][d] \in {"rejected", "exhausted"}
           \/ job[m][d] = "waiting" /\ d \in SessionChannels
<1>0. QuotaTypeOK /\ ~ UNCHANGED quotaVars
  BY DEF DeliveryInv, QuotaInv, quotaVars
<1>1. ASSUME NEW n \in Notifs, NEW chs \in SUBSET Channels,
             SubmitScheduled(n, chs) \/ SubmitNotify(n, chs)
      PROVE  job' = job
  BY <1>1 DEF SubmitScheduled, SubmitNotify, Insert, jobVars
<1>2. ASSUME NEW n \in Notifs, MarkFailed(n) \/ SubmitterCrashes(n)
      PROVE  job' = job
  BY <1>2 DEF MarkFailed, SubmitterCrashes, jobVars
<1>3. ASSUME NEW n \in Notifs, NEW c \in Channels,
             NoSession(n, c) \/ CommitRejected(n, c) \/ CommitPermanent(n, c)
      PROVE  \/ job[m][d] \in {"rejected", "exhausted"}
             \/ job[m][d] = "waiting" /\ d \in SessionChannels
  <2>1. SettleOnClient(n, c, "released")
    BY <1>3 DEF NoSession, CommitRejected, CommitPermanent, RecordFailure
  <2>2. m = n /\ d = c
    BY <1>0, <2>1, ReleasedBySettling
  <2>3. QED
    BY <1>3, <2>2 DEF NoSession, CommitRejected, CommitPermanent
<1>4. ASSUME NEW n \in Notifs, NEW c \in Channels, RecordSent(n, c)
      PROVE  FALSE
  BY <1>0, <1>4, ReleasedBySettling DEF RecordSent
<1>5. ASSUME NEW n \in Notifs, NEW c \in Channels, AckLost(n, c)
      PROVE  job[m][d] \in {"rejected", "exhausted"}
  <2>1. job[n][c] \in {"rejected", "exhausted"} /\ SettleOnClient(n, c, "released")
    BY <1>4, <1>5 DEF AckLost, RecordFailure
  <2>2. QED
    BY <1>0, <2>1, ReleasedBySettling
<1>6. ASSUME NEW n \in Notifs, NEW c \in Channels,
             \/ EnqueueJob(n, c) \/ Attempt(n, c) \/ LogTransient(n, c) \/ FailAttempt(n, c)
             \/ FireFinal(n, c) \/ EnqueueFails(n, c) \/ TxFails(n, c) \/ CheckFails(n, c)
             \/ WorkerCrashes(n, c)
      PROVE  FALSE
  BY <1>0, <1>6 DEF EnqueueJob, Attempt, LogTransient, FailAttempt, FireFinal, EnqueueFails,
                    TxFails, CheckFails, WorkerCrashes
<1>7. CASE Sweeper
  BY <1>7 DEF Sweeper, Sweep, jobVars
<1>8. ASSUME NEW c \in Limited, Clock(c)
      PROVE  job' = job
  BY <1>8 DEF Clock, jobVars
<1>9. CASE UNCHANGED deliveryVars
  BY <1>9 DEF deliveryVars, jobVars
<1>10. ASSUME NEW n \in Notifs, NEW c \in Channels, Worker(n, c) \/ Trouble(n, c)
       PROVE  \/ job[m][d] \in {"rejected", "exhausted"}
              \/ job[m][d] = "waiting" /\ d \in SessionChannels
  BY <1>3, <1>4, <1>5, <1>6, <1>10 DEF Worker, Trouble, CommitSent
<1>11. QED
  BY <1>1, <1>2, <1>6, <1>7, <1>8, <1>9, <1>10 DEF DeliveryNext

\* A unit is given back only by a terminal failure of its own job or by the
\* sweep: no retry, crash or lost acknowledgement frees it for someone else.
THEOREM DeliveryKeepsUnits == DeliverySpec => TransientFailureKeepsUnit
<1>1. DeliveryInv /\ [DeliveryNext]_deliveryVars
        => [\A n \in Notifs, c \in Channels :
              resv[n][c].state = "reserved" /\ resv'[n][c].state = "released"
                => \/ job' = job
                   \/ job[n][c] \in {"rejected", "exhausted"}
                   \/ job[n][c] = "waiting" /\ c \in SessionChannels]_deliveryVars
  BY ReleasedStep
<1>2. QED
  BY <1>1, DeliveryAlwaysInv, PTL DEF DeliverySpec, TransientFailureKeepsUnit
=============================================================================
