--------------------------- MODULE ManualTrigger ---------------------------
(***************************************************************************)
(* POST /schedules/:id/trigger (src/src/api/routes/schedules.js): the       *)
(* handler asks the data source for the notifications of a schedule, and     *)
(* for each of them reserves quota, stores the notification and enqueues a   *)
(* job per channel; then it logs the run with its counts.  A failure ends    *)
(* one item, not the run; the process may die anywhere.  Nothing of the      *)
(* schedule itself changes, and the poller may send the same run beside it.  *)
(***************************************************************************)
EXTENDS Naturals, FiniteSets

CONSTANTS
    Triggers,           \* trigger requests
    TriggerChannels,
    TriggerItems,       \* the notifications a data source answers with
    MaxTriggerFaults    \* bound: crashes and failures of the database or of Redis

(* An item is [id, valid, owned, quota]: whether it names a user and a known   *)
(* channel, whether it names an entity that can own a quota, and for each of   *)
(* its channels what the owner's quota leaves: unlimited, free or exhausted.   *)
ChannelsOf(i) == DOMAIN i.quota

ASSUME TriggerAssumption ==
    /\ MaxTriggerFaults \in Nat
    /\ IsFiniteSet(TriggerItems)
    /\ \A i \in TriggerItems : ChannelsOf(i) \subseteq TriggerChannels /\ ChannelsOf(i) # {}

VARIABLES
    trigger,        \* [Triggers -> what the handler is doing, its item and its counts]
    answered,       \* [Triggers -> the items its data source answered with]
    todoItems,      \* [Triggers -> items it has not come to]
    acceptedOn,     \* [Triggers -> [TriggerItems -> channels in notifications.expected_channels]]
    jobsOf,         \* [Triggers -> [TriggerItems -> channels with a job]]
    triggerLogs,    \* the rows it added to schedule_execution_logs
    triggerFaults   \* faults so far

triggerVars == <<trigger, answered, todoItems, acceptedOn, jobsOf, triggerLogs, triggerFaults>>

NoItem == "none"
TriggerAt(r, pc) == trigger' = [trigger EXCEPT ![r].pc = pc]

TriggerInit ==
    /\ trigger = [r \in Triggers |-> [pc |-> "idle", item |-> NoItem, success |-> 0, fail |-> 0]]
    /\ answered = [r \in Triggers |-> {}]
    /\ todoItems = [r \in Triggers |-> {}]
    /\ acceptedOn = [r \in Triggers |-> [i \in TriggerItems |-> {}]]
    /\ jobsOf = [r \in Triggers |-> [i \in TriggerItems |-> {}]]
    /\ triggerLogs = {} /\ triggerFaults = 0

TriggerFault == triggerFaults < MaxTriggerFaults /\ triggerFaults' = triggerFaults + 1
NoTriggerFault == UNCHANGED triggerFaults

-----------------------------------------------------------------------------

\* callDataSource: eight seconds, one attempt.
AskDataSource(r) ==
    /\ trigger[r].pc = "idle" /\ TriggerAt(r, "items")
    /\ \E items \in SUBSET TriggerItems :
        /\ answered' = [answered EXCEPT ![r] = items]
        /\ todoItems' = [todoItems EXCEPT ![r] = items]
    /\ NoTriggerFault /\ UNCHANGED <<acceptedOn, jobsOf, triggerLogs>>

DataSourceFails(r) ==
    /\ trigger[r].pc = "idle" /\ TriggerFault /\ TriggerAt(r, "done")
    /\ triggerLogs' = triggerLogs \cup {[by |-> r, status |-> "failed", total |-> 0, success |-> 0, fail |-> 0]}
    /\ UNCHANGED <<answered, todoItems, acceptedOn, jobsOf>>

ItemSucceeds(r) ==
    trigger' = [trigger EXCEPT ![r].pc = "items", ![r].item = NoItem, ![r].success = @ + 1]

\* The catch of the loop and its continues: the item is counted and left.
ItemFails(r) ==
    trigger' = [trigger EXCEPT ![r].pc = "items", ![r].item = NoItem, ![r].fail = @ + 1]

TakeItem(r, i) ==
    /\ trigger[r].pc = "items" /\ i \in todoItems[r]
    /\ todoItems' = [todoItems EXCEPT ![r] = @ \ {i}]
    /\ IF i.valid THEN trigger' = [trigger EXCEPT ![r].pc = "reserve", ![r].item = i]
       ELSE ItemFails(r)
    /\ NoTriggerFault /\ UNCHANGED <<answered, acceptedOn, jobsOf, triggerLogs>>

Accept(r, channels) ==
    /\ TriggerAt(r, "insert")
    /\ acceptedOn' = [acceptedOn EXCEPT ![r][trigger[r].item] = channels]

\* reserveForChannels.  A reservation refers to a notification that is stored only
\* afterwards: as soon as one is granted, the foreign key refuses it, all of them
\* are rolled back and the item goes on with every channel, the exhausted ones too.
ReserveItem(r) ==
    LET i == trigger[r].item
        Left(what) == {c \in ChannelsOf(i) : i.quota[c] = what}
    IN  /\ trigger[r].pc = "reserve"
        /\ IF ~i.owned \/ Left("free") # {} THEN Accept(r, ChannelsOf(i))
           ELSE IF Left("unlimited") # {} THEN Accept(r, Left("unlimited"))
           ELSE ItemFails(r) /\ UNCHANGED acceptedOn
        /\ NoTriggerFault /\ UNCHANGED <<answered, todoItems, jobsOf, triggerLogs>>

ReserveThrows(r) ==
    /\ trigger[r].pc = "reserve" /\ trigger[r].item.owned /\ TriggerFault
    /\ Accept(r, ChannelsOf(trigger[r].item))
    /\ UNCHANGED <<answered, todoItems, jobsOf, triggerLogs>>

InsertItem(r) ==
    /\ trigger[r].pc = "insert"
    /\ \/ TriggerAt(r, "enqueue") /\ NoTriggerFault
       \/ ItemFails(r) /\ TriggerFault
    /\ UNCHANGED <<answered, todoItems, acceptedOn, jobsOf, triggerLogs>>

\* enqueueNotification: one queue after the other.  An error leaves those before it
\* in their queues, and with a lost answer its own; there is no reservation the
\* release that follows could find.
EnqueueItem(r, c) ==
    LET i == trigger[r].item
        now == jobsOf[r][i] \cup {c}
    IN  /\ trigger[r].pc = "enqueue" /\ c \in acceptedOn[r][i] \ jobsOf[r][i]
        /\ jobsOf' = [jobsOf EXCEPT ![r][i] = now]
        /\ IF now = acceptedOn[r][i]
           THEN ItemSucceeds(r) ELSE UNCHANGED trigger
        /\ NoTriggerFault /\ UNCHANGED <<answered, todoItems, acceptedOn, triggerLogs>>

EnqueueThrows(r, c) ==
    LET i == trigger[r].item
    IN  /\ trigger[r].pc = "enqueue" /\ c \in acceptedOn[r][i] \ jobsOf[r][i] /\ TriggerFault
        /\ \/ UNCHANGED jobsOf
           \/ jobsOf' = [jobsOf EXCEPT ![r][i] = @ \cup {c}]
        /\ ItemFails(r)
        /\ UNCHANGED <<answered, todoItems, acceptedOn, triggerLogs>>

LogStatus(t) ==
    IF t.fail = 0 THEN "success" ELSE IF t.success = 0 THEN "failed" ELSE "partial"

LogTrigger(r) ==
    /\ trigger[r].pc = "items" /\ todoItems[r] = {}
    /\ TriggerAt(r, "done")
    /\ \/ /\ triggerLogs' = triggerLogs \cup
                {[by |-> r, status |-> LogStatus(trigger[r]), total |-> Cardinality(answered[r]),
                  success |-> trigger[r].success, fail |-> trigger[r].fail]}
          /\ NoTriggerFault
       \/ TriggerFault /\ UNCHANGED triggerLogs
    /\ UNCHANGED <<answered, todoItems, acceptedOn, jobsOf>>

\* The process dies; what it queued goes out, and no log tells of it.
TriggerDies(r) ==
    /\ trigger[r].pc \notin {"idle", "done"} /\ TriggerFault /\ TriggerAt(r, "done")
    /\ UNCHANGED <<answered, todoItems, acceptedOn, jobsOf, triggerLogs>>

TriggerNext ==
    \E r \in Triggers :
        \/ AskDataSource(r) \/ DataSourceFails(r)
        \/ \E i \in TriggerItems : TakeItem(r, i)
        \/ ReserveItem(r) \/ ReserveThrows(r) \/ InsertItem(r)
        \/ \E c \in TriggerChannels : EnqueueItem(r, c) \/ EnqueueThrows(r, c)
        \/ LogTrigger(r) \/ TriggerDies(r)

TriggerSpec == TriggerInit /\ [][TriggerNext]_triggerVars

-----------------------------------------------------------------------------

TriggerTypeOK ==
    /\ \A r \in Triggers : /\ trigger[r].pc \in {"idle", "items", "reserve", "insert", "enqueue", "done"}
                           /\ trigger[r].item \in TriggerItems \cup {NoItem}
    /\ {answered, todoItems} \subseteq [Triggers -> SUBSET TriggerItems]
    /\ {acceptedOn, jobsOf} \subseteq [Triggers -> [TriggerItems -> SUBSET TriggerChannels]]
    /\ triggerFaults \in 0..MaxTriggerFaults

Complete(r) == {i \in TriggerItems : acceptedOn[r][i] # {} /\ jobsOf[r][i] = acceptedOn[r][i]}
Unsent(r) == {i \in answered[r] : jobsOf[r][i] = {}}

\* The log of a run accounts for every item the data source gave: those it counts
\* as sent have a job on each channel that was accepted, those without any job it
\* counts as failed, and an item whose enqueueing broke off half-way counts as
\* failed although some of its jobs go out.
LogTellsWhatWasSent ==
    \A l \in triggerLogs :
        l.total > 0 =>
            /\ l.success + l.fail = l.total /\ l.total = Cardinality(answered[l.by])
            /\ l.success <= Cardinality(Complete(l.by))
            /\ Cardinality(Unsent(l.by)) <= l.fail

\* Contradicted: api/routes/schedules.js:433 "Enforce quota for schedule-triggered
\* notifications", yet an exhausted channel is sent when another one is free.
ExhaustedChannelsAreNotSent ==
    \A r \in Triggers, i \in TriggerItems :
        i.valid /\ i.owned => \A c \in jobsOf[r][i] : i.quota[c] # "exhausted"
=============================================================================
