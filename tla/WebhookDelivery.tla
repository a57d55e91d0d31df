--------------------------- MODULE WebhookDelivery ---------------------------
(***************************************************************************)
(* src/src/workers/webhook-delivery.worker.js with the routes of           *)
(* src/src/api/routes/webhook-config.js, over the tables app_webhooks and  *)
(* webhook_deliveries of migrations 018 and 020.  Every process that runs  *)
(* workers polls the table: it leases a batch of due rows for an hour in    *)
(* one transaction, posts them one by one to the app's endpoint and writes  *)
(* each result with an UPDATE of its own.  One app; its events differ in   *)
(* (event_type, notification_id).  The payload, the secret and the url are  *)
(* left out, and next_attempt_at is kept as what delays the row.            *)
(***************************************************************************)
EXTENDS Integers, FiniteSets

CONSTANTS
    Workers,        \* processes that run the delivery worker
    Events,         \* what identifies an event: its type and notification
    Rows,           \* bound: ids of webhook_deliveries rows
    MAX_ATTEMPTS,   \* BACKOFF_SECONDS.length
    BATCH_SIZE,     \* rows claimed by one tick
    MaxRetries,     \* bound: requests to retry a delivery
    MaxMishaps      \* bound: crashes, stalls and failures of the database

ASSUME WebhookAssumption ==
    /\ IsFiniteSet(Workers)
    /\ MAX_ATTEMPTS \in Nat \ {0}
    /\ BATCH_SIZE \in Nat \ {0}
    /\ MaxRetries \in Nat
    /\ MaxMishaps \in Nat

VARIABLES
    webhook,    \* app_webhooks: "absent", "off" (inactive or not subscribed) or "on"
    asking,     \* events whose emitter found the webhook on and is about to insert
    event,      \* webhook_deliveries by row id: the event, "none" without a row,
    status,     \* the status,
    attempts,   \* the attempts
    wait,       \* and next_attempt_at
    holding,    \* newAttempts of a row in a worker's batch, 0 outside the batch
    answer,     \* what the endpoint answered to the row a worker is busy with
    acked,      \* rows for which some request was answered 2xx
    reissued,   \* how often a row was made claimable while a worker held it
    retries,    \* accepted retry requests so far
    mishaps     \* mishaps so far

workVars == <<holding, answer, acked>>
deliveryTable == <<event, status, attempts, wait>>
webhookVars == <<webhook, asking, deliveryTable, workVars, reissued, retries, mishaps>>

Statuses == {"pending", "delivered", "failed"}
Waits == {"due",    \* next_attempt_at has passed
          "later",  \* a backoff of BACKOFF_SECONDS
          "leased"} \* the hour given by a claim

Recorded(r) == status[r] # "none"
Live(r) == status[r] \in {"pending", "delivered"}
Holders(r) == {w \in Workers : holding[w][r] > 0}

Idle(w) == \A r \in Rows : holding[w][r] = 0

Fault == mishaps < MaxMishaps /\ mishaps' = mishaps + 1
NoFault == UNCHANGED mishaps

WebhookInit ==
    /\ webhook = "absent"
    /\ asking = {}
    /\ event = [r \in Rows |-> "none"]
    /\ status = [r \in Rows |-> "none"]
    /\ attempts = [r \in Rows |-> 0]
    /\ wait = [r \in Rows |-> "due"]
    /\ holding = [w \in Workers |-> [r \in Rows |-> 0]]
    /\ answer = [w \in Workers |-> [r \in Rows |-> "none"]]
    /\ acked = {}
    /\ reissued = [r \in Rows |-> 0]
    /\ retries = 0
    /\ mishaps = 0

-----------------------------------------------------------------------------
(* The routes of /webhooks/config *)

SetWebhook(state) ==
    /\ webhook' = state
    /\ UNCHANGED <<asking, deliveryTable, workVars, reissued, retries, mishaps>>

PostConfig == \E state \in {"off", "on"} : SetWebhook(state)
PatchConfig == webhook # "absent" /\ \E state \in {"off", "on"} : SetWebhook(state)
DeleteConfig == SetWebhook("absent")

-----------------------------------------------------------------------------
(* enqueueWebhookEvent: look for a subscribed webhook, then insert *)

CheckSubscription(e) ==
    /\ webhook = "on"
    /\ asking' = asking \cup {e}
    /\ UNCHANGED <<webhook, deliveryTable, workVars, reissued, retries, mishaps>>

\* Mutant: only pending rows count as duplicates.
DuplicatePending(e) == \E r \in Rows : status[r] = "pending" /\ event[r] = e

\* The partial unique index: a live row of the same event.
Duplicate(e) == \E r \in Rows : Live(r) /\ event[r] = e

\* INSERT .. ON CONFLICT DO NOTHING
InsertEvent(e) ==
    /\ e \in asking
    /\ asking' = asking \ {e}
    /\ IF Duplicate(e)
       THEN UNCHANGED deliveryTable
       ELSE \E r \in Rows :
              /\ ~Recorded(r)
              /\ event' = [event EXCEPT ![r] = e]
              /\ status' = [status EXCEPT ![r] = "pending"]
              /\ UNCHANGED <<attempts, wait>>
    /\ UNCHANGED <<webhook, workVars, reissued, retries>>
    /\ NoFault

\* The INSERT throws or the process stops before it: the channel worker only
\* logs that, the event is gone.
DropEvent(e) ==
    /\ Fault
    /\ e \in asking
    /\ asking' = asking \ {e}
    /\ UNCHANGED <<webhook, deliveryTable, workVars, reissued, retries>>

-----------------------------------------------------------------------------
(* The tick of a worker *)

\* Mutant: a row that has used up its attempts is not claimed.
ClaimableWithinMax(r) ==
    /\ status[r] = "pending"
    /\ wait[r] = "due"
    /\ attempts[r] < MAX_ATTEMPTS
    /\ webhook = "on"

Claimable(r) ==
    /\ status[r] = "pending"
    /\ wait[r] = "due"
    /\ webhook = "on"

\* Mutant: the claim leaves next_attempt_at alone.
LeaseNone(batch) == UNCHANGED wait

Lease(batch) == wait' = [r \in Rows |-> IF r \in batch THEN "leased" ELSE wait[r]]

\* The claim transaction.  A worker still busy with a batch skips the tick.
Claim(w) ==
    /\ Idle(w)
    /\ \E batch \in SUBSET {r \in Rows : Claimable(r)} :
         /\ batch # {}
         /\ \/ Cardinality(batch) = BATCH_SIZE
            \/ Cardinality(batch) < BATCH_SIZE /\ \A r \in Rows \ batch : ~Claimable(r)
         /\ attempts' = [r \in Rows |-> IF r \in batch THEN attempts[r] + 1 ELSE attempts[r]]
         /\ Lease(batch)
         /\ holding' = [holding EXCEPT ![w] =
                          [r \in Rows |-> IF r \in batch THEN attempts[r] + 1 ELSE 0]]
    /\ UNCHANGED <<webhook, asking, event, status, answer, acked, reissued, retries>>
    /\ NoFault

\* deliverOne: anything but a 2xx within the timeout is an error.
Post(w, r) ==
    /\ holding[w][r] > 0
    /\ \A o \in Rows : answer[w][o] = "none"
    /\ \/ answer' = [answer EXCEPT ![w][r] = "ok"] /\ acked' = acked \cup {r}
       \/ answer' = [answer EXCEPT ![w][r] = "error"] /\ UNCHANGED acked
    /\ UNCHANGED <<webhook, asking, deliveryTable, holding, reissued, retries>>
    /\ NoFault

\* The row leaves the batch.
Leave(w, r) ==
    /\ holding' = [holding EXCEPT ![w][r] = 0]
    /\ answer' = [answer EXCEPT ![w][r] = "none"]
    /\ UNCHANGED <<webhook, asking, acked, reissued, retries>>

\* The unique index refuses a second live row of an event.
MayLive(r) == \A o \in Rows \ {r} : Live(o) => event[o] # event[r]

IsOk(w, r) == answer[w][r] = "ok"

\* UPDATE .. SET status = 'delivered' WHERE id = $1.  Refused by the index, it
\* throws, and so does the UPDATE of the catch block, which ignores that.
RecordDelivered(w, r) ==
    /\ answer[w][r] # "none"
    /\ IsOk(w, r)
    /\ status' = IF MayLive(r) THEN [status EXCEPT ![r] = "delivered"] ELSE status
    /\ UNCHANGED <<event, attempts, wait>>
    /\ Leave(w, r)
    /\ NoFault

PutBack(r) ==
    /\ IF MayLive(r)
       THEN /\ status' = [status EXCEPT ![r] = "pending"]
            /\ wait' = [wait EXCEPT ![r] = "later"]
       ELSE UNCHANGED <<status, wait>>
    /\ UNCHANGED <<event, attempts>>

IsLast(w, r) == holding[w][r] >= MAX_ATTEMPTS

RecordFailed(w, r) ==
    /\ answer[w][r] # "none"
    /\ ~IsOk(w, r)
    /\ IF IsLast(w, r)
       THEN /\ status' = [status EXCEPT ![r] = "failed"]
            /\ wait' = [wait EXCEPT ![r] = "due"]
            /\ UNCHANGED <<event, attempts>>
       ELSE PutBack(r)
    /\ Leave(w, r)
    /\ NoFault

\* The UPDATE throws.  The catch block puts the row back, without a look at
\* MAX_ATTEMPTS, or fails as well.
RecordThrows(w, r) ==
    /\ Fault
    /\ answer[w][r] # "none"
    /\ PutBack(r) \/ UNCHANGED deliveryTable
    /\ Leave(w, r)

\* The process stops, before or after a result was written: the rest of its
\* batch waits for the lease.  So it is when the answer to COMMIT is lost.
WorkerCrashes(w) ==
    /\ Fault
    /\ ~Idle(w)
    /\ holding' = [holding EXCEPT ![w] = [r \in Rows |-> 0]]
    /\ answer' = [answer EXCEPT ![w] = [r \in Rows |-> "none"]]
    /\ UNCHANGED <<webhook, asking, deliveryTable, acked, reissued, retries>>

-----------------------------------------------------------------------------
(* Time and the retry route *)

Elapses(r, what) ==
    /\ status[r] = "pending"
    /\ wait[r] = what
    /\ wait' = [wait EXCEPT ![r] = "due"]
    /\ UNCHANGED <<webhook, asking, event, status, attempts, workVars, retries>>

BackoffElapses(r) ==
    /\ Elapses(r, "later")
    /\ UNCHANGED reissued
    /\ NoFault

\* A batch takes a worker 20 * 15 seconds at most: an hour after a claim it is
\* no longer busy, unless it was stopped in between.
LeaseExpires(r) ==
    /\ Elapses(r, "leased")
    /\ Holders(r) = {}
    /\ UNCHANGED reissued
    /\ NoFault

LeaseOutlived(r) ==
    /\ Fault
    /\ Elapses(r, "leased")
    /\ Holders(r) # {}
    /\ reissued' = [reissued EXCEPT ![r] = @ + 1]

\* POST /webhooks/deliveries/:id/retry, whatever the row's status and whether
\* or not a worker is busy with it.  Refused by the index it changes nothing.
Retry(r) ==
    /\ retries < MaxRetries
    /\ retries' = retries + 1
    /\ Recorded(r)
    /\ MayLive(r)
    /\ status' = [status EXCEPT ![r] = "pending"]
    /\ attempts' = [attempts EXCEPT ![r] = 0]
    /\ wait' = [wait EXCEPT ![r] = "due"]
    /\ reissued' = IF Holders(r) = {} THEN reissued ELSE [reissued EXCEPT ![r] = @ + 1]
    /\ UNCHANGED <<webhook, asking, event, workVars>>
    /\ NoFault

-----------------------------------------------------------------------------

WorkerStep(w) ==
    \/ Claim(w)
    \/ \E r \in Rows : Post(w, r) \/ RecordDelivered(w, r) \/ RecordFailed(w, r)

TimePasses(r) == BackoffElapses(r) \/ LeaseExpires(r)

WebhookNext ==
    \/ PostConfig
    \/ PatchConfig
    \/ DeleteConfig
    \/ \E e \in Events : CheckSubscription(e) \/ InsertEvent(e) \/ DropEvent(e)
    \/ \E w \in Workers :
         \/ WorkerStep(w)
         \/ WorkerCrashes(w)
         \/ \E r \in Rows : RecordThrows(w, r)
    \/ \E r \in Rows : TimePasses(r) \/ LeaseOutlived(r) \/ Retry(r)

WebhookSpec == WebhookInit /\ [][WebhookNext]_webhookVars

\* A worker ticks every 10 seconds and goes on with its batch; waits end.
\* Nobody must configure a webhook, emit an event, ask for a retry or fail.
FairWebhookSpec ==
    /\ WebhookSpec
    /\ \A w \in Workers : WF_webhookVars(WorkerStep(w))
    /\ \A r \in Rows : WF_webhookVars(TimePasses(r))

-----------------------------------------------------------------------------
(* Properties *)

\* Every variable has its type, a worker is busy with one row of its batch at
\* a time.
WebhookTypeOK ==
    /\ webhook \in {"absent", "off", "on"}
    /\ asking \subseteq Events
    /\ event \in [Rows -> Events \cup {"none"}]
    /\ status \in [Rows -> Statuses \cup {"none"}]
    /\ attempts \in [Rows -> Nat]
    /\ wait \in [Rows -> Waits]
    /\ holding \in [Workers -> [Rows -> Nat]]
    /\ answer \in [Workers -> [Rows -> {"none", "ok", "error"}]]
    /\ \A w \in Workers, r \in Rows : answer[w][r] # "none" =>
         holding[w][r] > 0 /\ \A o \in Rows : answer[w][o] # "none" => o = r
    /\ acked \subseteq Rows
    /\ reissued \in [Rows -> Nat]
    /\ retries \in 0..MaxRetries
    /\ mishaps \in 0..MaxMishaps

\* One event has at most one row that is pending or delivered, with emitters,
\* workers and retries writing at the same time (index of migration 020).
OneLiveRowPerEvent ==
    \A r, o \in Rows : Live(r) /\ Live(o) /\ event[r] = event[o] => r = o

\* A row is marked delivered only if the endpoint answered 2xx for it, across
\* crashes, retries and late workers.
DeliveredMeansAcked ==
    \A r \in Rows : status[r] = "delivered" => r \in acked

\* Two workers are busy with one row only if a retry or an outlived lease gave
\* it out again: SKIP LOCKED and the lease keep the pollers of all processes
\* apart, and so many are busy with it at most.
SendersAreReissues ==
    \A r \in Rows : Cardinality(Holders(r)) <= 1 + reissued[r]

\* A row is given up after MAX_ATTEMPTS claims, unless it was given out to
\* two workers at a time.
GivenUpAfterMaxAttempts ==
    \A r \in Rows :
      status[r] = "failed" /\ reissued[r] = 0 => attempts[r] >= MAX_ATTEMPTS

\* A delivered row stays delivered, unless a request retries it or it was given
\* out to two workers at a time (the result written last wins).
DeliveredUntilReissued ==
    [][\A r \in Rows :
         status[r] = "delivered" /\ reissued[r] = 0 /\ retries' = retries
           => status'[r] = "delivered"]_webhookVars

\* While the webhook stays on, every pending row ends delivered or failed,
\* whatever crashed: no row is lost by a worker that died with it.
EveryDeliverySettles ==
    <>[](webhook = "on") =>
      \A r \in Rows : status[r] = "pending" ~> status[r] \in {"delivered", "failed"}

\* The header of the worker says "After max attempts: status = 'failed', no
\* more retries".  A crash or a failed UPDATE in the last attempt leaves the
\* row pending, and neither the claim nor the catch block looks at attempts.
NoAttemptAfterMax == \A r \in Rows : attempts[r] <= MAX_ATTEMPTS
=============================================================================
