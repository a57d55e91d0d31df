----------------------- MODULE WebhookDelivery_proofs -----------------------
(* What the webhook worker guarantees for every number of processes, events, *)
(* rows and attempts, and every bound on retries and mishaps.                 *)
EXTENDS WebhookDelivery, FiniteSetTheorems, TLAPS

\* The actions of Next, without the nesting.
LEMMA WebhookActions ==
    ASSUME WebhookNext
    PROVE  \/ \E state \in {"absent", "off", "on"} : SetWebhook(state) /\ NoFault
           \/ \E e \in Events : CheckSubscription(e) \/ InsertEvent(e) \/ DropEvent(e)
           \/ \E w \in Workers : Claim(w) \/ WorkerCrashes(w)
           \/ \E w \in Workers, r \in Rows :
                \/ Post(w, r)
                \/ RecordDelivered(w, r)
                \/ RecordFailed(w, r)
                \/ RecordThrows(w, r)
           \/ \E r \in Rows :
                BackoffElapses(r) \/ LeaseExpires(r) \/ LeaseOutlived(r) \/ Retry(r)
BY DEF WebhookNext, PostConfig, PatchConfig, DeleteConfig, SetWebhook, NoFault, WorkerStep,
       TimePasses

-----------------------------------------------------------------------------
(* Type correctness *)

LEMMA WebhookTypeInit == WebhookInit => WebhookTypeOK
BY WebhookAssumption DEF WebhookInit, WebhookTypeOK, Waits

\* A row that leaves its batch takes its answer with it.
LEMMA LeaveType ==
    ASSUME WebhookTypeOK, NEW w \in Workers, NEW r \in Rows, Leave(w, r), answer[w][r] # "none"
    PROVE  /\ webhook' \in {"absent", "off", "on"}
           /\ asking' \subseteq Events
           /\ holding' \in [Workers -> [Rows -> Nat]]
           /\ answer' \in [Workers -> [Rows -> {"none", "ok", "error"}]]
           /\ \A v \in Workers, o \in Rows : answer'[v][o] # "none" =>
                holding'[v][o] > 0 /\ \A p \in Rows : answer'[v][p] # "none" => p = o
           /\ acked' \subseteq Rows
           /\ reissued' \in [Rows -> Nat]
           /\ retries' \in 0..MaxRetries
BY DEF Leave, WebhookTypeOK

LEMMA WebhookTypeStep == WebhookTypeOK /\ [WebhookNext]_webhookVars => WebhookTypeOK'
<1> SUFFICES ASSUME WebhookTypeOK, [WebhookNext]_webhookVars
             PROVE  WebhookTypeOK'
  OBVIOUS
<1> USE WebhookAssumption
<1>1. ASSUME NEW state \in {"absent", "off", "on"}, SetWebhook(state), NoFault
      PROVE  WebhookTypeOK'
  BY <1>1 DEF SetWebhook, NoFault, WebhookTypeOK, workVars, deliveryTable
<1>2. ASSUME NEW e \in Events, CheckSubscription(e) \/ DropEvent(e)
      PROVE  WebhookTypeOK'
  <2>1. mishaps' \in 0..MaxMishaps
    BY <1>2 DEF CheckSubscription, DropEvent, Fault, WebhookTypeOK
  <2>2. QED
    BY <1>2, <2>1 DEF CheckSubscription, DropEvent, WebhookTypeOK, workVars, deliveryTable
<1>3. ASSUME NEW e \in Events, InsertEvent(e)
      PROVE  WebhookTypeOK'
  BY <1>3 DEF InsertEvent, NoFault, WebhookTypeOK, workVars, deliveryTable, Statuses, Waits
<1>4. ASSUME NEW w \in Workers, Claim(w)
      PROVE  WebhookTypeOK'
  <2>1. PICK batch \in SUBSET {r \in Rows : Claimable(r)} :
          /\ attempts' = [r \in Rows |-> IF r \in batch THEN attempts[r] + 1 ELSE attempts[r]]
          /\ Lease(batch)
          /\ holding' = [holding EXCEPT ![w] =
                           [r \in Rows |-> IF r \in batch THEN attempts[r] + 1 ELSE 0]]
    BY <1>4 DEF Claim
  <2>2. attempts' \in [Rows -> Nat] /\ wait' \in [Rows -> Waits]
    BY <2>1 DEF WebhookTypeOK, Lease, Waits
  <2>3. holding' \in [Workers -> [Rows -> Nat]]
    BY <2>1 DEF WebhookTypeOK
  <2>4. \A r \in Rows : answer[w][r] = "none"
    BY <1>4 DEF Claim, Idle, WebhookTypeOK
  <2>5. \A o \in Workers \ {w} : holding'[o] = holding[o]
    BY <2>1 DEF WebhookTypeOK
  <2>6. UNCHANGED <<webhook, asking, event, status, answer, acked, reissued, retries, mishaps>>
    BY <1>4 DEF Claim, NoFault
  <2>7. QED
    BY <2>2, <2>3, <2>4, <2>5, <2>6 DEF WebhookTypeOK
<1>5. ASSUME NEW w \in Workers, WorkerCrashes(w)
      PROVE  WebhookTypeOK'
  BY <1>5 DEF WorkerCrashes, Fault, WebhookTypeOK, deliveryTable
<1>6. ASSUME NEW w \in Workers, NEW r \in Rows, Post(w, r)
      PROVE  WebhookTypeOK'
  <2>1. PICK a \in {"ok", "error"} : answer' = [answer EXCEPT ![w][r] = a]
    BY <1>6 DEF Post
  <2>2. answer' \in [Workers -> [Rows -> {"none", "ok", "error"}]]
    BY <2>1 DEF WebhookTypeOK
  <2>3. /\ \A o \in Rows \ {r} : answer'[w][o] = "none"
        /\ \A v \in Workers \ {w} : answer'[v] = answer[v]
    BY <1>6, <2>1 DEF Post, WebhookTypeOK
  <2>4. \A v \in Workers, o \in Rows : answer'[v][o] # "none" =>
          holding[v][o] > 0 /\ \A p \in Rows : answer'[v][p] # "none" => p = o
    BY <1>6, <2>3 DEF Post, WebhookTypeOK
  <2>5. acked' \subseteq Rows
    BY <1>6 DEF Post, WebhookTypeOK
  <2>6. QED
    BY <1>6, <2>2, <2>4, <2>5 DEF Post, NoFault, WebhookTypeOK, deliveryTable
<1>7. ASSUME NEW w \in Workers, NEW r \in Rows,
             RecordDelivered(w, r) \/ RecordFailed(w, r) \/ RecordThrows(w, r)
      PROVE  WebhookTypeOK'
  <2>1. UNCHANGED <<event, attempts>>
    BY <1>7 DEF RecordDelivered, RecordFailed, RecordThrows, PutBack, deliveryTable
  <2>2. status' \in [Rows -> Statuses \cup {"none"}] /\ wait' \in [Rows -> Waits]
    <3>1. \/ UNCHANGED status
          \/ \E s \in Statuses : status' = [status EXCEPT ![r] = s]
      BY <1>7 DEF RecordDelivered, RecordFailed, RecordThrows, PutBack, deliveryTable, Statuses
    <3>2. \/ UNCHANGED wait
          \/ \E t \in Waits : wait' = [wait EXCEPT ![r] = t]
      BY <1>7 DEF RecordDelivered, RecordFailed, RecordThrows, PutBack, deliveryTable, Waits
    <3>3. QED
      <4>1. status' \in [Rows -> Statuses \cup {"none"}]
        BY <3>1 DEF WebhookTypeOK
      <4>2. wait' \in [Rows -> Waits]
        BY <3>2 DEF WebhookTypeOK
      <4>3. QED
        BY <4>1, <4>2
  <2>3. mishaps' \in 0..MaxMishaps
    BY <1>7 DEF RecordDelivered, RecordFailed, RecordThrows, Fault, NoFault, WebhookTypeOK
  <2>4. QED
    BY <1>7, <2>1, <2>2, <2>3, LeaveType DEF RecordDelivered, RecordFailed, RecordThrows,
                                             WebhookTypeOK
<1>8. ASSUME NEW r \in Rows,
             BackoffElapses(r) \/ LeaseExpires(r) \/ LeaseOutlived(r)
      PROVE  WebhookTypeOK'
  BY <1>8 DEF BackoffElapses, LeaseExpires, LeaseOutlived, Elapses, Fault, NoFault,
              WebhookTypeOK, workVars, Waits
<1>9. ASSUME NEW r \in Rows, Retry(r)
      PROVE  WebhookTypeOK'
  BY <1>9 DEF Retry, NoFault, WebhookTypeOK, workVars, Statuses, Waits
<1>10. CASE UNCHANGED webhookVars
  BY <1>10 DEF webhookVars, workVars, deliveryTable, WebhookTypeOK
<1>11. QED
  BY <1>1, <1>2, <1>3, <1>4, <1>5, <1>6, <1>7, <1>8, <1>9, <1>10, WebhookActions

\* Every variable keeps its type, and a worker that awaits the answer of one
\* row is not busy with another.
THEOREM WebhookTypeCorrect == WebhookSpec => []WebhookTypeOK
BY WebhookTypeInit, WebhookTypeStep, PTL DEF WebhookSpec

-----------------------------------------------------------------------------
(* One live row per event: the index decides every UPDATE that makes a row live *)

LEMMA OneLiveStep ==
    WebhookTypeOK /\ OneLiveRowPerEvent /\ [WebhookNext]_webhookVars => OneLiveRowPerEvent'
<1> SUFFICES ASSUME WebhookTypeOK, OneLiveRowPerEvent, [WebhookNext]_webhookVars
             PROVE  OneLiveRowPerEvent'
  OBVIOUS
<1> USE DEF OneLiveRowPerEvent, Live
<1>1. CASE UNCHANGED <<event, status>>
  BY <1>1
<1>2. ASSUME NEW r \in Rows, NEW s \in {"pending", "delivered", "failed"},
             MayLive(r) \/ s = "failed",
             status' = [status EXCEPT ![r] = s], UNCHANGED event
      PROVE  OneLiveRowPerEvent'
  BY <1>2 DEF MayLive, WebhookTypeOK
<1>3. ASSUME NEW e \in Events, InsertEvent(e)
      PROVE  OneLiveRowPerEvent'
  <2>1. CASE Duplicate(e)
    BY <1>1, <1>3, <2>1 DEF InsertEvent, deliveryTable
  <2>2. CASE ~Duplicate(e)
    BY <1>3, <2>2 DEF InsertEvent, Duplicate, WebhookTypeOK
  <2>3. QED
    BY <2>1, <2>2
<1>4. ASSUME NEW w \in Workers, NEW r \in Rows,
             RecordDelivered(w, r) \/ RecordFailed(w, r) \/ RecordThrows(w, r)
      PROVE  OneLiveRowPerEvent'
  BY <1>1, <1>2, <1>4 DEF RecordDelivered, RecordFailed, RecordThrows, PutBack, deliveryTable
<1>5. ASSUME NEW r \in Rows, Retry(r)
      PROVE  OneLiveRowPerEvent'
  BY <1>2, <1>5 DEF Retry
<1>6. ASSUME NEW r \in Rows, BackoffElapses(r) \/ LeaseExpires(r) \/ LeaseOutlived(r)
      PROVE  OneLiveRowPerEvent'
  BY <1>1, <1>6 DEF BackoffElapses, LeaseExpires, LeaseOutlived, Elapses
<1>7. ASSUME NEW w \in Workers, Claim(w) \/ WorkerCrashes(w)
      PROVE  OneLiveRowPerEvent'
  BY <1>1, <1>7 DEF Claim, WorkerCrashes, deliveryTable
<1>8. ASSUME NEW e \in Events, CheckSubscription(e) \/ DropEvent(e)
      PROVE  OneLiveRowPerEvent'
  BY <1>1, <1>8 DEF CheckSubscription, DropEvent, deliveryTable
<1>9. ASSUME NEW state, SetWebhook(state)
      PROVE  OneLiveRowPerEvent'
  BY <1>1, <1>9 DEF SetWebhook, deliveryTable
<1>10. ASSUME NEW w \in Workers, NEW r \in Rows, Post(w, r)
       PROVE  OneLiveRowPerEvent'
  BY <1>1, <1>10 DEF Post, deliveryTable
<1>11. CASE UNCHANGED webhookVars
  BY <1>1, <1>11 DEF webhookVars, deliveryTable
<1>12. QED
  BY <1>3, <1>4, <1>5, <1>6, <1>7, <1>8, <1>9, <1>10, <1>11, WebhookActions

\* However emitters, late workers and retries interleave, the table holds at
\* most one pending or delivered row of an event.
THEOREM WebhookOneLiveRow == WebhookSpec => []OneLiveRowPerEvent
<1>1. WebhookInit => OneLiveRowPerEvent
  BY DEF WebhookInit, OneLiveRowPerEvent, Live
<1>2. QED
  BY <1>1, WebhookTypeInit, WebhookTypeStep, OneLiveStep, PTL DEF WebhookSpec

-----------------------------------------------------------------------------
(* Delivered only if acknowledged *)

\* A worker that saw a 2xx has it counted.
OkMeansAcked == \A w \in Workers, r \in Rows : answer[w][r] = "ok" => r \in acked

AckedInv == WebhookTypeOK /\ OkMeansAcked /\ DeliveredMeansAcked

LEMMA AckedStep == AckedInv /\ [WebhookNext]_webhookVars => AckedInv'
<1> SUFFICES ASSUME AckedInv, [WebhookNext]_webhookVars
             PROVE  OkMeansAcked' /\ DeliveredMeansAcked'
  BY WebhookTypeStep DEF AckedInv
<1> USE DEF AckedInv, OkMeansAcked, DeliveredMeansAcked
<1>1. CASE UNCHANGED <<status, answer, acked>>
  BY <1>1
<1>2. ASSUME NEW r \in Rows, NEW s \in {"pending", "failed"},
             status' = [status EXCEPT ![r] = s], UNCHANGED <<answer, acked>>
      PROVE  OkMeansAcked' /\ DeliveredMeansAcked'
  BY <1>2 DEF WebhookTypeOK
<1>3. ASSUME NEW w \in Workers, NEW r \in Rows,
             RecordDelivered(w, r) \/ RecordFailed(w, r) \/ RecordThrows(w, r)
      PROVE  OkMeansAcked' /\ DeliveredMeansAcked'
  <2>1. UNCHANGED acked /\ answer' = [answer EXCEPT ![w][r] = "none"]
    BY <1>3 DEF RecordDelivered, RecordFailed, RecordThrows, Leave
  <2>2. \/ UNCHANGED status
        \/ status' = [status EXCEPT ![r] = "delivered"] /\ answer[w][r] = "ok"
        \/ \E s \in {"pending", "failed"} : status' = [status EXCEPT ![r] = s]
    BY <1>3 DEF RecordDelivered, RecordFailed, RecordThrows, PutBack, deliveryTable, IsOk
  <2>3. OkMeansAcked'
    BY <2>1 DEF WebhookTypeOK
  <2>4. DeliveredMeansAcked'
    BY <2>1, <2>2 DEF WebhookTypeOK
  <2>5. QED
    BY <2>3, <2>4
<1>4. ASSUME NEW e \in Events, InsertEvent(e)
      PROVE  OkMeansAcked' /\ DeliveredMeansAcked'
  BY <1>1, <1>2, <1>4 DEF InsertEvent, deliveryTable, workVars
<1>5. ASSUME NEW r \in Rows, Retry(r)
      PROVE  OkMeansAcked' /\ DeliveredMeansAcked'
  BY <1>2, <1>5 DEF Retry, workVars
<1>6. ASSUME NEW r \in Rows, BackoffElapses(r) \/ LeaseExpires(r) \/ LeaseOutlived(r)
      PROVE  OkMeansAcked' /\ DeliveredMeansAcked'
  BY <1>1, <1>6 DEF BackoffElapses, LeaseExpires, LeaseOutlived, Elapses, workVars
<1>7. ASSUME NEW w \in Workers, Claim(w)
      PROVE  OkMeansAcked' /\ DeliveredMeansAcked'
  BY <1>1, <1>7 DEF Claim
<1>8. ASSUME NEW w \in Workers, WorkerCrashes(w)
      PROVE  OkMeansAcked' /\ DeliveredMeansAcked'
  BY <1>8 DEF WorkerCrashes, deliveryTable, WebhookTypeOK
<1>9. ASSUME NEW e \in Events, CheckSubscription(e) \/ DropEvent(e)
      PROVE  OkMeansAcked' /\ DeliveredMeansAcked'
  BY <1>1, <1>9 DEF CheckSubscription, DropEvent, deliveryTable, workVars
<1>10. ASSUME NEW state, SetWebhook(state)
       PROVE  OkMeansAcked' /\ DeliveredMeansAcked'
  BY <1>1, <1>10 DEF SetWebhook, deliveryTable, workVars
<1>11. ASSUME NEW w \in Workers, NEW r \in Rows, Post(w, r)
       PROVE  OkMeansAcked' /\ DeliveredMeansAcked'
  BY <1>11 DEF Post, deliveryTable, WebhookTypeOK
<1>12. CASE UNCHANGED webhookVars
  BY <1>1, <1>12 DEF webhookVars, deliveryTable, workVars
<1>13. QED
  BY <1>3, <1>4, <1>5, <1>6, <1>7, <1>8, <1>9, <1>10, <1>11, <1>12, WebhookActions

\* No crash, retry or late worker marks a row delivered that the endpoint never
\* acknowledged.
THEOREM WebhookDeliveredIsAcked == WebhookSpec => []DeliveredMeansAcked
<1>1. WebhookInit => AckedInv
  BY WebhookTypeInit DEF WebhookInit, AckedInv, OkMeansAcked, DeliveredMeansAcked
<1>2. AckedInv => DeliveredMeansAcked
  BY DEF AckedInv
<1>3. QED
  BY <1>1, <1>2, AckedStep, PTL DEF WebhookSpec

-----------------------------------------------------------------------------
(* Who is busy with a row.  Claiming adds one worker to the row, finishing    *)
(* takes one away; a row that can be claimed has no more workers on it than   *)
(* it was given out again while held.                                         *)

SendersInv ==
    \A r \in Rows :
      /\ Cardinality(Holders(r)) <= 1 + reissued[r]
      /\ \/ Cardinality(Holders(r)) <= reissued[r]
         \/ status[r] = "pending" /\ wait[r] = "leased"

\* A worker on a row never given out twice at a time read its latest attempts.
AttemptsInv ==
    \A r \in Rows : reissued[r] = 0 =>
      /\ \A w \in Workers : holding[w][r] <= attempts[r]
      /\ status[r] = "failed" => attempts[r] >= MAX_ATTEMPTS

ClaimInv == WebhookTypeOK /\ SendersInv /\ AttemptsInv

LEMMA HoldersCount ==
    ASSUME NEW r \in Rows
    PROVE  IsFiniteSet(Holders(r)) /\ Cardinality(Holders(r)) \in Nat
<1>1. Holders(r) \subseteq Workers
  BY DEF Holders
<1>2. QED
  BY <1>1, WebhookAssumption, FS_Subset, FS_CardinalityType

LEMMA NoHolders ==
    ASSUME WebhookTypeOK, NEW r \in Rows, Cardinality(Holders(r)) <= 0
    PROVE  Holders(r) = {} /\ \A w \in Workers : holding[w][r] = 0
<1>1. Holders(r) = {}
  BY HoldersCount, FS_EmptySet
<1>2. QED
  BY <1>1 DEF Holders, WebhookTypeOK

\* A step that leaves the batches alone.
LEMMA SameHolders ==
    ASSUME UNCHANGED holding, NEW r \in Rows
    PROVE  Holders(r)' = Holders(r)
BY DEF Holders

\* A worker is done with a row.
LEMMA LeaveHolders ==
    ASSUME WebhookTypeOK, NEW w \in Workers, NEW r \in Rows,
           Leave(w, r), answer[w][r] # "none"
    PROVE  /\ Cardinality(Holders(r)') = Cardinality(Holders(r)) - 1
           /\ \A o \in Rows \ {r} : Holders(o)' = Holders(o)
<1>1. w \in Holders(r)
  BY DEF Holders, WebhookTypeOK
<1>2. Holders(r)' = Holders(r) \ {w}
  BY DEF Holders, Leave, WebhookTypeOK
<1>3. Cardinality(Holders(r) \ {w}) = Cardinality(Holders(r)) - 1
  BY <1>1, HoldersCount, FS_RemoveElement
<1>4. ASSUME NEW o \in Rows \ {r}
      PROVE  Holders(o)' = Holders(o)
  BY DEF Holders, Leave, WebhookTypeOK
<1>5. QED
  BY <1>2, <1>3, <1>4

\* An idle worker takes a batch.
LEMMA ClaimHolders ==
    ASSUME WebhookTypeOK, NEW w \in Workers, Idle(w), NEW batch \in SUBSET Rows,
           holding' = [holding EXCEPT ![w] =
                         [r \in Rows |-> IF r \in batch THEN attempts[r] + 1 ELSE 0]]
    PROVE  /\ \A r \in batch : Cardinality(Holders(r)') = Cardinality(Holders(r)) + 1
           /\ \A r \in Rows \ batch : Holders(r)' = Holders(r)
<1>1. ASSUME NEW r \in batch
      PROVE  Cardinality(Holders(r)') = Cardinality(Holders(r)) + 1
  <2>1. w \notin Holders(r)
    BY DEF Holders, Idle, WebhookTypeOK
  <2>2. Holders(r)' = Holders(r) \cup {w}
    BY DEF Holders, WebhookTypeOK
  <2>3. QED
    BY <2>1, <2>2, HoldersCount, FS_AddElement
<1>2. ASSUME NEW r \in Rows \ batch
      PROVE  Holders(r)' = Holders(r)
  BY DEF Holders, Idle, WebhookTypeOK
<1>3. QED
  BY <1>1, <1>2

\* A worker dies.
LEMMA CrashHolders ==
    ASSUME WebhookTypeOK, NEW w \in Workers, WorkerCrashes(w), NEW r \in Rows
    PROVE  Cardinality(Holders(r)') \in Nat /\ Cardinality(Holders(r)') <= Cardinality(Holders(r))
<1>1. Holders(r)' \subseteq Holders(r)
  BY DEF Holders, WorkerCrashes, WebhookTypeOK
<1>2. QED
  BY <1>1, HoldersCount, FS_Subset, FS_CardinalityType

LEMMA SendersStep == ClaimInv /\ [WebhookNext]_webhookVars => SendersInv'
<1> SUFFICES ASSUME ClaimInv, [WebhookNext]_webhookVars, NEW r \in Rows
             PROVE  /\ Cardinality(Holders(r)') <= 1 + reissued'[r]
                    /\ \/ Cardinality(Holders(r)') <= reissued'[r]
                       \/ status'[r] = "pending" /\ wait'[r] = "leased"
  BY DEF SendersInv
<1> DEFINE Bound == /\ Cardinality(Holders(r)') <= 1 + reissued'[r]
                    /\ \/ Cardinality(Holders(r)') <= reissued'[r]
                       \/ status'[r] = "pending" /\ wait'[r] = "leased"
<1>0. /\ Cardinality(Holders(r)) \in Nat /\ reissued[r] \in Nat
      /\ Cardinality(Holders(r)) <= 1 + reissued[r]
      /\ \/ Cardinality(Holders(r)) <= reissued[r]
         \/ status[r] = "pending" /\ wait[r] = "leased"
  BY HoldersCount DEF ClaimInv, SendersInv, WebhookTypeOK
<1>1. CASE UNCHANGED <<holding, reissued, status, wait>>
  BY <1>0, <1>1, SameHolders
<1>2. ASSUME NEW e \in Events, InsertEvent(e)
      PROVE  Bound
  <2>1. UNCHANGED <<holding, reissued, wait>>
    BY <1>2 DEF InsertEvent, deliveryTable, workVars
  <2>2. status[r] # "pending" \/ status'[r] = "pending"
    BY <1>2 DEF InsertEvent, deliveryTable, Recorded, ClaimInv, WebhookTypeOK
  <2>3. QED
    BY <1>0, <2>1, <2>2, SameHolders
<1>3. ASSUME NEW w \in Workers, Claim(w)
      PROVE  Bound
  <2>1. PICK batch \in SUBSET {o \in Rows : Claimable(o)} :
          /\ Lease(batch)
          /\ holding' = [holding EXCEPT ![w] =
                           [o \in Rows |-> IF o \in batch THEN attempts[o] + 1 ELSE 0]]
    BY <1>3 DEF Claim
  <2>2. Idle(w) /\ UNCHANGED <<status, reissued>>
    BY <1>3 DEF Claim
  <2>3. batch \in SUBSET Rows /\ \A o \in batch : status[o] = "pending" /\ wait[o] = "due"
    BY <2>1 DEF Claimable
  <2>4. wait'[r] = IF r \in batch THEN "leased" ELSE wait[r]
    BY <2>1 DEF Lease
  <2>5. CASE r \in batch
    <3>1. Cardinality(Holders(r)') = Cardinality(Holders(r)) + 1
      BY <2>1, <2>2, <2>3, <2>5, ClaimHolders DEF ClaimInv
    <3>2. QED
      BY <1>0, <2>2, <2>3, <2>4, <2>5, <3>1
  <2>6. CASE r \notin batch
    <3>1. Holders(r)' = Holders(r)
      BY <2>1, <2>2, <2>3, <2>6, ClaimHolders DEF ClaimInv
    <3>2. QED
      BY <1>0, <2>2, <2>4, <2>6, <3>1
  <2>7. QED
    BY <2>5, <2>6
<1>4. ASSUME NEW w \in Workers, WorkerCrashes(w)
      PROVE  Bound
  <2>1. Cardinality(Holders(r)') \in Nat /\ Cardinality(Holders(r)') <= Cardinality(Holders(r))
    BY <1>4, CrashHolders DEF ClaimInv
  <2>2. UNCHANGED <<status, wait, reissued>>
    BY <1>4 DEF WorkerCrashes, deliveryTable
  <2>3. QED
    BY <1>0, <2>1, <2>2
<1>5. ASSUME NEW w \in Workers, NEW o \in Rows,
             RecordDelivered(w, o) \/ RecordFailed(w, o) \/ RecordThrows(w, o)
      PROVE  Bound
  <2>1. Leave(w, o) /\ answer[w][o] # "none" /\ UNCHANGED reissued
    BY <1>5 DEF RecordDelivered, RecordFailed, RecordThrows, Leave
  <2>2. CASE r = o
    <3>1. Cardinality(Holders(r)') = Cardinality(Holders(r)) - 1
      BY <2>1, <2>2, LeaveHolders DEF ClaimInv
    <3>2. QED
      BY <1>0, <2>1, <3>1
  <2>3. CASE r # o
    <3>1. Holders(r)' = Holders(r)
      BY <2>1, <2>3, LeaveHolders DEF ClaimInv
    <3>2. status'[r] = status[r] /\ wait'[r] = wait[r]
      BY <1>5, <2>3 DEF RecordDelivered, RecordFailed, RecordThrows, PutBack, deliveryTable,
                        ClaimInv, WebhookTypeOK
    <3>3. QED
      BY <1>0, <2>1, <3>1, <3>2
  <2>4. QED
    BY <2>2, <2>3
<1>6. ASSUME NEW o \in Rows, BackoffElapses(o)
      PROVE  Bound
  <2>1. UNCHANGED <<holding, status, reissued>> /\ (wait[r] = "leased" => wait'[r] = "leased")
    BY <1>6 DEF BackoffElapses, Elapses, workVars, ClaimInv, WebhookTypeOK
  <2>2. QED
    BY <1>0, <2>1, SameHolders
<1>7. ASSUME NEW o \in Rows, LeaseExpires(o)
      PROVE  Bound
  <2>1. UNCHANGED <<holding, status, reissued>>
    BY <1>7 DEF LeaseExpires, Elapses, workVars
  <2>2. CASE r = o
    <3>1. Cardinality(Holders(r)) = 0
      BY <1>7, <2>2, FS_EmptySet DEF LeaseExpires
    <3>2. QED
      BY <1>0, <2>1, <3>1, SameHolders
  <2>3. CASE r # o
    <3>1. wait'[r] = wait[r]
      BY <1>7, <2>3 DEF LeaseExpires, Elapses, ClaimInv, WebhookTypeOK
    <3>2. QED
      BY <1>0, <2>1, <3>1, SameHolders
  <2>4. QED
    BY <2>2, <2>3
<1>8. ASSUME NEW o \in Rows, LeaseOutlived(o) \/ Retry(o)
      PROVE  Bound
  <2>1. UNCHANGED holding
    BY <1>8 DEF LeaseOutlived, Retry, Elapses, workVars
  <2>2. CASE r = o
    <3>1. \/ reissued'[r] = reissued[r] + 1
          \/ Holders(r) = {} /\ UNCHANGED reissued
      BY <1>8, <2>2 DEF LeaseOutlived, Retry, ClaimInv, WebhookTypeOK
    <3>2. Holders(r) = {} => Cardinality(Holders(r)) = 0
      BY FS_EmptySet
    <3>3. QED
      BY <1>0, <2>1, <3>1, <3>2, SameHolders
  <2>3. CASE r # o
    <3>1. reissued'[r] = reissued[r] /\ status'[r] = status[r] /\ wait'[r] = wait[r]
      BY <1>8, <2>3 DEF LeaseOutlived, Retry, Elapses, ClaimInv, WebhookTypeOK
    <3>2. QED
      BY <1>0, <2>1, <3>1, SameHolders
  <2>4. QED
    BY <2>2, <2>3
<1>9. ASSUME NEW e \in Events, CheckSubscription(e) \/ DropEvent(e)
      PROVE  Bound
  BY <1>1, <1>9 DEF CheckSubscription, DropEvent, deliveryTable, workVars
<1>10. ASSUME NEW state, SetWebhook(state)
       PROVE  Bound
  BY <1>1, <1>10 DEF SetWebhook, deliveryTable, workVars
<1>11. ASSUME NEW w \in Workers, NEW o \in Rows, Post(w, o)
       PROVE  Bound
  BY <1>1, <1>11 DEF Post, deliveryTable
<1>12. CASE UNCHANGED webhookVars
  BY <1>1, <1>12 DEF webhookVars, deliveryTable, workVars
<1>13. QED
  BY <1>2, <1>3, <1>4, <1>5, <1>6, <1>7, <1>8, <1>9, <1>10, <1>11, <1>12, WebhookActions

\* The attempts a worker read are those of the row, unless the row was reset or
\* claimed again meanwhile.
LEMMA AttemptsStep == ClaimInv /\ [WebhookNext]_webhookVars => AttemptsInv'
<1> SUFFICES ASSUME ClaimInv, [WebhookNext]_webhookVars, NEW r \in Rows, reissued'[r] = 0
             PROVE  /\ \A w \in Workers : holding'[w][r] <= attempts'[r]
                    /\ status'[r] = "failed" => attempts'[r] >= MAX_ATTEMPTS
  BY DEF AttemptsInv
<1> DEFINE Read == /\ \A w \in Workers : holding'[w][r] <= attempts'[r]
                   /\ status'[r] = "failed" => attempts'[r] >= MAX_ATTEMPTS
<1>0. /\ WebhookTypeOK /\ attempts[r] \in Nat /\ reissued[r] \in Nat
      /\ \A w \in Workers : holding[w][r] \in Nat
  BY DEF ClaimInv, WebhookTypeOK
<1>01. reissued[r] = 0 =>
         /\ \A w \in Workers : holding[w][r] <= attempts[r]
         /\ status[r] = "failed" => attempts[r] >= MAX_ATTEMPTS
  BY DEF ClaimInv, AttemptsInv
<1>1. CASE UNCHANGED <<holding, reissued, attempts, status>>
  BY <1>01, <1>1
<1>2. ASSUME NEW e \in Events, InsertEvent(e)
      PROVE  Read
  <2>1. UNCHANGED <<holding, reissued, attempts>>
    BY <1>2 DEF InsertEvent, deliveryTable, workVars
  <2>2. status'[r] = status[r] \/ status'[r] = "pending"
    BY <1>0, <1>2 DEF InsertEvent, deliveryTable, WebhookTypeOK
  <2>3. QED
    BY <1>01, <2>1, <2>2
<1>3. ASSUME NEW w \in Workers, Claim(w)
      PROVE  Read
  <2>1. PICK batch \in SUBSET {o \in Rows : Claimable(o)} :
          /\ attempts' = [o \in Rows |-> IF o \in batch THEN attempts[o] + 1 ELSE attempts[o]]
          /\ holding' = [holding EXCEPT ![w] =
                           [o \in Rows |-> IF o \in batch THEN attempts[o] + 1 ELSE 0]]
    BY <1>3 DEF Claim
  <2>2. UNCHANGED <<status, reissued>>
    BY <1>3 DEF Claim
  <2>3. attempts'[r] = (IF r \in batch THEN attempts[r] + 1 ELSE attempts[r])
    BY <2>1
  <2>4. \A v \in Workers : holding'[v][r] =
          IF v = w THEN (IF r \in batch THEN attempts[r] + 1 ELSE 0) ELSE holding[v][r]
    BY <1>0, <2>1 DEF WebhookTypeOK
  <2>5. MAX_ATTEMPTS \in Nat
    BY WebhookAssumption
  <2>6. QED
    BY <1>0, <1>01, <2>2, <2>3, <2>4, <2>5
<1>4. ASSUME NEW w \in Workers, WorkerCrashes(w)
      PROVE  Read
  <2>1. UNCHANGED <<status, attempts, reissued>>
    BY <1>4 DEF WorkerCrashes, deliveryTable
  <2>2. \A v \in Workers : holding'[v][r] = IF v = w THEN 0 ELSE holding[v][r]
    BY <1>0, <1>4 DEF WorkerCrashes, WebhookTypeOK
  <2>3. QED
    BY <1>0, <1>01, <2>1, <2>2
<1>5. ASSUME NEW w \in Workers, NEW o \in Rows,
             RecordDelivered(w, o) \/ RecordFailed(w, o) \/ RecordThrows(w, o)
      PROVE  Read
  <2>1. UNCHANGED <<attempts, reissued>>
    BY <1>5 DEF RecordDelivered, RecordFailed, RecordThrows, Leave, PutBack, deliveryTable
  <2>2. \A v \in Workers : holding'[v][r] = holding[v][r] \/ holding'[v][r] = 0
    <3>1. holding' = [holding EXCEPT ![w][o] = 0]
      BY <1>5 DEF RecordDelivered, RecordFailed, RecordThrows, Leave
    <3>2. QED
      BY <1>0, <3>1 DEF WebhookTypeOK
  <2>3. status'[r] = "failed" => status[r] = "failed" \/ holding[w][r] >= MAX_ATTEMPTS
    BY <1>0, <1>5 DEF RecordDelivered, RecordFailed, RecordThrows, IsLast, PutBack, deliveryTable,
                      WebhookTypeOK
  <2>4. MAX_ATTEMPTS \in Nat
    BY WebhookAssumption
  <2>5. QED
    BY <1>0, <1>01, <2>1, <2>2, <2>3, <2>4
<1>6. ASSUME NEW o \in Rows, BackoffElapses(o) \/ LeaseExpires(o)
      PROVE  Read
  BY <1>1, <1>6 DEF BackoffElapses, LeaseExpires, Elapses, workVars
<1>7. ASSUME NEW o \in Rows, LeaseOutlived(o)
      PROVE  Read
  <2>1. UNCHANGED <<holding, attempts, status>>
    BY <1>7 DEF LeaseOutlived, Elapses, workVars
  <2>2. reissued[r] = 0
    BY <1>0, <1>7 DEF LeaseOutlived, WebhookTypeOK
  <2>3. QED
    BY <1>01, <2>1, <2>2
<1>8. ASSUME NEW o \in Rows, Retry(o)
      PROVE  Read
  <2>1. UNCHANGED holding
    BY <1>8 DEF Retry, workVars
  <2>2. CASE r = o
    <3>1. Holders(r) = {}
      BY <1>0, <1>8, <2>2 DEF Retry, WebhookTypeOK
    <3>2. \A w \in Workers : holding[w][r] = 0
      BY <1>0, <3>1 DEF Holders
    <3>3. status'[r] = "pending" /\ attempts'[r] = 0
      BY <1>0, <1>8, <2>2 DEF Retry, WebhookTypeOK
    <3>4. QED
      BY <2>1, <3>2, <3>3
  <2>3. CASE r # o
    <3>1. status'[r] = status[r] /\ attempts'[r] = attempts[r] /\ reissued'[r] = reissued[r]
      BY <1>0, <1>8, <2>3 DEF Retry, WebhookTypeOK
    <3>2. QED
      BY <1>01, <2>1, <3>1
  <2>4. QED
    BY <2>2, <2>3
<1>9. ASSUME NEW e \in Events, CheckSubscription(e) \/ DropEvent(e)
      PROVE  Read
  BY <1>1, <1>9 DEF CheckSubscription, DropEvent, deliveryTable, workVars
<1>10. ASSUME NEW state, SetWebhook(state)
       PROVE  Read
  BY <1>1, <1>10 DEF SetWebhook, deliveryTable, workVars
<1>11. ASSUME NEW w \in Workers, NEW o \in Rows, Post(w, o)
       PROVE  Read
  BY <1>1, <1>11 DEF Post, deliveryTable
<1>12. CASE UNCHANGED webhookVars
  BY <1>1, <1>12 DEF webhookVars, deliveryTable, workVars
<1>13. QED
  BY <1>2, <1>3, <1>4, <1>5, <1>6, <1>7, <1>8, <1>9, <1>10, <1>11, <1>12, WebhookActions

LEMMA ClaimInvInit == WebhookInit => ClaimInv
<1> SUFFICES ASSUME WebhookInit
             PROVE  SendersInv /\ AttemptsInv
  BY WebhookTypeInit DEF ClaimInv
<1>1. \A r \in Rows : Holders(r) = {} /\ reissued[r] = 0
  BY DEF Holders, WebhookInit
<1>2. SendersInv
  BY <1>1, FS_EmptySet DEF SendersInv
<1>3. AttemptsInv
  BY DEF WebhookInit, AttemptsInv
<1>4. QED
  BY <1>2, <1>3

LEMMA ClaimInvStep == ClaimInv /\ [WebhookNext]_webhookVars => ClaimInv'
BY WebhookTypeStep, SendersStep, AttemptsStep DEF ClaimInv

\* Claims by any number of processes, crashes and late workers put two workers
\* on a row only after a retry or an outlived lease.
THEOREM WebhookSendersAreReissues == WebhookSpec => []SendersAreReissues
<1>1. ClaimInv => SendersAreReissues
  BY DEF ClaimInv, SendersInv, SendersAreReissues
<1>2. QED
  BY <1>1, ClaimInvInit, ClaimInvStep, PTL DEF WebhookSpec

\* A row handled by one worker at a time is not given up before its last attempt.
THEOREM WebhookGivesUpLate == WebhookSpec => []GivenUpAfterMaxAttempts
<1>1. ClaimInv => GivenUpAfterMaxAttempts
  BY DEF ClaimInv, AttemptsInv, GivenUpAfterMaxAttempts
<1>2. QED
  BY <1>1, ClaimInvInit, ClaimInvStep, PTL DEF WebhookSpec

-----------------------------------------------------------------------------
(* Delivered rows *)

\* While nobody else holds a delivered row, only a retry touches it.
LEMMA DeliveredStep ==
    ASSUME ClaimInv, [WebhookNext]_webhookVars, NEW r \in Rows,
           status[r] = "delivered", reissued[r] = 0, retries' = retries
    PROVE  status'[r] = "delivered"
<1>1. \A w \in Workers : holding[w][r] = 0
  <2>1. Cardinality(Holders(r)) <= 0
    BY DEF ClaimInv, SendersInv
  <2>2. QED
    BY <2>1, NoHolders DEF ClaimInv
<1>2. CASE UNCHANGED status
  BY <1>2
<1>3. ASSUME NEW e \in Events, InsertEvent(e)
      PROVE  status'[r] = "delivered"
  BY <1>3 DEF InsertEvent, Recorded, deliveryTable, ClaimInv, WebhookTypeOK
<1>4. ASSUME NEW w \in Workers, NEW o \in Rows,
             RecordDelivered(w, o) \/ RecordFailed(w, o) \/ RecordThrows(w, o)
      PROVE  status'[r] = "delivered"
  <2>1. answer[w][o] # "none"
    BY <1>4 DEF RecordDelivered, RecordFailed, RecordThrows
  <2>2. r # o
    BY <1>1, <2>1 DEF ClaimInv, WebhookTypeOK
  <2>3. QED
    BY <1>4, <2>2 DEF RecordDelivered, RecordFailed, RecordThrows, PutBack, deliveryTable,
                      ClaimInv, WebhookTypeOK
<1>5. ASSUME NEW o \in Rows, Retry(o)
      PROVE  FALSE
  BY <1>5 DEF Retry, ClaimInv, WebhookTypeOK
<1>6. ASSUME NEW o \in Rows, BackoffElapses(o) \/ LeaseExpires(o) \/ LeaseOutlived(o)
      PROVE  status'[r] = "delivered"
  BY <1>2, <1>6 DEF BackoffElapses, LeaseExpires, LeaseOutlived, Elapses
<1>7. ASSUME NEW w \in Workers, Claim(w) \/ WorkerCrashes(w)
      PROVE  status'[r] = "delivered"
  BY <1>2, <1>7 DEF Claim, WorkerCrashes, deliveryTable
<1>8. ASSUME NEW e \in Events, CheckSubscription(e) \/ DropEvent(e)
      PROVE  status'[r] = "delivered"
  BY <1>2, <1>8 DEF CheckSubscription, DropEvent, deliveryTable
<1>9. ASSUME NEW state, SetWebhook(state)
      PROVE  status'[r] = "delivered"
  BY <1>2, <1>9 DEF SetWebhook, deliveryTable
<1>10. ASSUME NEW w \in Workers, NEW o \in Rows, Post(w, o)
       PROVE  status'[r] = "delivered"
  BY <1>2, <1>10 DEF Post, deliveryTable
<1>11. CASE UNCHANGED webhookVars
  BY <1>2, <1>11 DEF webhookVars, deliveryTable
<1>12. QED
  BY <1>3, <1>4, <1>5, <1>6, <1>7, <1>8, <1>9, <1>10, <1>11, WebhookActions

\* Without a retry and without two workers on it, a delivered row is never put
\* back, given up or sent again.
THEOREM WebhookKeepsDelivered == WebhookSpec => DeliveredUntilReissued
<1>1. ClaimInv /\ [WebhookNext]_webhookVars =>
        [\A r \in Rows : status[r] = "delivered" /\ reissued[r] = 0 /\ retries' = retries
                           => status'[r] = "delivered"]_webhookVars
  BY DeliveredStep
<1>2. QED
  BY <1>1, ClaimInvInit, ClaimInvStep, PTL DEF WebhookSpec, DeliveredUntilReissued
=============================================================================
