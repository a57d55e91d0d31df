------------------------------- MODULE MCLive -------------------------------
(***************************************************************************)
(* What must eventually happen, under the fairness of the workers: to the  *)
(* units and the channels of a notification, and to a webhook row.  The    *)
(* two share no state, and every behaviour exercises one of them.          *)
(***************************************************************************)
EXTENDS WebhookDelivery, TLC

CONSTANTS n1, c1, c2, w1, w2, e1, r1

\* One notification on both channels, of which c1 has a limit, and two periods.
VARIABLES part, period, used, reserved, resv, notification, expected, logs, hook,
          submitter, toEnqueue, job, made, stalls, row, faults
D == INSTANCE Delivery WITH
        Notifs <- {n1}, Channels <- {c1, c2}, Limited <- {c1}, Limit <- [c \in {c1} |-> 1],
        MaxPeriod <- 2, SessionChannels <- {c2}, MaxAttempts <- 2, MaxStalls <- 1,
        MaxJobs <- 2, MaxFaults <- 1, status <- notification, attempts <- made
deliveryVars == <<period, used, reserved, resv, notification, expected, logs, hook,
                  submitter, toEnqueue, job, made, stalls, row, faults>>

LiveInit == part \in {"delivery", "webhook"} /\ D!DeliveryInit /\ WebhookInit

LiveNext ==
    \/ part = "delivery" /\ D!DeliveryNext /\ UNCHANGED <<part, webhookVars>>
    \/ part = "webhook" /\ WebhookNext /\ UNCHANGED <<part, deliveryVars>>

\* The fairness of FairDeliverySpec and of FairWebhookSpec, each in its part.
LiveFairness ==
    /\ \A c \in {c1, c2} : WF_deliveryVars(part = "delivery" /\ D!Worker(n1, c))
    /\ WF_deliveryVars(part = "delivery" /\ D!Sweeper)
    /\ \A w \in Workers : WF_webhookVars(part = "webhook" /\ WorkerStep(w))
    /\ \A r \in Rows : WF_webhookVars(part = "webhook" /\ TimePasses(r))

LiveSpec == LiveInit /\ [][LiveNext]_<<part, deliveryVars, webhookVars>> /\ LiveFairness

\* No unit is held for ever, and no notification that holds one stays pending,
\* whatever crashed (EveryReservationSettles of Delivery).
EveryReservationSettles == D!EveryReservationSettles

\* notification.final goes out when every channel was sent at once and nothing
\* broke (FinalWhenAllSent of Delivery).
FinalWhenAllSent == D!FinalWhenAllSent
=============================================================================
