---------------------------- MODULE MCQuotaAdmin ----------------------------
(***************************************************************************)
(* Two profiles and two owners, one of which the database refuses.  TLC       *)
(* starts from an app without quotas, and from one with a default profile and *)
(* an owner on the other profile: each is a state the routes reach.           *)
(* Or two processes that deliver two webhook rows of two events, or of one     *)
(* event sent a second time.  The two components share no state, and every     *)
(* behaviour exercises one of them.                                           *)
(***************************************************************************)
EXTENDS QuotaAdmin, WebhookDelivery, TLC

CONSTANTS p1, p2, o1, o2, r1, r2, w1, w2, v1, e1, e2

VARIABLE part

MCInit ==
    \/ AdminInit
    \/ /\ part = "administration"
       /\ profile = (p1 :> [status |-> "live", default |-> TRUE, limit |-> 1]
                     @@ p2 :> [status |-> "live", default |-> FALSE, limit |-> 0])
       /\ owner = (o1 :> [exists |-> TRUE, profile |-> p2, override |-> Nothing]
                   @@ o2 :> NoOwner)
       /\ req = [r \in Requests |-> NoRequest]
       /\ flag = [w \in Processes |-> "absent"]
       /\ look = [w \in Processes |-> [step |-> "idle", crossed |-> FALSE]]
       /\ units = [o \in Owners |-> 0]
       /\ reserve = [v \in Reservers |-> NoReserve]
       /\ orphaned = {} /\ undefaulted = FALSE /\ outdated = {} /\ moved = {}
       /\ requests = 0 /\ faults = 0

AdminOrWebhookInit == part \in {"administration", "webhook"} /\ MCInit /\ WebhookInit

AdminOrWebhookNext ==
    \/ part = "administration" /\ AdminNext /\ UNCHANGED <<part, webhookVars>>
    \/ part = "webhook" /\ WebhookNext /\ UNCHANGED <<part, adminVars>>

MCSpec == AdminOrWebhookInit /\ [][AdminOrWebhookNext]_<<part, adminVars, webhookVars>>

\* The same names serve as requests and webhook rows, and as the processes of both.
MCSymmetry == Permutations(Requests) \cup Permutations(Processes) \cup Permutations(Events)

\* Flags and reservations share no state: behaviours with both in play add none.
MCFocus ==
    \/ \A w \in Processes : flag[w] = "absent" /\ look[w].step = "idle"
    \/ \A o \in Owners : units[o] = 0 /\ ~InFlight(o)
=============================================================================
