------------------------------- MODULE Intake -------------------------------
(***************************************************************************)
(* What POST /notify promises its callers about idempotency keys: a key of a  *)
(* tenant stands for one notification and never for another one, and a        *)
(* notification is sent at most once, after the key stands for it.            *)
(***************************************************************************)
CONSTANTS
    Notifs,     \* notifications
    Tenants,    \* tenants: entities, or no entity
    Keys        \* idempotency keys

VARIABLES
    holders,    \* which notification a key of a tenant stands for
    stored,     \* notifications that exist
    sent        \* notifications handed to the queues

intakeVars == <<holders, stored, sent>>

Init ==
    /\ holders = {}
    /\ stored = {}
    /\ sent = {}

Taken(t, k) == \E h \in holders : h.tenant = t /\ h.key = k

\* A notification comes into being, with a fresh key or without one.
Store(n) ==
    /\ n \notin stored
    /\ stored' = stored \cup {n}
    /\ \/ UNCHANGED holders
       \/ \E t \in Tenants, k \in Keys :
             ~Taken(t, k) /\ holders' = holders \cup {[tenant |-> t, key |-> k, notif |-> n]}
    /\ UNCHANGED sent

Send(n) ==
    /\ n \in stored \ sent
    /\ sent' = sent \cup {n}
    /\ UNCHANGED <<holders, stored>>

Next == \E n \in Notifs : Store(n) \/ Send(n)

Spec == Init /\ [][Next]_intakeVars
=============================================================================
