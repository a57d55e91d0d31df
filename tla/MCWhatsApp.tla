----------------------------- MODULE MCWhatsApp -----------------------------
(***************************************************************************)
(* Three beginnings, each with the rest at its bound or unused: an app       *)
(* without anything, whose sessions change; a single session with           *)
(* templates at Meta, whose rows change; and every legal table of sessions   *)
(* with rows of one template, in which lookups and sends run.               *)
(***************************************************************************)
EXTENDS WhatsAppTemplates, TLC

CONSTANTS e1, e2, e3, t1, t2, a1, a2, l1, l2, y1, y2, c1, j1

MCSymmetry ==
    Permutations(Admins) \cup Permutations(Lookups) \cup Permutations(Syncs)

\* A single session, not even marked as fallback, whose business account has one template.
OneSession ==
    /\ session = [e \in Entities |->
                    IF e = e1 THEN [status |-> "active", fallback |-> FALSE, parent |-> Nobody]
                    ELSE NoSession]
    /\ requests = MaxRequests
    /\ meta = [e \in Entities |-> [t \in Templates |->
                IF e = e1 /\ t = t1 THEN "APPROVED" ELSE "none"]]
    /\ row = [e \in Entities |-> Absent]
    /\ cached = Nobody
    /\ metaChanges = 0 /\ syncs = 0

\* Every table of sessions, some rows of t1, and what may be cached.
AnySessions ==
    /\ session \in [Entities -> {NoSession} \cup
                       [status : {"active", "disconnected"}, fallback : BOOLEAN, parent : Somebody]]
    /\ OneFallback
    /\ \A e \in Entities : session[e].parent # e
    /\ requests = MaxRequests
    /\ meta = [e \in Entities |-> Absent]
    /\ \E S \in SUBSET Entities, status \in {"PENDING", "APPROVED"} :
          row = [e \in Entities |-> [t \in Templates |->
                  IF t = t1 /\ e \in S THEN "APPROVED"
                  ELSE IF t = t1 /\ e = e1 THEN status ELSE "none"]]
    /\ cached \in {Nobody, e2}
    /\ metaChanges = MaxMetaChanges /\ syncs = MaxSyncs

MCInit ==
    /\ \/ SessionsInit /\ row = [e \in Entities |-> Absent] /\ meta = row
          /\ metaChanges = MaxMetaChanges /\ syncs = MaxSyncs
       \/ OneSession
       \/ AnySessions
    /\ fill = [l \in Lookups |-> NoFill]
    /\ owing = {}
    /\ tainted = (cached # Nobody)
    /\ sync = [s \in Syncs |-> IdleSync]
    /\ create = [c \in Creates |-> NoTask]
    /\ send = [j \in Sends |-> NoTask]

MCSpec == MCInit /\ [][WhatsAppNext]_whatsappVars
=============================================================================
