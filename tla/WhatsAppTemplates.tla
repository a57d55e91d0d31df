-------------------------- MODULE WhatsAppTemplates --------------------------
(***************************************************************************)
(* The table whatsapp_meta_templates, BlueMQ's copy of the templates that   *)
(* live at Meta, for one language: the sync and the creation of             *)
(* src/src/api/routes/whatsapp-templates.js, the status a WhatsApp worker   *)
(* writes after a refused send (src/src/workers/whatsapp.worker.js), and    *)
(* the lookups of src/src/utils/whatsapp-template.js.                       *)
(*                                                                         *)
(* An entity stands for its session's business account as well.  A page of *)
(* Meta's list holds one template.  Contents, category and update time of a *)
(* template are left out: a row is rewritten unless it is equal to what was *)
(* fetched, so that the status is all that is compared.                     *)
(***************************************************************************)
EXTENDS WhatsAppSessions

CONSTANTS
    Templates,      \* template names
    Syncs,          \* sync requests that may run at once
    Creates,        \* create requests that may run at once
    Sends,          \* WhatsApp jobs that may run at once
    MaxMetaChanges, \* bound: changes at Meta
    MaxSyncs        \* bound: sync requests

ASSUME TemplatesAssumption ==
    /\ MaxMetaChanges \in Nat
    /\ MaxSyncs \in Nat

VARIABLES
    meta,       \* what Meta has, by entity and template
    row,        \* what the table has
    sync,       \* a sync request in progress
    create,     \* a create request between Meta's answer and its upsert
    send,       \* a job between Meta's refusal and the mark
    metaChanges,
    syncs

templateVars == <<meta, row, sync, create, send, metaChanges, syncs>>
whatsappVars == <<sessionVars, templateVars>>

LiveStatuses == {"PENDING", "APPROVED", "PAUSED"}
MetaStatuses == LiveStatuses \cup {"none"}
RowStatuses == MetaStatuses \cup {"DELETED"}
Absent == [t \in Templates |-> "none"]

\* A sync: its step, the entity it resolved, the templates it still has to fetch
\* or to write, what it fetched, the rows it read, and whether the list is known
\* to be cut.  History: whether the list broke off or a write failed, the
\* templates that lived at Meta all the time, and whether nothing else touched
\* the entity's templates.
IdleSync == [pc |-> "idle", entity |-> Nobody, todo |-> {}, got |-> Absent, old |-> Absent,
             truncated |-> FALSE, broken |-> FALSE, lived |-> {}, alone |-> FALSE]
SyncType == [pc : {"idle", "fetch", "read", "upsert", "prune", "done"}, entity : Somebody,
             todo : SUBSET Templates, got : [Templates -> MetaStatuses],
             old : [Templates -> RowStatuses], truncated : BOOLEAN,
             broken : BOOLEAN, lived : SUBSET Templates, alone : BOOLEAN]

NoTask == [entity |-> Nobody, template |-> "none", status |-> "none"]
TaskType == [entity : Somebody, template : Templates \cup {"none"}, status : RowStatuses]

TemplatesInit ==
    /\ meta = [e \in Entities |-> Absent]
    /\ row = [e \in Entities |-> Absent]
    /\ sync = [s \in Syncs |-> IdleSync]
    /\ create = [c \in Creates |-> NoTask]
    /\ send = [j \in Sends |-> NoTask]
    /\ metaChanges = 0
    /\ syncs = 0

\* The order of Meta's list and of the rows.
First(todo) == CHOOSE t \in todo : TRUE

Live(e) == {t \in Templates : meta[e][t] # "none"}

\* Something else than sync s touched the templates of entity e.
Disturbed(e, s) ==
    [x \in Syncs |-> IF x # s /\ sync[x].entity = e THEN [sync[x] EXCEPT !.alone = FALSE]
                     ELSE sync[x]]
Disturb(e) == sync' = [x \in Syncs |-> IF sync[x].entity = e
                                       THEN [sync[x] EXCEPT !.alone = FALSE] ELSE sync[x]]

\* resolveMetaCredentials: the entity's own active session, else the fallback,
\* else the only active one.
Credentials(e) ==
    IF e # Nobody /\ Active(session, e) THEN e
    ELSE IF FallbackOf(session) # Nobody THEN FallbackOf(session)
    ELSE IF Cardinality({x \in Entities : Active(session, x)}) = 1
         THEN CHOOSE x \in Entities : Active(session, x)
    ELSE Nobody

\* resolveSessionForTemplates: without an entity and a fallback a single
\* session decides; Credentials says so already.
SessionForTemplates(e) == Credentials(e)

-----------------------------------------------------------------------------
(* Meta *)

\* A template is submitted, reviewed, paused or removed in Meta's own console.
MetaChanges(e, t, status) ==
    /\ metaChanges < MaxMetaChanges
    /\ metaChanges' = metaChanges + 1
    /\ meta[e][t] # status
    /\ status = "PENDING" => meta[e][t] = "none"
    /\ meta' = [meta EXCEPT ![e][t] = status]
    /\ sync' = [x \in Syncs |->
                  IF sync[x].entity # e THEN sync[x]
                  ELSE [sync[x] EXCEPT !.alone = FALSE,
                                       !.lived = IF status = "none" THEN @ \ {t} ELSE @]]
    /\ UNCHANGED <<row, create, send, syncs>>

-----------------------------------------------------------------------------
(* POST /whatsapp-templates/sync *)

StartSync(s, e) ==
    LET entity == SessionForTemplates(e)
    IN /\ sync[s].pc = "idle"
       /\ syncs < MaxSyncs
       /\ entity # Nobody
       /\ syncs' = syncs + 1
       /\ sync' = [Disturbed(entity, s) EXCEPT
                     ![s] = [IdleSync EXCEPT !.pc = "fetch", !.entity = entity,
                                !.todo = Live(entity), !.lived = Live(entity),
                                !.alone = \A x \in Syncs : sync[x].entity # entity]]
       /\ UNCHANGED <<meta, row, create, send, metaChanges>>

\* One page of fetchAllMessageTemplates; a template removed meanwhile is not on it.
FetchPage(s) ==
    /\ sync[s].pc = "fetch" /\ sync[s].todo # {}
    /\ LET t == First(sync[s].todo)
       IN sync' = [sync EXCEPT ![s].todo = @ \ {t},
                               ![s].got[t] = meta[sync[s].entity][t]]
    /\ UNCHANGED <<meta, row, create, send, metaChanges, syncs>>

\* Mutant: a list cut by the rate limit is taken for the whole list.
FetchStopsUnnoticed(s, why) ==
    /\ sync[s].pc = "fetch"
    /\ why = "complete" => sync[s].todo = {}
    /\ sync' = [sync EXCEPT ![s] =
                  IF why # "complete" /\ sync[s].got = Absent THEN IdleSync
                  ELSE [@ EXCEPT !.pc = "read"]]
    /\ UNCHANGED <<meta, row, create, send, metaChanges, syncs>>

\* The last page, the rate limit after all retries, or another error.  With
\* nothing fetched an error ends the sync.  Only the rate limit marks the list
\* as cut: another error after a page leaves a partial list that counts as whole.
FetchStops(s, why) ==
    /\ sync[s].pc = "fetch"
    /\ why = "complete" => sync[s].todo = {}
    /\ sync' = [sync EXCEPT ![s] =
                  IF why # "complete" /\ sync[s].got = Absent THEN IdleSync
                  ELSE [@ EXCEPT !.pc = "read", !.truncated = (why = "limited"),
                                 !.broken = (why = "failed")]]
    /\ UNCHANGED <<meta, row, create, send, metaChanges, syncs>>

\* The templates of a fetched list.
Fetched(s) == {t \in Templates : sync[s].got[t] # "none"}

\* SELECT of the rows of the entity.
ReadRows(s) ==
    /\ sync[s].pc = "read"
    /\ sync' = [sync EXCEPT ![s].pc = "upsert", ![s].old = row[sync[s].entity],
                            ![s].todo = Fetched(s)]
    /\ UNCHANGED <<meta, row, create, send, metaChanges, syncs>>

\* Mutant: a row that exists is never rewritten.
SkipsExisting(s, t) == sync[s].old[t] # "none"

\* shouldUpdateCache says "skip".
Skips(s, t) == sync[s].old[t] = sync[s].got[t]

\* upsertCacheRow, whose failure is swallowed.
Upsert(s) ==
    /\ sync[s].pc = "upsert" /\ sync[s].todo # {}
    /\ \E t \in {First(sync[s].todo)}, ok \in BOOLEAN :
          /\ row' = IF ok /\ ~Skips(s, t) THEN [row EXCEPT ![sync[s].entity][t] = sync[s].got[t]]
                    ELSE row
          /\ sync' = [Disturbed(sync[s].entity, s) EXCEPT
                        ![s].todo = @ \ {t}, ![s].broken = @ \/ ~ok]
    /\ UNCHANGED <<meta, create, send, metaChanges, syncs>>

\* The rows read that were not fetched and are not DELETED yet, unless the list
\* was cut.
Pruned(s) ==
    IF sync[s].truncated THEN {}
    ELSE {t \in Templates : sync[s].old[t] \notin {"none", "DELETED"}} \ Fetched(s)

StartPrune(s) ==
    /\ sync[s].pc = "upsert"
    /\ sync[s].todo = {}
    /\ sync' = [sync EXCEPT ![s].pc = "prune", ![s].todo = Pruned(s)]
    /\ UNCHANGED <<meta, row, create, send, metaChanges, syncs>>

\* UPDATE .. SET status = 'DELETED'
Prune(s) ==
    /\ sync[s].pc = "prune" /\ sync[s].todo # {}
    /\ \E t \in {First(sync[s].todo)} :
          /\ row' = [row EXCEPT ![sync[s].entity][t] = "DELETED"]
          /\ sync' = [Disturbed(sync[s].entity, s) EXCEPT ![s].todo = @ \ {t}]
    /\ UNCHANGED <<meta, create, send, metaChanges, syncs>>

\* The answer, 200 or 207.
Answer(s) ==
    /\ sync[s].pc = "prune"
    /\ sync[s].todo = {}
    /\ sync' = [sync EXCEPT ![s].pc = "done"]
    /\ UNCHANGED <<meta, row, create, send, metaChanges, syncs>>

\* The answered request is gone; or a statement throws, or the process dies.
EndSync(s) ==
    /\ sync[s].pc # "idle"
    /\ sync' = [sync EXCEPT ![s] = IdleSync]
    /\ UNCHANGED <<meta, row, create, send, metaChanges, syncs>>

-----------------------------------------------------------------------------
(* POST /whatsapp-templates *)

\* Meta accepts the template, which then is pending or approved at once.
CreateTemplate(c, e, t, status) ==
    LET entity == SessionForTemplates(e)
    IN /\ create[c] = NoTask
       /\ metaChanges < MaxMetaChanges
       /\ entity # Nobody
       /\ meta[entity][t] = "none"
       /\ metaChanges' = metaChanges + 1
       /\ meta' = [meta EXCEPT ![entity][t] = status]
       /\ create' = [create EXCEPT ![c] = [entity |-> entity, template |-> t, status |-> status]]
       /\ Disturb(entity)
       /\ UNCHANGED <<row, send, syncs>>

\* Its upsert, which may fail.
CacheCreated(c) ==
    /\ create[c] # NoTask
    /\ row' \in {row, [row EXCEPT ![create[c].entity][create[c].template] = create[c].status]}
    /\ create' = [create EXCEPT ![c] = NoTask]
    /\ Disturb(create[c].entity)
    /\ UNCHANGED <<meta, send, metaChanges, syncs>>

-----------------------------------------------------------------------------
(* The WhatsApp worker *)

\* inferCacheStatusFromMetaError of Meta's answer for a template it does not send.
InferredStatus(status) ==
    CASE status = "PAUSED" -> "PAUSED"
      [] status = "none" -> "DELETED"
      [] OTHER -> "none"

\* Meta refuses a send through the session resolved for it, of a template that
\* was found in some row.
RefusedSend(j, e, parent, t) ==
    LET entity == ResolveSession(session, e, parent)
    IN /\ send[j] = NoTask
       /\ entity # Nobody
       /\ \E x \in Entities : row[x][t] # "none"
       /\ InferredStatus(meta[entity][t]) # "none"
       /\ send' = [send EXCEPT ![j] = [entity |-> entity, template |-> t,
                                       status |-> InferredStatus(meta[entity][t])]]
       /\ UNCHANGED <<meta, row, sync, create, metaChanges, syncs>>

\* markCacheStatus: an UPDATE, without effect when there is no row.
MarkCacheStatus(j) ==
    LET e == send[j].entity
        t == send[j].template
    IN /\ send[j] # NoTask
       /\ row' = IF row[e][t] = "none" THEN row ELSE [row EXCEPT ![e][t] = send[j].status]
       /\ send' = [send EXCEPT ![j] = NoTask]
       /\ Disturb(e)
       /\ UNCHANGED <<meta, create, metaChanges, syncs>>

TemplatesStep ==
    \/ \E e \in Entities, t \in Templates, status \in MetaStatuses : MetaChanges(e, t, status)
    \/ \E s \in Syncs, e \in Somebody : StartSync(s, e)
    \/ \E s \in Syncs, why \in {"complete", "limited", "failed"} : FetchStops(s, why)
    \/ \E s \in Syncs : \/ FetchPage(s) \/ ReadRows(s) \/ Upsert(s) \/ StartPrune(s)
                        \/ Prune(s) \/ Answer(s) \/ EndSync(s)
    \/ \E c \in Creates, e \in Somebody, t \in Templates, status \in {"PENDING", "APPROVED"} :
          CreateTemplate(c, e, t, status)
    \/ \E c \in Creates : CacheCreated(c)
    \/ \E j \in Sends, e \in Entities, parent \in Somebody, t \in Templates :
          RefusedSend(j, e, parent, t)
    \/ \E j \in Sends : MarkCacheStatus(j)

WhatsAppInit == SessionsInit /\ TemplatesInit

WhatsAppNext ==
    \/ SessionsNext /\ UNCHANGED templateVars
    \/ TemplatesStep /\ UNCHANGED sessionVars

WhatsAppSpec == WhatsAppInit /\ [][WhatsAppNext]_whatsappVars

-----------------------------------------------------------------------------
(* Which template is sent *)

Approved(e, t) == row[e][t] = "APPROVED"

\* findCachedSendableTemplate, with batch queries: the entity of the row, an
\* approved one first.  Without batch queries the first row decides, approved or not.
FirstAmong(cands, S) ==
    LET hits == {i \in DOMAIN cands : cands[i] \in S}
    IN IF hits = {} THEN Nobody ELSE cands[CHOOSE i \in hits : \A j \in hits : i <= j]

Find(cands, t) ==
    LET approved == FirstAmong(cands, {e \in Entities : Approved(e, t)})
    IN IF approved # Nobody THEN approved
       ELSE FirstAmong(cands, {e \in Entities : row[e][t] # "none"})

-----------------------------------------------------------------------------
(* Properties *)

TemplatesTypeOK ==
    /\ meta \in [Entities -> [Templates -> MetaStatuses]]
    /\ row \in [Entities -> [Templates -> RowStatuses]]
    /\ sync \in [Syncs -> SyncType]
    /\ create \in [Creates -> TaskType]
    /\ send \in [Sends -> TaskType]
    /\ metaChanges \in 0 .. MaxMetaChanges
    /\ syncs \in 0 .. MaxSyncs

WhatsAppTypeOK == SessionsTypeOK /\ TemplatesTypeOK

\* A sync that fetched and wrote everything while nothing else touched the
\* templates leaves the table as Meta is.
UndisturbedSyncIsExact ==
    \A s \in Syncs :
        sync[s].pc = "done" /\ sync[s].alone /\ ~sync[s].truncated /\ ~sync[s].broken =>
            \A t \in Templates :
                LET r == row[sync[s].entity][t]
                    m == meta[sync[s].entity][t]
                IN r = m \/ (m = "none" /\ r = "DELETED")

\* Whatever creates, marks, other syncs and session changes run beside it, a sync
\* deletes no template that lived at Meta from its start on, unless Meta's list
\* broke off with an error that is not the rate limit.
LivingTemplatesAreKept ==
    \A s \in Syncs : sync[s].pc = "prune" /\ sync[s].todo \cap sync[s].lived # {} => sync[s].broken

\* The session that sends a template is the one of the entity it was found for,
\* unless that entity's session is not active, the session that sends has no
\* approved template, it is reached over more than one parent, or the fallback
\* in the cache is not current.
TemplateOwnerSends ==
    \A e \in Entities, parent \in Somebody, t \in Templates :
        LET cands == Candidates(e, parent, IF cached = Nobody THEN FallbackOf(session) ELSE cached)
            owner == Find(cands, t)
            sender == ResolveSession(session, e, parent)
        IN owner # Nobody /\ sender # Nobody /\ owner # sender =>
              \/ ~Active(session, owner)
              \/ ~Approved(sender, t)
              \/ sender \notin {e, parent, FallbackOf(session)}
              \/ cached \notin {Nobody, FallbackOf(session)}
=============================================================================
