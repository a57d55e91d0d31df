----------------------------- MODULE Submission -----------------------------
(***************************************************************************)
(* The handler of POST /notify (src/src/api/routes/notify.js) up to its       *)
(* answer, for one app, user and notification type: the entity-parent guard,  *)
(* the idempotency key, the rendering of the template, the burst check, the   *)
(* INSERT and the enqueueing.  Requests run concurrently, in any number of    *)
(* processes, and each statement is a step.                                   *)
(*                                                                         *)
(* Time passes in two steps, the ten seconds of the burst check and the 24    *)
(* hours of a key.  Which channels the quota takes from a request is a free   *)
(* choice; the reservation of units is in Delivery.                           *)
(***************************************************************************)
EXTENDS Integers, Sequences, FiniteSets

CONSTANTS
    Requests,   \* requests; the notification of a request bears its name
    Entities,   \* entity ids
    Parents,    \* parent entity ids
    Parts,      \* what stands between the colons of a text
    Keys,       \* idempotency keys, cut at their colons
    Payloads,   \* the data of a request
    Plain,      \* those whose text JSONB writes as JSON.stringify does: {}
    EventOf,    \* [Payloads -> event id, cut at its colons, or <<>> without one]
    Mentions,   \* pairs of a key and a payload whose event id is part of the key
    TooLong,    \* pairs of a key and a payload that exceed 255 characters together
    Channels,   \* the channels of every request
    First,      \* [some of the channels -> the one a request lists first]
    Wording,    \* [Channels -> what tells the texts of two channels apart]
    Nobody,     \* no entity, no parent, no key, no notification
    Bodies,     \* the contents that requests have
    MaxTexts    \* bound: edits of the template

ASSUME SubmissionAssumption ==
    /\ Plain \subseteq Payloads
    /\ Keys \subseteq Seq(Parts) \ {<<>>}
    /\ EventOf \in [Payloads -> Seq(Parts)]
    /\ Mentions \subseteq Keys \X Payloads
    /\ TooLong \subseteq Keys \X Payloads
    /\ Nobody \notin Entities \cup Parents \cup Keys \cup Requests \cup Payloads
    /\ Channels # {}
    /\ DOMAIN First = SUBSET Channels \ {{}}
    /\ \A left \in DOMAIN First : First[left] \in left
    /\ DOMAIN Wording = Channels
    /\ MaxTexts \in Nat

OrNobody(S) == S \cup {Nobody}
Tenants == OrNobody(Entities)
Content == [entity : Tenants, parent : OrNobody(Parents), key : OrNobody(Keys), data : Payloads]

ASSUME BodiesAssumption == Bodies \subseteq Content

VARIABLES
    req,        \* the handler of each request
    row,        \* the notifications table
    parentOf,   \* entity_parent_map
    jobs,       \* channels of each notification in the queues
    text        \* what the template renders to, by version

submissionVars == <<req, row, parentOf, jobs, text>>

\* "fresh" for ten seconds, "recent" for 24 hours.
Age == {"fresh", "recent", "old"}
NoRow == [status |-> "none"]
RowType == {NoRow} \cup
    [status : {"pending", "failed"}, content : Content, text : 0 .. MaxTexts,
     channels : SUBSET Channels \ {{}}, age : Age]

\* A request: its next statement or its answer, its body, the message it
\* rendered, and the notification its answer names; seen, history: the rows that
\* were there when it began.
NoRequest == [pc |-> "new"]
RequestType == {NoRequest} \cup
    [pc : {"guard", "key", "prepare", "burst", "insert", "enqueue", "failing",
           "accepted", "duplicate", "refused"},
     content : Content, text : 0 .. MaxTexts, named : OrNobody(Requests), seen : SUBSET Requests]

Begun(r) == req[r] # NoRequest
Running(r) == Begun(r) /\ req[r].pc \notin {"accepted", "duplicate", "refused"}
Stored(n) == row[n] # NoRow
Rows == {n \in Requests : Stored(n)}

SubmissionInit ==
    /\ req = [r \in Requests |-> NoRequest]
    /\ row = [r \in Requests |-> NoRow]
    /\ parentOf = [e \in Entities |-> Nobody]
    /\ jobs = [r \in Requests |-> {}]
    /\ text = 0

Goto(r, pc) == req' = [req EXCEPT ![r].pc = pc]
AnswerDuplicate(r, n) == req' = [req EXCEPT ![r].pc = "duplicate", ![r].named = n]

-----------------------------------------------------------------------------
(* Entity and parent *)

\* The body has passed validation.
Submit(r, c) ==
    /\ ~Begun(r)
    /\ req' = [req EXCEPT ![r] = [pc |-> "guard", content |-> c, text |-> 0,
                                  named |-> Nobody, seen |-> Rows]]
    /\ UNCHANGED <<row, parentOf, jobs, text>>

\* Mutant: the first mapping is not compared with.
GuardEntityParentOnce(r) ==
    LET e == req[r].content.entity
        p == req[r].content.parent
    IN /\ req[r].pc = "guard"
       /\ IF e = Nobody \/ p = Nobody THEN UNCHANGED parentOf
          ELSE parentOf' = [parentOf EXCEPT ![e] = IF @ = Nobody THEN p ELSE @]
       /\ Goto(r, "key")
       /\ UNCHANGED <<row, jobs, text>>

\* guardEntityParent: INSERT .. ON CONFLICT DO NOTHING, and the SELECT of a row
\* that nobody changes or deletes.  409 for another parent.
GuardEntityParent(r) ==
    LET e == req[r].content.entity
        p == req[r].content.parent
    IN /\ req[r].pc = "guard"
       /\ IF e = Nobody \/ p = Nobody THEN Goto(r, "key") /\ UNCHANGED parentOf
          ELSE IF parentOf[e] \in {Nobody, p}
               THEN Goto(r, "key") /\ parentOf' = [parentOf EXCEPT ![e] = p]
               ELSE Goto(r, "refused") /\ UNCHANGED parentOf
       /\ UNCHANGED <<row, jobs, text>>

-----------------------------------------------------------------------------
(* Duplicates *)

\* qualifyIdempotencyKey: the event id of the payload is appended to the key after
\* a colon, unless the key contains it already, by accident or not, or the two
\* together are longer than 255 characters.
QualifyIdempotencyKey(c) ==
    IF <<c.key, c.data>> \in Mentions \cup TooLong THEN c.key ELSE c.key \o EventOf[c.data]

\* Both have a key, and it is stored as the same.
KeysAgree(c, d) ==
    c.key # Nobody /\ d.key # Nobody /\ QualifyIdempotencyKey(c) = QualifyIdempotencyKey(d)

\* Mutant: keys of all tenants.
SameKeyAnywhere(n, c) == Stored(n) /\ KeysAgree(row[n].content, c) /\ row[n].age # "old"

\* findByIdempotencyKey, of the tenant and the last 24 hours.
SameKey(n, c) ==
    /\ Stored(n) /\ row[n].age # "old"
    /\ KeysAgree(row[n].content, c) /\ row[n].content.entity = c.entity

FindByIdempotencyKey(r) ==
    LET found == {n \in Requests : SameKey(n, req[r].content)}
    IN /\ req[r].pc = "key"
       /\ IF found = {} THEN Goto(r, "prepare") ELSE \E n \in found : AnswerDuplicate(r, n)
       /\ UNCHANGED <<row, parentOf, jobs, text>>

\* The template as it is now; the burst check is for requests without a key.
Prepare(r) ==
    /\ req[r].pc = "prepare"
    /\ req' = [req EXCEPT ![r].text = text,
                          ![r].pc = IF req[r].content.key = Nobody THEN "burst" ELSE "insert"]
    /\ UNCHANGED <<row, parentOf, jobs, text>>

\* Mutant: the rendered message is not compared, nor when it was sent.
TwinEver(n, c, t) == Stored(n) /\ row[n].content.entity = c.entity /\ row[n].age = "old"

\* A row holds the text of the first of the channels it was stored with.
InOtherWords(n) == Wording[First[row[n].channels]] # Wording[First[Channels]]

\* findRecentBurstDuplicate, with the text of the first channel asked for.  A row
\* with any key counts.  data::text is the text of a JSONB value, compared with
\* that of JSON.stringify: equal payloads are only found equal if they are
\* written the same way.
Twin(n, c, t) ==
    /\ Stored(n) /\ row[n].age = "fresh"
    /\ row[n].content.entity = c.entity
    /\ row[n].content.data = c.data /\ c.data \in Plain
    /\ row[n].text = t /\ ~InOtherWords(n)

FindRecentBurstDuplicate(r) ==
    LET found == {n \in Requests : Twin(n, req[r].content, req[r].text)}
    IN /\ req[r].pc = "burst"
       /\ IF found = {} THEN Goto(r, "insert") ELSE \E n \in found : AnswerDuplicate(r, n)
       /\ UNCHANGED <<row, parentOf, jobs, text>>

-----------------------------------------------------------------------------
(* The notification *)

\* Mutant: the index has no tenant and key.
KeyTakenNever(c) == FALSE

\* The unique index idx_notifications_tenant_idempotency, of rows of any age.
KeyTaken(c) ==
    \E n \in Requests :
        Stored(n) /\ KeysAgree(row[n].content, c) /\ row[n].content.entity = c.entity

NewRow(r, left) ==
    [status |-> "pending", content |-> req[r].content, text |-> req[r].text,
     channels |-> left, age |-> "fresh"]

\* The channels that reserveForChannels may leave to a request, if not all: those
\* of an owner at its limit are taken, and without an owner there is no limit.
MayBeLeft(c) ==
    IF c.entity = Nobody /\ c.parent = Nobody THEN {Channels} ELSE SUBSET Channels \ {{}}

\* A violation of the index arrives as a DbError without a code, so it is a 500
\* and not the answer of a duplicate.
InsertNotification(r) ==
    /\ req[r].pc = "insert"
    /\ IF KeyTaken(req[r].content)
       THEN Goto(r, "refused") /\ UNCHANGED row
       ELSE /\ Goto(r, "enqueue")
            /\ \E left \in MayBeLeft(req[r].content) : row' = [row EXCEPT ![r] = NewRow(r, left)]
    /\ UNCHANGED <<parentOf, jobs, text>>

\* The answer of the INSERT is lost: executeWithRetry runs it again, and the row
\* that is there violates the primary key.
InsertTwice(r) ==
    /\ req[r].pc = "insert"
    /\ ~KeyTaken(req[r].content)
    /\ \E left \in MayBeLeft(req[r].content) : row' = [row EXCEPT ![r] = NewRow(r, left)]
    /\ Goto(r, "refused")
    /\ UNCHANGED <<parentOf, jobs, text>>

\* enqueueNotification: the channels it got to.
Enqueue(r, got) ==
    /\ req[r].pc = "enqueue"
    /\ got \subseteq row[r].channels
    /\ jobs' = [jobs EXCEPT ![r] = got]
    /\ req' = [req EXCEPT ![r].pc = IF got = row[r].channels THEN "accepted" ELSE "failing",
                          ![r].named = IF got = row[r].channels THEN r ELSE Nobody]
    /\ UNCHANGED <<row, parentOf, text>>

\* UPDATE .. SET status = 'failed', and the 500.
MarkFailed(r) ==
    /\ req[r].pc = "failing"
    /\ row' = [row EXCEPT ![r].status = "failed"]
    /\ Goto(r, "refused")
    /\ UNCHANGED <<parentOf, jobs, text>>

-----------------------------------------------------------------------------
(* Failures and surroundings *)

\* A 400 for a template that lacks variables or an owner, a 429 of the quota, a
\* 500 for a statement that failed without effect, or a crash.
GiveUp(r) ==
    /\ Running(r)
    /\ Goto(r, "refused")
    /\ UNCHANGED <<row, parentOf, jobs, text>>

EditTemplate ==
    /\ text < MaxTexts
    /\ text' = text + 1
    /\ UNCHANGED <<req, row, parentOf, jobs>>

Older(n, from, to) == IF Stored(n) /\ row[n].age \in from THEN [row[n] EXCEPT !.age = to] ELSE row[n]

TenSeconds ==
    /\ \E n \in Requests : Stored(n) /\ row[n].age = "fresh"
    /\ row' = [n \in Requests |-> Older(n, {"fresh"}, "recent")]
    /\ UNCHANGED <<req, parentOf, jobs, text>>

OneDay ==
    /\ \E n \in Requests : Stored(n) /\ row[n].age # "old"
    /\ row' = [n \in Requests |-> Older(n, Age, "old")]
    /\ UNCHANGED <<req, parentOf, jobs, text>>

Step(r) ==
    \/ GuardEntityParent(r) \/ FindByIdempotencyKey(r) \/ Prepare(r)
    \/ FindRecentBurstDuplicate(r) \/ InsertNotification(r) \/ InsertTwice(r)
    \/ (\E got \in SUBSET Channels : Enqueue(r, got)) \/ MarkFailed(r) \/ GiveUp(r)

SubmissionNext ==
    \/ \E r \in Requests, c \in Bodies : Submit(r, c)
    \/ \E r \in Requests : Running(r) /\ Step(r)
    \/ EditTemplate \/ TenSeconds \/ OneDay

SubmissionSpec == SubmissionInit /\ [][SubmissionNext]_submissionVars

-----------------------------------------------------------------------------
(* Properties *)

SubmissionTypeOK ==
    /\ req \in [Requests -> RequestType]
    /\ row \in [Requests -> RowType]
    /\ parentOf \in [Entities -> OrNobody(Parents)]
    /\ jobs \in [Requests -> SUBSET Channels]
    /\ text \in 0 .. MaxTexts

QualifiedKeys == {QualifyIdempotencyKey(c) : c \in {d \in Content : d.key # Nobody}}

TheIntake == INSTANCE Intake WITH
    Notifs <- Requests,
    Keys <- QualifiedKeys,
    holders <- {[tenant |-> row[n].content.entity,
                 key |-> QualifyIdempotencyKey(row[n].content),
                 notif |-> n] : n \in {m \in Rows : row[m].content.key # Nobody}},
    stored <- Rows,
    sent <- {n \in Requests : jobs[n] # {}}

\* However many requests with one key run at once, in whatever order they check
\* and insert, the key of a tenant stands for one notification for good, and that
\* one is sent at most once.
ImplementsIntake == TheIntake!Spec

\* The event id was not added to the caller's key.
KeptAsIs(c) == QualifyIdempotencyKey(c) = c.key

\* Key k is key l, a colon and more.
Continues(k, l) == Len(l) < Len(k) /\ \A i \in DOMAIN l : k[i] = l[i]

\* Two contents with the same key whose events differ: the events were left out
\* for both, or one caller's key goes on after a colon where the other's ends.
KeysHideEvents(c, d) ==
    /\ c.key # Nobody /\ d.key # Nobody
    /\ \/ c.key = d.key /\ KeptAsIs(c) /\ KeptAsIs(d)
       \/ Continues(c.key, d.key) \/ Continues(d.key, c.key)

\* An answer names a notification of the caller's own tenant, and of its own event
\* but for the two ways in which keys hide events, that was sent on all channels
\* the quota left it, unless the request that stored it failed over it or is not
\* done.
AnswersNameTheirOwn ==
    \A r \in Requests :
        Begun(r) /\ req[r].pc \in {"accepted", "duplicate"} =>
            LET n == req[r].named
            IN /\ Stored(n)
               /\ row[n].content.entity = req[r].content.entity
               /\ \/ EventOf[row[n].content.data] = EventOf[req[r].content.data]
                  \/ KeysHideEvents(row[n].content, req[r].content)
               /\ \/ jobs[n] = row[n].channels
                  \/ req[n].pc \in {"enqueue", "failing", "refused"}

\* Contradicted: notify.js:278 "different classes or sessions for the same student
\* on the same day never collide".
EventsNeverCollide ==
    \A r \in Requests :
        Begun(r) /\ req[r].pc = "duplicate" =>
            EventOf[row[req[r].named].content.data] = EventOf[req[r].content.data]

\* The same to the same entity, apart from the key of the earlier one.
Alike(r, n) ==
    /\ req[r].content.entity = row[n].content.entity
    /\ req[r].content.data = row[n].content.data
    /\ req[r].text = row[n].text

\* Without a key, the same message is only stored twice within ten seconds if the
\* second request began before the first was stored, or if it has a payload, or if
\* the quota took the first channel from the earlier one, which was stored with
\* the text of another.
FreshTwinsRaced ==
    \A r, n \in Requests :
        r # n /\ Stored(r) /\ Stored(n) /\ row[n].age = "fresh" /\ row[r].content.key = Nobody
        /\ n \in req[r].seen /\ Alike(r, n)
        => row[r].content.data \notin Plain \/ InOtherWords(n)

\* Contradicted: notify.js:346 "Rapid duplicate submissions within seconds for
\* the EXACT same class -> Deduplicated!", where the class is in the payload.
FreshTwinsAreCollapsed ==
    \A r, n \in Requests :
        r # n /\ Stored(r) /\ Stored(n) /\ row[n].age = "fresh" /\ row[r].content.key = Nobody
        /\ n \in req[r].seen => ~Alike(r, n)

\* The notifications of an entity that name a parent all name the same one.
OneParentPerEntity ==
    \A m, n \in Rows :
        /\ row[m].content.entity = row[n].content.entity /\ row[m].content.entity # Nobody
        /\ row[m].content.parent # Nobody /\ row[n].content.parent # Nobody
        => row[m].content.parent = row[n].content.parent
=============================================================================
