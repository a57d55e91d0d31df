----------------------------- MODULE Api_proofs -----------------------------
(*****************************************************************************)
(* Proofs about what clients ask of the API: notifications submitted once,   *)
(* one-time codes used once, and the templates offered for a notification.   *)
(* They hold for any clients, keys, tenants, conditions and bounds.          *)
(*****************************************************************************)
EXTENDS Submission, Accounts, Templates, FiniteSetTheorems, SequenceTheorems, TLAPS

-----------------------------------------------------------------------------
(***************************************************************************)
(* Proofs about Submission, for any requests, tenants, keys and payloads.  *)
(* An action moves one handler, or lets rows age; what it does to the other *)
(* handlers and rows is said once, and each theorem's invariant then needs  *)
(* to be looked at only where the handler that moved is.                    *)
(***************************************************************************)

Handler == [pc : {"guard", "key", "prepare", "burst", "insert", "enqueue", "failing",
                  "accepted", "duplicate", "refused"},
            content : Content, text : 0 .. MaxTexts, named : OrNobody(Requests),
            seen : SUBSET Requests]
FullRow == [status : {"pending", "failed"}, content : Content, text : 0 .. MaxTexts,
            channels : SUBSET Channels \ {{}}, age : Age]

Before == {"guard", "key", "prepare", "burst", "insert"}

\* What a row and the queues owe to the handler of their request.
RowIsTheirs(r) ==
    /\ Stored(r) => Begun(r) /\ req[r].pc \notin Before /\ req[r].pc # "duplicate"
    /\ Stored(r) => row[r].content = req[r].content /\ row[r].text = req[r].text
    /\ Begun(r) /\ req[r].pc \in {"enqueue", "failing", "accepted"} => Stored(r)
    /\ ~Begun(r) \/ req[r].pc \in Before \cup {"enqueue", "duplicate"} => jobs[r] = {}
    /\ jobs[r] # {} => Stored(r)
    /\ Begun(r) /\ req[r].pc = "accepted" => req[r].named = r /\ jobs[r] = row[r].channels

RowsAreTheirs == \A r \in Requests : RowIsTheirs(r)

BaseInv == SubmissionTypeOK /\ RowsAreTheirs

\* A parent that a notification names, stored or on its way, is the one in the map.
Concerned(r) == (Begun(r) /\ req[r].pc \in {"key", "prepare", "burst", "insert"}) \/ Stored(r)
ParentIsMapped(r) ==
    Concerned(r) => \/ Nobody \in {req[r].content.entity, req[r].content.parent}
                    \/ parentOf[req[r].content.entity] = req[r].content.parent
ParentsAreMapped == \A r \in Requests : ParentIsMapped(r)

\* What a request saw when it began was stored, and is no twin once it has looked.
Looked(r) == req[r].pc = "insert" \/ Stored(r)
TwinRuledOut(r, n) ==
    Begun(r) /\ n \in req[r].seen =>
        /\ Stored(n) /\ r # n
        /\ Looked(r) /\ req[r].content.key = Nobody /\ row[n].age = "fresh" /\ Alike(r, n)
              => req[r].content.data \notin Plain \/ InOtherWords(n)
TwinsRuledOut == \A r, n \in Requests : TwinRuledOut(r, n)

-----------------------------------------------------------------------------
(* One handler moves *)

\* Request r moves on: its body and what it saw stay, and so do the others.
Moved(r) ==
    /\ req' \in [Requests -> RequestType]
    /\ req'[r] \in Handler
    /\ req'[r].content = req[r].content /\ req'[r].seen = req[r].seen
    /\ \A x \in Requests \ {r} : req'[x] = req[x]

LEMMA HandlersAreRequests == Handler \subseteq RequestType
BY DEF Handler, RequestType

LEMMA HandlerOf ==
    ASSUME SubmissionTypeOK, NEW r \in Requests, Begun(r)
    PROVE  req[r] \in Handler
BY DEF SubmissionTypeOK, RequestType, Begun, Handler

LEMMA NotBegunIsNoHandler == NoRequest \notin Handler
BY DEF NoRequest, Handler

LEMMA RowOf ==
    ASSUME SubmissionTypeOK, NEW n \in Requests, Stored(n)
    PROVE  row[n] \in FullRow
BY DEF SubmissionTypeOK, RowType, Stored, FullRow

LEMMA NoRowIsNotFull == NoRow \notin FullRow /\ FullRow \subseteq RowType
BY DEF NoRow, FullRow, RowType

\* A handler whose fields other than its statement, message and answer are kept.
LEMMA ReplacedMoves ==
    ASSUME SubmissionTypeOK, NEW r \in Requests, Begun(r), NEW q \in Handler,
           q.content = req[r].content, q.seen = req[r].seen,
           req' = [req EXCEPT ![r] = q]
    PROVE  Moved(r) /\ req'[r] = q
<1>1. req \in [Requests -> RequestType]
  BY DEF SubmissionTypeOK
<1>2. q \in RequestType
  BY HandlersAreRequests
<1>3. req' \in [Requests -> RequestType] /\ req'[r] = q /\ \A x \in Requests \ {r} : req'[x] = req[x]
  BY <1>1, <1>2
<1>4. QED
  BY <1>3 DEF Moved

Statements == {"guard", "key", "prepare", "burst", "insert", "enqueue", "failing",
               "accepted", "duplicate", "refused"}

LEMMA GotoMoves ==
    ASSUME SubmissionTypeOK, NEW r \in Requests, Begun(r), NEW pc \in Statements, Goto(r, pc)
    PROVE  /\ Moved(r)
           /\ req'[r].pc = pc /\ req'[r].text = req[r].text /\ req'[r].named = req[r].named
<1> DEFINE q == [req[r] EXCEPT !.pc = pc]
<1>1. req[r] \in Handler
  BY HandlerOf
<1>2. /\ q \in Handler /\ q.content = req[r].content /\ q.seen = req[r].seen
      /\ q.pc = pc /\ q.text = req[r].text /\ q.named = req[r].named
  BY <1>1 DEF Handler, Statements
<1>3. req' = [req EXCEPT ![r] = q]
  BY DEF Goto
<1> HIDE DEF q
<1>4. QED
  BY <1>2, <1>3, ReplacedMoves

LEMMA AnswerMoves ==
    ASSUME SubmissionTypeOK, NEW r \in Requests, Begun(r), NEW n \in OrNobody(Requests),
           NEW pc \in Statements, req' = [req EXCEPT ![r].pc = pc, ![r].named = n]
    PROVE  /\ Moved(r)
           /\ req'[r].pc = pc /\ req'[r].text = req[r].text /\ req'[r].named = n
<1> DEFINE q == [req[r] EXCEPT !.pc = pc, !.named = n]
<1>1. req[r] \in Handler
  BY HandlerOf
<1>2. /\ q \in Handler /\ q.content = req[r].content /\ q.seen = req[r].seen
      /\ q.pc = pc /\ q.text = req[r].text /\ q.named = n
  BY <1>1 DEF Handler, Statements
<1>3. req' = [req EXCEPT ![r] = q]
  BY DEF SubmissionTypeOK
<1> HIDE DEF q
<1>4. QED
  BY <1>2, <1>3, ReplacedMoves

LEMMA PrepareMoves ==
    ASSUME SubmissionTypeOK, NEW r \in Requests, Begun(r), Prepare(r)
    PROVE  /\ Moved(r)
           /\ req'[r].pc = IF req[r].content.key = Nobody THEN "burst" ELSE "insert"
           /\ req'[r].text = text /\ req'[r].named = req[r].named
<1> DEFINE pc == IF req[r].content.key = Nobody THEN "burst" ELSE "insert"
           q == [req[r] EXCEPT !.text = text, !.pc = pc]
<1>1. req[r] \in Handler
  BY HandlerOf
<1>2. text \in 0 .. MaxTexts /\ pc \in Statements
  BY DEF SubmissionTypeOK, Statements
<1> HIDE DEF pc
<1>3. /\ q \in Handler /\ q.content = req[r].content /\ q.seen = req[r].seen
      /\ q.pc = pc /\ q.text = text /\ q.named = req[r].named
  BY <1>1, <1>2 DEF Handler, Statements
<1>4. req' = [req EXCEPT ![r] = q]
  BY DEF Prepare, SubmissionTypeOK, pc
<1> HIDE DEF q
<1>5. QED
  BY <1>3, <1>4, ReplacedMoves DEF pc

-----------------------------------------------------------------------------
(* The statements, by what they do to the tables *)

\* A statement before the INSERT, or one that gives up.
Looks(r) ==
    /\ Moved(r) /\ UNCHANGED <<row, jobs>>
    /\ req[r].pc = "prepare" \/ req'[r].text = req[r].text
    /\ \/ req'[r].pc = "refused"
       \/ req[r].pc = "guard" /\ req'[r].pc = "key"
       \/ req[r].pc = "key" /\ req'[r].pc = "prepare"
       \/ req[r].pc = "prepare" /\ req'[r].pc \in {"burst", "insert"}
          /\ (req'[r].pc = "insert" => req[r].content.key # Nobody)
       \/ req[r].pc = "burst" /\ req'[r].pc = "insert"
          /\ \A n \in Requests : ~Twin(n, req[r].content, req[r].text)
       \/ req'[r].pc = "duplicate" /\ \E n \in Requests :
             /\ req'[r].named = n
             /\ \/ req[r].pc = "key" /\ SameKey(n, req[r].content)
                \/ req[r].pc = "burst" /\ Twin(n, req[r].content, req[r].text)

\* The INSERT, once or twice.
Inserts(r) ==
    /\ Moved(r) /\ UNCHANGED jobs
    /\ req[r].pc = "insert" /\ req'[r].pc \in {"enqueue", "refused"}
    /\ req'[r].text = req[r].text
    /\ ~KeyTaken(req[r].content)
    /\ \E left \in SUBSET Channels \ {{}} : row' = [row EXCEPT ![r] = NewRow(r, left)]

\* The jobs.
Enqueues(r) ==
    /\ Moved(r) /\ UNCHANGED row
    /\ req[r].pc = "enqueue" /\ req'[r].pc \in {"accepted", "failing"}
    /\ req'[r].text = req[r].text
    /\ jobs' \in [Requests -> SUBSET Channels]
    /\ \A x \in Requests \ {r} : jobs'[x] = jobs[x]
    /\ req'[r].pc = "accepted" => req'[r].named = r /\ jobs'[r] = row[r].channels

\* The UPDATE after a failure.
Fails(r) ==
    /\ Moved(r) /\ UNCHANGED jobs
    /\ req[r].pc = "failing" /\ req'[r].pc = "refused"
    /\ req'[r].text = req[r].text
    /\ row' = [row EXCEPT ![r].status = "failed"]

\* Only the guard maps an entity to a parent, and it refuses another one.
Maps(r) ==
    /\ parentOf' \in [Entities -> OrNobody(Parents)]
    /\ \A e \in Entities : parentOf[e] # Nobody => parentOf'[e] = parentOf[e]
    /\ req[r].pc = "guard" /\ req'[r].pc = "key" =>
          \/ Nobody \in {req[r].content.entity, req[r].content.parent}
          \/ parentOf'[req[r].content.entity] = req[r].content.parent

LEMMA GuardLooks ==
    ASSUME SubmissionTypeOK, NEW r \in Requests, Begun(r), GuardEntityParent(r)
    PROVE  Looks(r) /\ Maps(r) /\ UNCHANGED text
<1> DEFINE e == req[r].content.entity
           p == req[r].content.parent
<1>1. e \in OrNobody(Entities) /\ p \in OrNobody(Parents)
  BY HandlerOf DEF Handler, Content, Tenants
<1>2. parentOf \in [Entities -> OrNobody(Parents)]
  BY DEF SubmissionTypeOK
<1>3. req[r].pc = "guard" /\ UNCHANGED <<row, jobs, text>>
  BY DEF GuardEntityParent
<1>4. CASE e = Nobody \/ p = Nobody
  <2>1. Goto(r, "key") /\ UNCHANGED parentOf
    BY <1>4 DEF GuardEntityParent
  <2>2. Moved(r) /\ req'[r].pc = "key" /\ req'[r].text = req[r].text
    BY <2>1, GotoMoves DEF Statements
  <2>3. QED
    BY <1>2, <1>3, <1>4, <2>1, <2>2 DEF Looks, Maps
<1>5. CASE e # Nobody /\ p # Nobody /\ parentOf[e] \in {Nobody, p}
  <2>1. Goto(r, "key") /\ parentOf' = [parentOf EXCEPT ![e] = p]
    BY <1>5 DEF GuardEntityParent
  <2>2. Moved(r) /\ req'[r].pc = "key" /\ req'[r].text = req[r].text
    BY <2>1, GotoMoves DEF Statements
  <2>3. e \in Entities /\ p \in Parents
    BY <1>1, <1>5 DEF OrNobody
  <2>4. /\ parentOf' \in [Entities -> OrNobody(Parents)] /\ parentOf'[e] = p
        /\ \A x \in Entities : parentOf[x] # Nobody => parentOf'[x] = parentOf[x]
    BY <1>1, <1>2, <1>5, <2>1, <2>3
  <2>5. QED
    BY <1>3, <2>2, <2>4 DEF Looks, Maps
<1>6. CASE e # Nobody /\ p # Nobody /\ parentOf[e] \notin {Nobody, p}
  <2>1. Goto(r, "refused") /\ UNCHANGED parentOf
    BY <1>6 DEF GuardEntityParent
  <2>2. Moved(r) /\ req'[r].pc = "refused" /\ req'[r].text = req[r].text
    BY <2>1, GotoMoves DEF Statements
  <2>3. QED
    BY <1>2, <1>3, <2>1, <2>2 DEF Looks, Maps
<1>7. QED
  BY <1>4, <1>5, <1>6

LEMMA KeyLooks ==
    ASSUME SubmissionTypeOK, NEW r \in Requests, Begun(r), FindByIdempotencyKey(r)
    PROVE  Looks(r) /\ UNCHANGED <<parentOf, text>>
<1>1. req[r].pc = "key" /\ UNCHANGED <<row, jobs, parentOf, text>>
  BY DEF FindByIdempotencyKey
<1>2. CASE Goto(r, "prepare")
  BY <1>1, <1>2, GotoMoves DEF Looks, Statements
<1>3. CASE \E n \in Requests : SameKey(n, req[r].content) /\ AnswerDuplicate(r, n)
  <2>1. PICK n \in Requests : SameKey(n, req[r].content) /\ AnswerDuplicate(r, n)
    BY <1>3
  <2>2. Moved(r) /\ req'[r].pc = "duplicate" /\ req'[r].text = req[r].text /\ req'[r].named = n
    BY <2>1, AnswerMoves DEF AnswerDuplicate, Statements, OrNobody
  <2>3. QED
    BY <1>1, <2>1, <2>2 DEF Looks
<1>4. QED
  BY <1>2, <1>3 DEF FindByIdempotencyKey

LEMMA PrepareLooks ==
    ASSUME SubmissionTypeOK, NEW r \in Requests, Begun(r), Prepare(r)
    PROVE  Looks(r) /\ UNCHANGED <<parentOf, text>>
<1>1. req[r].pc = "prepare" /\ UNCHANGED <<row, jobs, parentOf, text>>
  BY DEF Prepare
<1>2. QED
  BY <1>1, PrepareMoves DEF Looks

LEMMA BurstLooks ==
    ASSUME SubmissionTypeOK, NEW r \in Requests, Begun(r), FindRecentBurstDuplicate(r)
    PROVE  Looks(r) /\ UNCHANGED <<parentOf, text>>
<1>1. req[r].pc = "burst" /\ UNCHANGED <<row, jobs, parentOf, text>>
  BY DEF FindRecentBurstDuplicate
<1>2. CASE Goto(r, "insert") /\ \A n \in Requests : ~Twin(n, req[r].content, req[r].text)
  BY <1>1, <1>2, GotoMoves DEF Looks, Statements
<1>3. CASE \E n \in Requests : Twin(n, req[r].content, req[r].text) /\ AnswerDuplicate(r, n)
  <2>1. PICK n \in Requests : Twin(n, req[r].content, req[r].text) /\ AnswerDuplicate(r, n)
    BY <1>3
  <2>2. Moved(r) /\ req'[r].pc = "duplicate" /\ req'[r].text = req[r].text /\ req'[r].named = n
    BY <2>1, AnswerMoves DEF AnswerDuplicate, Statements, OrNobody
  <2>3. QED
    BY <1>1, <2>1, <2>2 DEF Looks
<1>4. QED
  BY <1>2, <1>3 DEF FindRecentBurstDuplicate

LEMMA GiveUpLooks ==
    ASSUME SubmissionTypeOK, NEW r \in Requests, Begun(r), GiveUp(r)
    PROVE  Looks(r) /\ UNCHANGED <<parentOf, text>>
<1>1. Goto(r, "refused") /\ UNCHANGED <<row, jobs, parentOf, text>>
  BY DEF GiveUp
<1>2. QED
  BY <1>1, GotoMoves DEF Looks, Statements

LEMMA InsertLooksOrInserts ==
    ASSUME SubmissionTypeOK, NEW r \in Requests, Begun(r),
           InsertNotification(r) \/ InsertTwice(r)
    PROVE  (Looks(r) \/ Inserts(r)) /\ UNCHANGED <<parentOf, text>>
<1>1. req[r].pc = "insert" /\ UNCHANGED <<jobs, parentOf, text>>
  BY DEF InsertNotification, InsertTwice
<1>2. CASE Goto(r, "refused") /\ UNCHANGED row
  BY <1>1, <1>2, GotoMoves DEF Looks, Statements
<1>3. CASE /\ ~KeyTaken(req[r].content)
           /\ \E left \in MayBeLeft(req[r].content) : row' = [row EXCEPT ![r] = NewRow(r, left)]
           /\ Goto(r, "enqueue") \/ Goto(r, "refused")
  <2>1. MayBeLeft(req[r].content) \subseteq SUBSET Channels \ {{}}
    BY SubmissionAssumption DEF MayBeLeft
  <2>2. \E left \in SUBSET Channels \ {{}} : row' = [row EXCEPT ![r] = NewRow(r, left)]
    BY <1>3, <2>1
  <2>3. QED
    BY <1>1, <1>3, <2>2, GotoMoves DEF Inserts, Statements
<1>4. QED
  BY <1>2, <1>3 DEF InsertNotification, InsertTwice

LEMMA EnqueueEnqueues ==
    ASSUME SubmissionTypeOK, NEW r \in Requests, Begun(r),
           NEW got \in SUBSET Channels, Enqueue(r, got)
    PROVE  Enqueues(r) /\ UNCHANGED <<parentOf, text>>
<1>1. /\ req[r].pc = "enqueue" /\ UNCHANGED <<row, parentOf, text>>
      /\ jobs' = [jobs EXCEPT ![r] = got]
  BY DEF Enqueue
<1>2. jobs \in [Requests -> SUBSET Channels]
  BY DEF SubmissionTypeOK
<1>3. /\ jobs' \in [Requests -> SUBSET Channels] /\ jobs'[r] = got
      /\ \A x \in Requests \ {r} : jobs'[x] = jobs[x]
  BY <1>1, <1>2
<1>4. CASE got = row[r].channels
  <2>1. req' = [req EXCEPT ![r].pc = "accepted", ![r].named = r]
    BY <1>4 DEF Enqueue
  <2>2. Moved(r) /\ req'[r].pc = "accepted" /\ req'[r].text = req[r].text /\ req'[r].named = r
    BY <2>1, AnswerMoves DEF Statements, OrNobody
  <2>3. QED
    BY <1>1, <1>3, <1>4, <2>2 DEF Enqueues
<1>5. CASE got # row[r].channels
  <2>1. req' = [req EXCEPT ![r].pc = "failing", ![r].named = Nobody]
    BY <1>5 DEF Enqueue
  <2>2. Moved(r) /\ req'[r].pc = "failing" /\ req'[r].text = req[r].text
    BY <2>1, AnswerMoves DEF Statements, OrNobody
  <2>3. QED
    BY <1>1, <1>3, <2>2 DEF Enqueues
<1>6. QED
  BY <1>4, <1>5

LEMMA MarkFailedFails ==
    ASSUME SubmissionTypeOK, NEW r \in Requests, Begun(r), MarkFailed(r)
    PROVE  Fails(r) /\ UNCHANGED <<parentOf, text>>
<1>1. /\ req[r].pc = "failing" /\ Goto(r, "refused") /\ UNCHANGED <<jobs, parentOf, text>>
      /\ row' = [row EXCEPT ![r].status = "failed"]
  BY DEF MarkFailed
<1>2. QED
  BY <1>1, GotoMoves DEF Fails, Statements

\* Every statement of a handler is one of these.
LEMMA StepIs ==
    ASSUME SubmissionTypeOK, NEW r \in Requests, Begun(r), Step(r)
    PROVE  /\ Looks(r) \/ Inserts(r) \/ Enqueues(r) \/ Fails(r)
           /\ Maps(r) /\ UNCHANGED text
<1>1. CASE GuardEntityParent(r)
  BY <1>1, GuardLooks
<1>2. parentOf \in [Entities -> OrNobody(Parents)]
  BY DEF SubmissionTypeOK
<1>3. CASE FindByIdempotencyKey(r)
  BY <1>2, <1>3, KeyLooks DEF Maps, FindByIdempotencyKey
<1>4. CASE Prepare(r)
  BY <1>2, <1>4, PrepareLooks DEF Maps, Prepare
<1>5. CASE FindRecentBurstDuplicate(r)
  BY <1>2, <1>5, BurstLooks DEF Maps, FindRecentBurstDuplicate
<1>6. CASE InsertNotification(r) \/ InsertTwice(r)
  BY <1>2, <1>6, InsertLooksOrInserts DEF Maps, InsertNotification, InsertTwice
<1>7. CASE \E got \in SUBSET Channels : Enqueue(r, got)
  BY <1>2, <1>7, EnqueueEnqueues DEF Maps, Enqueues
<1>8. CASE MarkFailed(r)
  BY <1>2, <1>8, MarkFailedFails DEF Maps, MarkFailed
<1>9. CASE GiveUp(r)
  <2>1. req'[r].pc = "refused"
    BY <1>9, GotoMoves DEF GiveUp, Statements
  <2>2. QED
    BY <1>2, <1>9, <2>1, GiveUpLooks DEF Maps
<1>10. QED
  BY <1>1, <1>3, <1>4, <1>5, <1>6, <1>7, <1>8, <1>9 DEF Step

-----------------------------------------------------------------------------
(* The notifications table *)

\* No row appears, goes, or changes but for its status and age, and none is fresh again.
SameRows ==
    /\ row' \in [Requests -> RowType]
    /\ \A n \in Requests : (row'[n] # NoRow) <=> (row[n] # NoRow)
    /\ \A n \in Requests : row[n] # NoRow =>
          /\ row'[n].content = row[n].content /\ row'[n].text = row[n].text
          /\ row'[n].channels = row[n].channels
          /\ row'[n].age = "fresh" => row[n].age = "fresh"

LEMMA SameRowsWhenUnchanged ==
    ASSUME SubmissionTypeOK, UNCHANGED row
    PROVE  SameRows
BY DEF SubmissionTypeOK, SameRows

\* A row that is replaced by one with its content and text.
LEMMA SameRowsWhenReplaced ==
    ASSUME SubmissionTypeOK, NEW r \in Requests, Stored(r), NEW w \in FullRow,
           w.content = row[r].content, w.text = row[r].text, w.channels = row[r].channels,
           w.age = row[r].age,
           row' = [row EXCEPT ![r] = w]
    PROVE  SameRows
<1>1. row \in [Requests -> RowType]
  BY DEF SubmissionTypeOK
<1>2. w \in RowType /\ w # NoRow
  BY NoRowIsNotFull
<1>3. /\ row' \in [Requests -> RowType] /\ row'[r] = w
      /\ \A n \in Requests \ {r} : row'[n] = row[n]
  BY <1>1, <1>2
<1>4. row[r] # NoRow
  BY DEF Stored
<1>5. QED
  BY <1>2, <1>3, <1>4 DEF SameRows

LEMMA FailsKeepsRows ==
    ASSUME SubmissionTypeOK, NEW r \in Requests, Stored(r), Fails(r)
    PROVE  SameRows
<1> DEFINE w == [row[r] EXCEPT !.status = "failed"]
<1>1. row[r] \in FullRow
  BY RowOf
<1>2. /\ w \in FullRow /\ w.content = row[r].content
      /\ w.text = row[r].text /\ w.channels = row[r].channels /\ w.age = row[r].age
  BY <1>1 DEF FullRow
<1>3. row' = [row EXCEPT ![r] = w]
  BY DEF Fails
<1> HIDE DEF w
<1>4. QED
  BY <1>2, <1>3, SameRowsWhenReplaced

LEMMA OlderRow ==
    ASSUME SubmissionTypeOK, NEW n \in Requests, NEW from \in SUBSET Age,
           NEW to \in {"recent", "old"}
    PROVE  /\ Older(n, from, to) \in RowType
           /\ (Older(n, from, to) # NoRow) <=> (row[n] # NoRow)
           /\ row[n] # NoRow =>
                 /\ Older(n, from, to).content = row[n].content
                 /\ Older(n, from, to).text = row[n].text
                 /\ Older(n, from, to).channels = row[n].channels
                 /\ Older(n, from, to).age = "fresh" => row[n].age = "fresh"
<1>1. row[n] \in RowType
  BY DEF SubmissionTypeOK
<1>2. CASE ~(Stored(n) /\ row[n].age \in from)
  BY <1>1, <1>2 DEF Older
<1>3. CASE Stored(n) /\ row[n].age \in from
  <2> DEFINE w == [row[n] EXCEPT !.age = to]
  <2>1. row[n] \in FullRow
    BY <1>3, RowOf
  <2>2. /\ w \in FullRow /\ w.content = row[n].content /\ w.text = row[n].text
        /\ w.channels = row[n].channels /\ w.age # "fresh"
    BY <2>1 DEF FullRow, Age
  <2>3. Older(n, from, to) = w
    BY <1>3 DEF Older
  <2> HIDE DEF w
  <2>4. row[n] # NoRow
    BY <1>3 DEF Stored
  <2>5. QED
    BY <2>2, <2>3, <2>4, NoRowIsNotFull
<1>4. QED
  BY <1>2, <1>3

LEMMA AgingKeepsRows ==
    ASSUME SubmissionTypeOK, TenSeconds \/ OneDay
    PROVE  SameRows
<1>1. {"fresh"} \in SUBSET Age /\ Age \in SUBSET Age
  BY DEF Age
<1>2. CASE TenSeconds
  BY <1>1, <1>2, OlderRow DEF TenSeconds, SameRows
<1>3. CASE OneDay
  BY <1>1, <1>3, OlderRow DEF OneDay, SameRows
<1>4. QED
  BY <1>2, <1>3

LEMMA NewRowIsFull ==
    ASSUME SubmissionTypeOK, NEW r \in Requests, Begun(r), NEW left \in SUBSET Channels \ {{}}
    PROVE  /\ NewRow(r, left) \in FullRow /\ NewRow(r, left).content = req[r].content
           /\ NewRow(r, left).text = req[r].text /\ NewRow(r, left).age = "fresh"
<1>1. req[r] \in Handler
  BY HandlerOf
<1>2. QED
  BY <1>1 DEF NewRow, Handler, FullRow, Age

\* The row an INSERT leaves, and the others.
LEMMA InsertsARow ==
    ASSUME SubmissionTypeOK, NEW r \in Requests, Begun(r), Inserts(r)
    PROVE  /\ row' \in [Requests -> RowType] /\ row'[r] # NoRow
           /\ row'[r].content = req[r].content /\ row'[r].text = req[r].text
           /\ row'[r].age = "fresh"
           /\ \A n \in Requests \ {r} : row'[n] = row[n]
<1> PICK left \in SUBSET Channels \ {{}} : row' = [row EXCEPT ![r] = NewRow(r, left)]
  BY DEF Inserts
<1> DEFINE w == NewRow(r, left)
<1>1. /\ w \in FullRow /\ w.content = req[r].content /\ w.text = req[r].text /\ w.age = "fresh"
  BY NewRowIsFull
<1>2. row' = [row EXCEPT ![r] = w] /\ row \in [Requests -> RowType]
  BY DEF SubmissionTypeOK
<1> HIDE DEF w
<1>3. w \in RowType /\ w # NoRow
  BY <1>1, NoRowIsNotFull
<1>4. QED
  BY <1>1, <1>2, <1>3

-----------------------------------------------------------------------------
(* Types, and what rows and queues owe to their handlers *)

\* A request whose handler does not move keeps what it is owed.
LEMMA OthersStayTheirs ==
    ASSUME NEW x \in Requests, RowIsTheirs(x), req'[x] = req[x], jobs'[x] = jobs[x],
           (row'[x] # NoRow) <=> (row[x] # NoRow),
           row[x] # NoRow => /\ row'[x].content = row[x].content /\ row'[x].text = row[x].text
                             /\ row'[x].channels = row[x].channels
    PROVE  RowIsTheirs(x)'
BY DEF RowIsTheirs, Begun, Stored

LEMMA MovedIsBegun ==
    ASSUME NEW r \in Requests, Moved(r)
    PROVE  Begun(r)' /\ req'[r].pc \in Statements
BY NotBegunIsNoHandler DEF Moved, Begun, Handler, Statements

LEMMA LooksKeepsBase ==
    ASSUME BaseInv, NEW r \in Requests, Running(r), Looks(r)
    PROVE  RowsAreTheirs' /\ SameRows /\ jobs' \in [Requests -> SUBSET Channels]
<1>1. SubmissionTypeOK /\ Begun(r) /\ \A x \in Requests : RowIsTheirs(x)
  BY DEF BaseInv, RowsAreTheirs, Running
<1>2. SameRows /\ UNCHANGED <<row, jobs>> /\ Moved(r)
  BY <1>1, SameRowsWhenUnchanged DEF Looks
<1>3. ASSUME NEW x \in Requests \ {r} PROVE RowIsTheirs(x)'
  BY <1>1, <1>2, OthersStayTheirs DEF Moved
<1>4. RowIsTheirs(r)'
  <2>1. Begun(r)' /\ req'[r].content = req[r].content
    BY <1>2, MovedIsBegun DEF Moved
  <2>2. CASE req'[r].pc = "refused"
    <3>1. Stored(r) => req'[r].text = req[r].text
      BY <1>1, <1>2 DEF Looks, RowIsTheirs, Before
    <3>2. QED
      BY <1>1, <1>2, <2>1, <2>2, <3>1 DEF RowIsTheirs, Stored, Before
  <2>3. CASE req[r].pc \in Before /\ req'[r].pc \in Before \cup {"duplicate"}
    <3>1. row'[r] = NoRow /\ jobs'[r] = {}
      BY <1>1, <1>2, <2>3 DEF RowIsTheirs, Stored
    <3>2. req'[r].pc \notin {"enqueue", "failing", "accepted"}
      BY <2>3 DEF Before
    <3>3. QED
      BY <2>1, <3>1, <3>2 DEF RowIsTheirs, Stored
  <2>4. QED
    BY <2>2, <2>3 DEF Looks, Before
<1>5. QED
  BY <1>1, <1>2, <1>3, <1>4 DEF RowsAreTheirs, SubmissionTypeOK

\* A request that is about to insert has no row yet.
LEMMA InsertsTheFirst ==
    ASSUME BaseInv, NEW r \in Requests, Begun(r), Inserts(r)
    PROVE  row[r] = NoRow /\ jobs[r] = {}
BY DEF BaseInv, RowsAreTheirs, RowIsTheirs, Inserts, Stored, Before

LEMMA InsertsKeepsBase ==
    ASSUME BaseInv, NEW r \in Requests, Running(r), Inserts(r)
    PROVE  RowsAreTheirs' /\ row' \in [Requests -> RowType] /\ jobs' \in [Requests -> SUBSET Channels]
<1>1. SubmissionTypeOK /\ Begun(r) /\ \A x \in Requests : RowIsTheirs(x)
  BY DEF BaseInv, RowsAreTheirs, Running
<1>2. /\ row' \in [Requests -> RowType] /\ row'[r] # NoRow
      /\ row'[r].content = req[r].content /\ row'[r].text = req[r].text
      /\ \A n \in Requests \ {r} : row'[n] = row[n]
  BY <1>1, InsertsARow
<1>3. Moved(r) /\ UNCHANGED jobs /\ req'[r].text = req[r].text
      /\ req'[r].pc \in {"enqueue", "refused"}
  BY DEF Inserts
<1>4. ASSUME NEW x \in Requests \ {r} PROVE RowIsTheirs(x)'
  BY <1>1, <1>2, <1>3, OthersStayTheirs DEF Moved
<1>5. RowIsTheirs(r)'
  <2>1. Begun(r)' /\ req'[r].content = req[r].content
    BY <1>3, MovedIsBegun DEF Moved
  <2>2. jobs'[r] = {}
    BY <1>1, <1>3, InsertsTheFirst
  <2>3. QED
    BY <1>2, <1>3, <2>1, <2>2 DEF RowIsTheirs, Stored, Before
<1>6. QED
  BY <1>1, <1>2, <1>3, <1>4, <1>5 DEF RowsAreTheirs, SubmissionTypeOK

LEMMA EnqueuesKeepsBase ==
    ASSUME BaseInv, NEW r \in Requests, Running(r), Enqueues(r)
    PROVE  RowsAreTheirs' /\ SameRows /\ jobs' \in [Requests -> SUBSET Channels]
<1>1. SubmissionTypeOK /\ Begun(r) /\ \A x \in Requests : RowIsTheirs(x)
  BY DEF BaseInv, RowsAreTheirs, Running
<1>2. SameRows /\ Moved(r) /\ UNCHANGED row
  BY <1>1, SameRowsWhenUnchanged DEF Enqueues
<1>3. ASSUME NEW x \in Requests \ {r} PROVE RowIsTheirs(x)'
  BY <1>1, <1>2, OthersStayTheirs DEF Moved, Enqueues
<1>4. RowIsTheirs(r)'
  <2>1. Begun(r)' /\ req'[r].content = req[r].content
    BY <1>2, MovedIsBegun DEF Moved
  <2>2. row[r] # NoRow
    BY <1>1 DEF Enqueues, RowIsTheirs, Stored
  <2>3. row'[r].content = req'[r].content /\ row'[r].text = req'[r].text
    BY <1>1, <1>2, <2>1, <2>2 DEF RowIsTheirs, Stored, Enqueues
  <2>4. /\ req'[r].pc \in {"accepted", "failing"}
        /\ req'[r].pc = "accepted" => req'[r].named = r /\ jobs'[r] = row'[r].channels
    BY <1>2 DEF Enqueues
  <2>5. row'[r] # NoRow
    BY <1>2, <2>2
  <2>6. QED
    BY <2>1, <2>3, <2>4, <2>5 DEF RowIsTheirs, Stored, Before
<1>5. QED
  BY <1>2, <1>3, <1>4 DEF RowsAreTheirs, Enqueues

LEMMA FailsKeepsBase ==
    ASSUME BaseInv, NEW r \in Requests, Running(r), Fails(r)
    PROVE  RowsAreTheirs' /\ SameRows /\ jobs' \in [Requests -> SUBSET Channels]
<1>1. SubmissionTypeOK /\ Begun(r) /\ \A x \in Requests : RowIsTheirs(x)
  BY DEF BaseInv, RowsAreTheirs, Running
<1>2. Stored(r)
  BY <1>1 DEF Fails, RowIsTheirs
<1>3. SameRows /\ Moved(r) /\ UNCHANGED jobs
  BY <1>1, <1>2, FailsKeepsRows DEF Fails
<1>4. ASSUME NEW x \in Requests \ {r} PROVE RowIsTheirs(x)'
  BY <1>1, <1>3, OthersStayTheirs DEF Moved, SameRows
<1>5. RowIsTheirs(r)'
  <2>1. Begun(r)' /\ req'[r].content = req[r].content
    BY <1>3, MovedIsBegun DEF Moved
  <2>2. row[r] # NoRow /\ row'[r] # NoRow
    BY <1>2, <1>3 DEF Stored, SameRows
  <2>3. row'[r].content = req'[r].content /\ row'[r].text = req'[r].text
    BY <1>1, <1>3, <2>1, <2>2 DEF RowIsTheirs, Stored, Fails, SameRows
  <2>4. QED
    BY <2>1, <2>2, <2>3 DEF RowIsTheirs, Stored, Before, Fails
<1>6. QED
  BY <1>1, <1>3, <1>4, <1>5 DEF RowsAreTheirs, SubmissionTypeOK

\* What a step of a handler leaves.
LEMMA StepKeepsBase ==
    ASSUME BaseInv, NEW r \in Requests, Running(r), Step(r)
    PROVE  BaseInv'
<1>1. SubmissionTypeOK /\ Begun(r)
  BY DEF BaseInv, Running
<1>2. /\ Looks(r) \/ Inserts(r) \/ Enqueues(r) \/ Fails(r)
      /\ Maps(r) /\ UNCHANGED text
  BY <1>1, StepIs
<1>3. Moved(r)
  BY <1>2 DEF Looks, Inserts, Enqueues, Fails
<1>4. /\ RowsAreTheirs' /\ row' \in [Requests -> RowType]
      /\ jobs' \in [Requests -> SUBSET Channels]
  BY <1>2, LooksKeepsBase, InsertsKeepsBase, EnqueuesKeepsBase, FailsKeepsBase DEF SameRows
<1>5. SubmissionTypeOK'
  BY <1>1, <1>2, <1>3, <1>4 DEF SubmissionTypeOK, Maps, Moved
<1>6. QED
  BY <1>4, <1>5 DEF BaseInv

\* A new request is a handler at its first statement.
LEMMA SubmitBegins ==
    ASSUME SubmissionTypeOK, NEW r \in Requests, NEW c \in Bodies, Submit(r, c)
    PROVE  /\ req[r] = NoRequest
           /\ req' \in [Requests -> RequestType] /\ req'[r] \in Handler
           /\ req'[r].pc = "guard" /\ req'[r].content = c /\ req'[r].seen = Rows
           /\ \A x \in Requests \ {r} : req'[x] = req[x]
           /\ UNCHANGED <<row, parentOf, jobs, text>>
<1> DEFINE q == [pc |-> "guard", content |-> c, text |-> 0, named |-> Nobody, seen |-> Rows]
<1>1. Rows \subseteq Requests /\ c \in Content /\ 0 \in 0 .. MaxTexts
  BY BodiesAssumption, SubmissionAssumption DEF Rows
<1>2. q \in Handler /\ q.pc = "guard" /\ q.content = c /\ q.seen = Rows
  BY <1>1 DEF Handler, OrNobody
<1>3. req' = [req EXCEPT ![r] = q] /\ req \in [Requests -> RequestType]
  BY DEF Submit, SubmissionTypeOK
<1> HIDE DEF q
<1>4. q \in RequestType
  BY <1>2, HandlersAreRequests
<1>5. req' \in [Requests -> RequestType] /\ req'[r] = q /\ \A x \in Requests \ {r} : req'[x] = req[x]
  BY <1>3, <1>4
<1>6. QED
  BY <1>2, <1>5 DEF Submit, Begun

LEMMA SubmitKeepsBase ==
    ASSUME BaseInv, NEW r \in Requests, NEW c \in Bodies, Submit(r, c)
    PROVE  BaseInv'
<1>1. SubmissionTypeOK /\ \A x \in Requests : RowIsTheirs(x)
  BY DEF BaseInv, RowsAreTheirs
<1>2. /\ req[r] = NoRequest
      /\ req' \in [Requests -> RequestType] /\ req'[r] \in Handler
      /\ req'[r].pc = "guard"
      /\ \A x \in Requests \ {r} : req'[x] = req[x]
      /\ UNCHANGED <<row, parentOf, jobs, text>>
  BY <1>1, SubmitBegins
<1>3. ASSUME NEW x \in Requests \ {r} PROVE RowIsTheirs(x)'
  BY <1>1, <1>2, OthersStayTheirs
<1>4. RowIsTheirs(r)'
  BY <1>1, <1>2 DEF RowIsTheirs, Stored, Begun, Before
<1>5. QED
  BY <1>1, <1>2, <1>3, <1>4 DEF BaseInv, RowsAreTheirs, SubmissionTypeOK

LEMMA SurroundingsKeepBase ==
    ASSUME BaseInv, EditTemplate \/ TenSeconds \/ OneDay
    PROVE  BaseInv' /\ SameRows /\ UNCHANGED <<req, parentOf, jobs>>
<1>1. SubmissionTypeOK /\ \A x \in Requests : RowIsTheirs(x)
  BY DEF BaseInv, RowsAreTheirs
<1>2. SameRows /\ UNCHANGED <<req, parentOf, jobs>>
  BY <1>1, SameRowsWhenUnchanged, AgingKeepsRows DEF EditTemplate, TenSeconds, OneDay
<1>3. text' \in 0 .. MaxTexts
  BY <1>1, SubmissionAssumption DEF EditTemplate, TenSeconds, OneDay, SubmissionTypeOK
<1>4. ASSUME NEW x \in Requests PROVE RowIsTheirs(x)'
  BY <1>1, <1>2, OthersStayTheirs DEF SameRows
<1>5. QED
  BY <1>1, <1>2, <1>3, <1>4 DEF BaseInv, RowsAreTheirs, SubmissionTypeOK, SameRows

LEMMA InitBase == SubmissionInit => BaseInv
<1> SUFFICES ASSUME SubmissionInit PROVE BaseInv
  OBVIOUS
<1>1. NoRequest \in RequestType /\ NoRow \in RowType
  BY DEF RequestType, RowType
<1>2. SubmissionTypeOK
  BY <1>1, SubmissionAssumption DEF SubmissionInit, SubmissionTypeOK, OrNobody
<1>3. RowsAreTheirs
  BY DEF SubmissionInit, RowsAreTheirs, RowIsTheirs, Stored, Begun
<1>4. QED
  BY <1>2, <1>3 DEF BaseInv

LEMMA StutterKeepsBase ==
    ASSUME BaseInv, UNCHANGED submissionVars
    PROVE  BaseInv'
BY DEF BaseInv, SubmissionTypeOK, RowsAreTheirs, RowIsTheirs, Stored, Begun, submissionVars

LEMMA NextKeepsBase == BaseInv /\ [SubmissionNext]_submissionVars => BaseInv'
BY StepKeepsBase, SubmitKeepsBase, SurroundingsKeepBase, StutterKeepsBase DEF SubmissionNext

THEOREM BaseAlways == SubmissionSpec => []BaseInv
<1>1. SubmissionInit => BaseInv
  BY InitBase
<1>2. BaseInv /\ [SubmissionNext]_submissionVars => BaseInv'
  BY NextKeepsBase
<1>3. QED
  BY <1>1, <1>2, PTL DEF SubmissionSpec

\* Whatever the interleaving of requests and failures, the tables hold rows,
\* requests and jobs of the right shape.
THEOREM SubmissionTypeOKAlways == SubmissionSpec => []SubmissionTypeOK
<1>1. BaseInv => SubmissionTypeOK
  BY DEF BaseInv
<1>2. QED
  BY <1>1, BaseAlways, PTL

-----------------------------------------------------------------------------
(* What every step keeps *)

\* A row that is there stays, with what it was stored with, and is not fresh again.
KeptRow(n) ==
    row[n] # NoRow =>
        /\ row'[n] # NoRow
        /\ row'[n].content = row[n].content /\ row'[n].text = row[n].text
        /\ row'[n].channels = row[n].channels
        /\ row'[n].age = "fresh" => row[n].age = "fresh"

LEMMA SameRowsAreKept ==
    ASSUME SameRows, NEW n \in Requests
    PROVE  KeptRow(n)
BY DEF SameRows, KeptRow

\* Only the INSERT of a handler adds a row, its own, and no row is lost.
LEMMA StepRows ==
    ASSUME BaseInv, NEW r \in Requests, Running(r), Step(r)
    PROVE  /\ \A n \in Requests : KeptRow(n)
           /\ \A n \in Requests \ {r} : (row'[n] # NoRow) <=> (row[n] # NoRow)
           /\ row'[r] # NoRow => row[r] # NoRow \/ req[r].pc = "insert"
           /\ Moved(r) /\ Maps(r)
<1>1. SubmissionTypeOK /\ Begun(r)
  BY DEF BaseInv, Running
<1>2. (Looks(r) \/ Inserts(r) \/ Enqueues(r) \/ Fails(r)) /\ Maps(r)
  BY <1>1, StepIs
<1>3. Moved(r)
  BY <1>2 DEF Looks, Inserts, Enqueues, Fails
<1>4. CASE SameRows
  BY <1>2, <1>3, <1>4, SameRowsAreKept DEF SameRows
<1>5. CASE Inserts(r)
  <2>1. row[r] = NoRow /\ req[r].pc = "insert"
    BY <1>1, <1>5, InsertsTheFirst DEF Inserts
  <2>2. \A n \in Requests \ {r} : row'[n] = row[n]
    BY <1>1, <1>5, InsertsARow
  <2>3. QED
    BY <1>2, <1>3, <2>1, <2>2 DEF KeptRow
<1>6. QED
  BY <1>2, <1>4, <1>5, LooksKeepsBase, EnqueuesKeepsBase, FailsKeepsBase

-----------------------------------------------------------------------------
(* Parents *)

LEMMA MappedStays ==
    ASSUME BaseInv, NEW x \in Requests, ParentIsMapped(x), Concerned(x),
           req'[x].content = req[x].content,
           \A e \in Entities : parentOf[e] # Nobody => parentOf'[e] = parentOf[e]
    PROVE  ParentIsMapped(x)'
<1>1. Begun(x)
  BY DEF Concerned, BaseInv, RowsAreTheirs, RowIsTheirs
<1>2. req[x].content.entity \in OrNobody(Entities)
  BY <1>1, HandlerOf DEF BaseInv, Handler, Content, Tenants
<1>3. QED
  BY <1>2 DEF ParentIsMapped, OrNobody

LEMMA StepKeepsParents ==
    ASSUME BaseInv, ParentsAreMapped, NEW r \in Requests, Running(r), Step(r)
    PROVE  ParentsAreMapped'
<1>1. /\ \A n \in Requests \ {r} : (row'[n] # NoRow) <=> (row[n] # NoRow)
      /\ row'[r] # NoRow => row[r] # NoRow \/ req[r].pc = "insert"
      /\ Moved(r) /\ Maps(r)
  BY StepRows
<1>2. \A e \in Entities : parentOf[e] # Nobody => parentOf'[e] = parentOf[e]
  BY <1>1 DEF Maps
<1>3. ASSUME NEW x \in Requests \ {r} PROVE ParentIsMapped(x)'
  <2>1. req'[x] = req[x] /\ ParentIsMapped(x)
    BY <1>1 DEF Moved, ParentsAreMapped
  <2>2. Concerned(x)' => Concerned(x)
    BY <1>1, <2>1 DEF Concerned, Begun, Stored
  <2>3. QED
    BY <1>2, <2>1, <2>2, MappedStays DEF ParentIsMapped
<1>4. ParentIsMapped(r)'
  <2>1. req'[r].content = req[r].content /\ ParentIsMapped(r) /\ Begun(r)
    BY <1>1 DEF Moved, ParentsAreMapped, Running
  <2>2. CASE Concerned(r)
    BY <1>2, <2>1, <2>2, MappedStays
  <2>3. CASE req[r].pc = "guard" /\ req'[r].pc = "key"
    BY <1>1, <2>1, <2>3 DEF Maps, ParentIsMapped
  <2>4. CASE ~Concerned(r) /\ ~(req[r].pc = "guard" /\ req'[r].pc = "key")
    <3>1. row'[r] = NoRow
      BY <1>1, <2>1, <2>4 DEF Concerned, Stored
    <3>2. req'[r].pc \notin {"key", "prepare", "burst", "insert"}
      <4>1. Looks(r) \/ Inserts(r) \/ Enqueues(r) \/ Fails(r)
        BY <2>1, StepIs DEF BaseInv
      <4>2. QED
        BY <2>1, <2>4, <4>1 DEF Looks, Inserts, Enqueues, Fails, Concerned
    <3>3. QED
      BY <3>1, <3>2 DEF ParentIsMapped, Concerned, Stored
  <2>5. QED
    BY <2>2, <2>3, <2>4
<1>5. QED
  BY <1>3, <1>4 DEF ParentsAreMapped

LEMMA NextKeepsParents ==
    BaseInv /\ ParentsAreMapped /\ [SubmissionNext]_submissionVars => ParentsAreMapped'
<1> SUFFICES ASSUME BaseInv, ParentsAreMapped, [SubmissionNext]_submissionVars
             PROVE  ParentsAreMapped'
  OBVIOUS
<1>1. ASSUME NEW r \in Requests, Running(r), Step(r) PROVE ParentsAreMapped'
  BY <1>1, StepKeepsParents
<1>2. ASSUME NEW r \in Requests, NEW c \in Bodies, Submit(r, c) PROVE ParentsAreMapped'
  <2>1. /\ req[r] = NoRequest /\ req'[r].pc = "guard"
        /\ \A x \in Requests \ {r} : req'[x] = req[x]
        /\ UNCHANGED <<row, parentOf>>
    BY <1>2, SubmitBegins DEF BaseInv
  <2>2. row[r] = NoRow
    BY <2>1 DEF BaseInv, RowsAreTheirs, RowIsTheirs, Stored, Begun
  <2>3. QED
    BY <2>1, <2>2 DEF ParentsAreMapped, ParentIsMapped, Concerned, Begun, Stored
<1>3. CASE EditTemplate \/ TenSeconds \/ OneDay
  <2>1. SameRows /\ UNCHANGED <<req, parentOf>>
    BY <1>3, SurroundingsKeepBase
  <2>2. QED
    BY <2>1 DEF ParentsAreMapped, ParentIsMapped, Concerned, Begun, Stored, SameRows
<1>4. CASE UNCHANGED submissionVars
  BY <1>4 DEF ParentsAreMapped, ParentIsMapped, Concerned, Begun, Stored, submissionVars
<1>5. QED
  BY <1>1, <1>2, <1>3, <1>4 DEF SubmissionNext

LEMMA MappedMeansOneParent == BaseInv /\ ParentsAreMapped => OneParentPerEntity
<1> SUFFICES ASSUME BaseInv, ParentsAreMapped, NEW m \in Rows, NEW n \in Rows,
                    row[m].content.entity = row[n].content.entity,
                    row[m].content.entity # Nobody,
                    row[m].content.parent # Nobody, row[n].content.parent # Nobody
             PROVE  row[m].content.parent = row[n].content.parent
  BY DEF OneParentPerEntity
<1>1. m \in Requests /\ n \in Requests /\ Stored(m) /\ Stored(n)
  BY DEF Rows
<1>2. row[m].content = req[m].content /\ row[n].content = req[n].content
  BY <1>1 DEF BaseInv, RowsAreTheirs, RowIsTheirs
<1>3. ParentIsMapped(m) /\ ParentIsMapped(n)
  BY <1>1 DEF ParentsAreMapped
<1>4. QED
  BY <1>1, <1>2, <1>3 DEF ParentIsMapped, Concerned

\* However the requests for an entity interleave, over any number of processes,
\* the notifications it has under a parent all have the same one.
THEOREM OneParentPerEntityAlways == SubmissionSpec => []OneParentPerEntity
<1>1. SubmissionInit => ParentsAreMapped
  BY DEF SubmissionInit, ParentsAreMapped, ParentIsMapped, Concerned, Begun, Stored
<1>2. BaseInv /\ ParentsAreMapped /\ [SubmissionNext]_submissionVars => ParentsAreMapped'
  BY NextKeepsParents
<1>3. BaseInv /\ ParentsAreMapped => OneParentPerEntity
  BY MappedMeansOneParent
<1>4. QED
  BY <1>1, <1>2, <1>3, BaseAlways, PTL DEF SubmissionSpec

-----------------------------------------------------------------------------
(* Twins *)

LEMMA TwinStays ==
    ASSUME NEW x \in Requests, NEW n \in Requests, TwinRuledOut(x, n), KeptRow(n), Begun(x),
           req'[x].content = req[x].content, req'[x].seen = req[x].seen,
           Looked(x)' => Looked(x) /\ req'[x].text = req[x].text
    PROVE  TwinRuledOut(x, n)'
<1> SUFFICES ASSUME n \in req[x].seen PROVE TwinRuledOut(x, n)'
  BY DEF TwinRuledOut
<1>1. Stored(n) /\ x # n
  BY DEF TwinRuledOut
<1>2. /\ Stored(n)'
      /\ row'[n].content = row[n].content /\ row'[n].text = row[n].text
      /\ row'[n].channels = row[n].channels
      /\ row'[n].age = "fresh" => row[n].age = "fresh"
  BY <1>1 DEF KeptRow, Stored
<1>3. QED
  BY <1>1, <1>2 DEF TwinRuledOut, Alike, InOtherWords

LEMMA StepKeepsTwins ==
    ASSUME BaseInv, TwinsRuledOut, NEW r \in Requests, Running(r), Step(r)
    PROVE  TwinsRuledOut'
<1>1. /\ \A n \in Requests : KeptRow(n)
      /\ \A n \in Requests \ {r} : (row'[n] # NoRow) <=> (row[n] # NoRow)
      /\ row'[r] # NoRow => row[r] # NoRow \/ req[r].pc = "insert"
      /\ Moved(r)
  BY StepRows
<1>2. Begun(r) /\ RowIsTheirs(r)
  BY DEF Running, BaseInv, RowsAreTheirs
<1>3. Looks(r) \/ Inserts(r) \/ Enqueues(r) \/ Fails(r)
  BY <1>2, StepIs DEF BaseInv
<1>4. ASSUME NEW x \in Requests \ {r}, NEW n \in Requests PROVE TwinRuledOut(x, n)'
  <2>1. req'[x] = req[x] /\ TwinRuledOut(x, n)
    BY <1>1 DEF Moved, TwinsRuledOut
  <2>2. Looked(x)' => Looked(x) /\ req'[x].text = req[x].text
    BY <1>1, <2>1 DEF Looked, Stored
  <2>3. CASE Begun(x)
    BY <1>1, <2>1, <2>2, <2>3, TwinStays
  <2>4. CASE ~Begun(x)
    BY <2>1, <2>4 DEF TwinRuledOut, Begun
  <2>5. QED
    BY <2>3, <2>4
<1>5. ASSUME NEW n \in Requests PROVE TwinRuledOut(r, n)'
  <2>1. req'[r].content = req[r].content /\ req'[r].seen = req[r].seen /\ TwinRuledOut(r, n)
    BY <1>1 DEF Moved, TwinsRuledOut
  <2>2. CASE Looked(r)' => Looked(r) /\ req'[r].text = req[r].text
    BY <1>1, <1>2, <2>1, <2>2, TwinStays
  <2>3. CASE Looked(r)' /\ ~(Looked(r) /\ req'[r].text = req[r].text)
    <3>1. Looks(r)
      BY <1>2, <1>3, <2>3 DEF Inserts, Enqueues, Fails, Looked, RowIsTheirs
    <3>2. ~Stored(r) \/ req'[r].text = req[r].text
      BY <1>2, <3>1 DEF Looks, RowIsTheirs, Before
    <3>3. ~Looked(r)
      BY <1>2, <2>3, <3>1, <3>2 DEF Looked, Looks
    <3>4. req'[r].pc = "insert"
      BY <1>1, <2>3, <3>3 DEF Looked, Stored
    <3>5. CASE req[r].pc = "prepare"
      <4>1. req[r].content.key # Nobody
        BY <3>1, <3>4, <3>5 DEF Looks
      <4>2. n \in req[r].seen => Stored(n)' /\ r # n
        BY <1>1, <1>2, <2>1 DEF KeptRow, TwinRuledOut, Stored
      <4>3. QED
        BY <2>1, <4>1, <4>2 DEF TwinRuledOut
    <3>6. CASE req[r].pc = "burst"
      <4>1. ~Twin(n, req[r].content, req[r].text) /\ req'[r].text = req[r].text
        BY <3>1, <3>4, <3>6 DEF Looks
      <4>2. n \in req[r].seen => Stored(n) /\ r # n
        BY <1>2, <2>1 DEF TwinRuledOut
      <4>3. n \in req[r].seen =>
              /\ row'[n] # NoRow
              /\ row'[n].content = row[n].content /\ row'[n].text = row[n].text
              /\ row'[n].channels = row[n].channels
              /\ row'[n].age = "fresh" => row[n].age = "fresh"
        BY <1>1, <4>2 DEF KeptRow, Stored
      <4>4. QED
        BY <2>1, <4>1, <4>2, <4>3 DEF TwinRuledOut, Twin, Alike, Stored, InOtherWords
    <3>7. QED
      BY <3>1, <3>4, <3>5, <3>6 DEF Looks
  <2>4. QED
    BY <2>2, <2>3
<1>6. QED
  BY <1>4, <1>5 DEF TwinsRuledOut

LEMMA NextKeepsTwins ==
    BaseInv /\ TwinsRuledOut /\ [SubmissionNext]_submissionVars => TwinsRuledOut'
<1> SUFFICES ASSUME BaseInv, TwinsRuledOut, [SubmissionNext]_submissionVars
             PROVE  TwinsRuledOut'
  OBVIOUS
<1>1. ASSUME NEW r \in Requests, Running(r), Step(r) PROVE TwinsRuledOut'
  BY <1>1, StepKeepsTwins
<1>2. ASSUME NEW r \in Requests, NEW c \in Bodies, Submit(r, c) PROVE TwinsRuledOut'
  <2>1. /\ req[r] = NoRequest /\ req'[r].pc = "guard" /\ req'[r].seen = Rows
        /\ \A x \in Requests \ {r} : req'[x] = req[x]
        /\ UNCHANGED <<row, parentOf>>
    BY <1>2, SubmitBegins DEF BaseInv
  <2>2. row[r] = NoRow
    BY <2>1 DEF BaseInv, RowsAreTheirs, RowIsTheirs, Stored, Begun
  <2>3. ASSUME NEW n \in Requests PROVE TwinRuledOut(r, n)'
    BY <2>1, <2>2 DEF TwinRuledOut, Looked, Rows, Stored
  <2>4. ASSUME NEW x \in Requests \ {r}, NEW n \in Requests PROVE TwinRuledOut(x, n)'
    <3>1. TwinRuledOut(x, n) /\ req'[x] = req[x] /\ row'[n] = row[n] /\ row'[x] = row[x]
      BY <2>1 DEF TwinsRuledOut
    <3>2. QED
      BY <3>1 DEF TwinRuledOut, Looked, Alike, Begun, Stored, InOtherWords
  <2>5. QED
    BY <2>3, <2>4 DEF TwinsRuledOut
<1>3. CASE EditTemplate \/ TenSeconds \/ OneDay
  <2>1. SameRows /\ UNCHANGED req
    BY <1>3, SurroundingsKeepBase
  <2>2. ASSUME NEW x \in Requests, NEW n \in Requests PROVE TwinRuledOut(x, n)'
    <3>1. TwinRuledOut(x, n) /\ req'[x] = req[x] /\ KeptRow(n)
      BY <2>1, SameRowsAreKept DEF TwinsRuledOut
    <3>2. Looked(x)' => Looked(x)
      BY <2>1 DEF Looked, Stored, SameRows
    <3>3. QED
      BY <3>1, <3>2, TwinStays DEF TwinRuledOut, Begun
  <2>3. QED
    BY <2>2 DEF TwinsRuledOut
<1>4. CASE UNCHANGED submissionVars
  BY <1>4 DEF TwinsRuledOut, TwinRuledOut, Looked, Alike, Begun, Stored, InOtherWords,
              submissionVars
<1>5. QED
  BY <1>1, <1>2, <1>3, <1>4 DEF SubmissionNext

LEMMA RuledOutMeansRaced == BaseInv /\ TwinsRuledOut => FreshTwinsRaced
<1> SUFFICES ASSUME BaseInv, TwinsRuledOut, NEW r \in Requests, NEW n \in Requests,
                    Stored(r), row[n].age = "fresh", row[r].content.key = Nobody,
                    n \in req[r].seen, Alike(r, n)
             PROVE  row[r].content.data \notin Plain \/ InOtherWords(n)
  BY DEF FreshTwinsRaced
<1>1. Begun(r) /\ row[r].content = req[r].content /\ TwinRuledOut(r, n)
  BY DEF BaseInv, RowsAreTheirs, RowIsTheirs, TwinsRuledOut
<1>2. QED
  BY <1>1 DEF TwinRuledOut, Looked

\* The burst check only misses a twin that was stored after the request began, one
\* whose payload JSONB writes otherwise than JSON.stringify, and one that was stored
\* in the words of another channel because the quota had taken its first.
THEOREM FreshTwinsRacedAlways == SubmissionSpec => []FreshTwinsRaced
<1>1. SubmissionInit => TwinsRuledOut
  BY DEF SubmissionInit, TwinsRuledOut, TwinRuledOut, Begun
<1>2. BaseInv /\ TwinsRuledOut /\ [SubmissionNext]_submissionVars => TwinsRuledOut'
  BY NextKeepsTwins
<1>3. BaseInv /\ TwinsRuledOut => FreshTwinsRaced
  BY RuledOutMeansRaced
<1>4. QED
  BY <1>1, <1>2, <1>3, BaseAlways, PTL DEF SubmissionSpec

-----------------------------------------------------------------------------
(* Answers *)

\* A duplicate is of the caller's tenant and event, unless the keys hide the event.
SameEvent(r, n) ==
    /\ row[n].content.entity = req[r].content.entity
    /\ \/ EventOf[row[n].content.data] = EventOf[req[r].content.data]
       \/ KeysHideEvents(row[n].content, req[r].content)
DuplicateIsRight(r) ==
    Begun(r) /\ req[r].pc = "duplicate" =>
        req[r].named \in Requests /\ Stored(req[r].named) /\ SameEvent(r, req[r].named)
DuplicatesAreRight == \A r \in Requests : DuplicateIsRight(r)

\* Text u is a and then e.
Cut(u, a, e) ==
    /\ Len(u) = Len(a) + Len(e)
    /\ \A i \in 1 .. Len(a) : u[i] = a[i]
    /\ \A i \in 1 .. Len(e) : u[Len(a) + i] = e[i]

LEMMA ConcatIsCut ==
    ASSUME NEW a \in Seq(Parts), NEW e \in Seq(Parts)
    PROVE  Cut(a \o e, a, e)
<1> DEFINE u == a \o e
<1>1. /\ Len(u) = Len(a) + Len(e)
      /\ \A i \in 1 .. Len(a) + Len(e) : u[i] = IF i <= Len(a) THEN a[i] ELSE e[i - Len(a)]
  BY ConcatProperties
<1>2. Len(a) \in Nat /\ Len(e) \in Nat
  BY LenProperties
<1> HIDE DEF u
<1>3. ASSUME NEW i \in 1 .. Len(a) PROVE u[i] = a[i]
  BY <1>1, <1>2
<1>4. ASSUME NEW i \in 1 .. Len(e) PROVE u[Len(a) + i] = e[i]
  BY <1>1, <1>2
<1>5. Cut(u, a, e)
  BY <1>1, <1>3, <1>4 DEF Cut
<1>6. QED
  BY <1>5 DEF u

\* A text cut in two ways: at one place, or one cut goes on where the other ends.
LEMMA TwoCuts ==
    ASSUME NEW a \in Seq(Parts), NEW b \in Seq(Parts), NEW e \in Seq(Parts), NEW f \in Seq(Parts),
           NEW u, Cut(u, a, e), Cut(u, b, f)
    PROVE  (a = b /\ e = f) \/ Continues(a, b) \/ Continues(b, a)
<1>1. /\ Len(a) \in Nat /\ Len(b) \in Nat /\ Len(e) \in Nat /\ Len(f) \in Nat
      /\ DOMAIN a = 1 .. Len(a) /\ DOMAIN b = 1 .. Len(b)
  BY LenProperties
<1>2. CASE Len(a) < Len(b)
  <2>1. \A i \in 1 .. Len(a) : i \in 1 .. Len(b)
    BY <1>1, <1>2
  <2>2. \A i \in 1 .. Len(a) : b[i] = a[i]
    BY <2>1 DEF Cut
  <2>3. QED
    BY <1>1, <1>2, <2>2 DEF Continues
<1>3. CASE Len(b) < Len(a)
  <2>1. \A i \in 1 .. Len(b) : i \in 1 .. Len(a)
    BY <1>1, <1>3
  <2>2. \A i \in 1 .. Len(b) : a[i] = b[i]
    BY <2>1 DEF Cut
  <2>3. QED
    BY <1>1, <1>3, <2>2 DEF Continues
<1>4. CASE Len(a) = Len(b)
  <2>1. Len(e) = Len(f)
    BY <1>1, <1>4 DEF Cut
  <2>2. \A i \in 1 .. Len(a) : a[i] = b[i]
    BY <1>4 DEF Cut
  <2>3. \A i \in 1 .. Len(e) : e[i] = f[i]
    BY <1>4, <2>1 DEF Cut
  <2>4. a = b
    BY <1>4, <2>2, SeqEqual
  <2>5. e = f
    BY <2>1, <2>3, SeqEqual
  <2>6. QED
    BY <2>4, <2>5
<1>5. Len(a) < Len(b) \/ Len(b) < Len(a) \/ Len(a) = Len(b)
  <2>1. ASSUME NEW m \in Nat, NEW n \in Nat PROVE m < n \/ n < m \/ m = n
    OBVIOUS
  <2>2. QED
    BY <1>1, <2>1, Zenon
<1>6. QED
  BY <1>2, <1>3, <1>4, <1>5

\* A key is stored as the caller's and what was added, the event or nothing.
LEMMA KeyAndAddition ==
    ASSUME NEW c \in Content, NEW k, k = c.key, k # Nobody,
           NEW u, u = QualifyIdempotencyKey(c)
    PROVE  /\ k \in Seq(Parts)
           /\ \E e \in Seq(Parts) : Cut(u, k, e) /\ (e = EventOf[c.data] \/ u = k)
<1>1. k \in Seq(Parts) /\ EventOf[c.data] \in Seq(Parts)
  BY SubmissionAssumption DEF Content, OrNobody
<1>2. CASE <<c.key, c.data>> \in Mentions \cup TooLong
  <2>1. u = k
    BY <1>2 DEF QualifyIdempotencyKey
  <2>2. <<>> \in Seq(Parts) /\ k \o <<>> = k
    BY <1>1, ConcatEmptySeq
  <2>3. Cut(k, k, <<>>)
    BY <1>1, <2>2, ConcatIsCut
  <2>4. QED
    BY <1>1, <2>1, <2>2, <2>3
<1>3. CASE <<c.key, c.data>> \notin Mentions \cup TooLong
  <2>1. u = k \o EventOf[c.data]
    BY <1>3 DEF QualifyIdempotencyKey
  <2>2. QED
    BY <1>1, <2>1, ConcatIsCut
<1>4. QED
  BY <1>2, <1>3

\* What the key is stored as tells the event, unless it hides it.
LEMMA QualifiedKeysTellEvents ==
    ASSUME NEW c \in Content, NEW d \in Content, KeysAgree(c, d)
    PROVE  EventOf[c.data] = EventOf[d.data] \/ KeysHideEvents(c, d)
<1>1. PICK u : u = QualifyIdempotencyKey(c)
  OBVIOUS
<1>2. PICK k : k = c.key
  OBVIOUS
<1>3. PICK l : l = d.key
  OBVIOUS
<1>4. k # Nobody /\ l # Nobody /\ u = QualifyIdempotencyKey(d)
  BY <1>1, <1>2, <1>3 DEF KeysAgree
<1>5. PICK e \in Seq(Parts) : Cut(u, k, e) /\ (e = EventOf[c.data] \/ u = k)
  BY <1>1, <1>2, <1>4, KeyAndAddition
<1>6. PICK f \in Seq(Parts) : Cut(u, l, f) /\ (f = EventOf[d.data] \/ u = l)
  BY <1>3, <1>4, KeyAndAddition
<1>7. k \in Seq(Parts) /\ l \in Seq(Parts)
  BY <1>1, <1>2, <1>3, <1>4, KeyAndAddition
<1>8. (k = l /\ e = f) \/ Continues(k, l) \/ Continues(l, k)
  BY <1>5, <1>6, <1>7, TwoCuts
<1>9. \/ EventOf[c.data] = EventOf[d.data]
      \/ k = l /\ u = k
      \/ Continues(k, l) \/ Continues(l, k)
  BY <1>5, <1>6, <1>8
<1>10. QED
  BY <1>1, <1>2, <1>3, <1>4, <1>9 DEF KeysHideEvents, KeptAsIs

LEMMA FoundIsSameEvent ==
    ASSUME BaseInv, NEW r \in Requests, Begun(r), NEW n \in Requests,
           SameKey(n, req[r].content) \/ Twin(n, req[r].content, req[r].text)
    PROVE  Stored(n) /\ SameEvent(r, n)
<1>1. Stored(n) /\ row[n].content.entity = req[r].content.entity
  BY DEF SameKey, Twin
<1>2. row[n].content = req[n].content /\ Begun(n)
  BY <1>1 DEF BaseInv, RowsAreTheirs, RowIsTheirs
<1>3. req[n].content \in Content /\ req[r].content \in Content
  BY <1>2, HandlerOf DEF BaseInv, Handler
<1>4. CASE Twin(n, req[r].content, req[r].text)
  BY <1>1, <1>4 DEF Twin, SameEvent
<1>5. CASE SameKey(n, req[r].content)
  <2>1. KeysAgree(req[n].content, req[r].content)
    BY <1>2, <1>5 DEF SameKey
  <2>2. QED
    BY <1>1, <1>2, <1>3, <2>1, QualifiedKeysTellEvents DEF SameEvent
<1>6. QED
  BY <1>1, <1>4, <1>5

LEMMA SameEventStays ==
    ASSUME NEW r \in Requests, NEW n \in Requests, SameEvent(r, n), Stored(n), KeptRow(n),
           req'[r].content = req[r].content, req'[n].content = req[n].content
    PROVE  Stored(n)' /\ SameEvent(r, n)'
<1>1. Stored(n)' /\ row'[n].content = row[n].content
  BY DEF KeptRow, Stored
<1>2. QED
  BY <1>1 DEF SameEvent

LEMMA NextKeepsDuplicates ==
    BaseInv /\ DuplicatesAreRight /\ [SubmissionNext]_submissionVars => DuplicatesAreRight'
<1> SUFFICES ASSUME BaseInv, DuplicatesAreRight, [SubmissionNext]_submissionVars
             PROVE  DuplicatesAreRight'
  OBVIOUS
<1>1. ASSUME NEW r \in Requests, Running(r), Step(r) PROVE DuplicatesAreRight'
  <2>1. /\ \A n \in Requests : KeptRow(n)
        /\ Moved(r) /\ Begun(r)
    BY <1>1, StepRows DEF Running
  <2>2. \A x \in Requests : req'[x].content = req[x].content
    BY <2>1 DEF Moved
  <2>3. ASSUME NEW x \in Requests \ {r} PROVE DuplicateIsRight(x)'
    <3>1. req'[x] = req[x] /\ DuplicateIsRight(x)
      BY <2>1 DEF Moved, DuplicatesAreRight
    <3>2. QED
      BY <2>1, <2>2, <3>1, SameEventStays DEF DuplicateIsRight, Begun
  <2>4. DuplicateIsRight(r)'
    <3>1. SUFFICES ASSUME req'[r].pc = "duplicate" PROVE DuplicateIsRight(r)'
      BY DEF DuplicateIsRight
    <3>2. Looks(r) /\ req[r].pc # "duplicate"
      BY <1>1, <2>1, <3>1, StepIs DEF BaseInv, Running, Inserts, Enqueues, Fails
    <3>3. PICK n \in Requests :
             /\ req'[r].named = n
             /\ SameKey(n, req[r].content) \/ Twin(n, req[r].content, req[r].text)
      BY <3>1, <3>2 DEF Looks
    <3>4. Stored(n) /\ SameEvent(r, n)
      BY <2>1, <3>3, FoundIsSameEvent
    <3>5. Stored(n)' /\ SameEvent(r, n)'
      BY <2>1, <2>2, <3>4, SameEventStays
    <3>6. QED
      BY <3>3, <3>5 DEF DuplicateIsRight, SameEvent, Stored
  <2>5. QED
    BY <2>3, <2>4 DEF DuplicatesAreRight
<1>2. ASSUME NEW r \in Requests, NEW c \in Bodies, Submit(r, c) PROVE DuplicatesAreRight'
  <2>1. /\ req[r] = NoRequest /\ req'[r].pc = "guard"
        /\ \A x \in Requests \ {r} : req'[x] = req[x]
        /\ UNCHANGED row
    BY <1>2, SubmitBegins DEF BaseInv
  <2>2. ASSUME NEW x \in Requests PROVE DuplicateIsRight(x)'
    <3>1. CASE x = r
      BY <2>1, <3>1 DEF DuplicateIsRight
    <3>2. CASE x # r /\ Begun(x) /\ req[x].pc = "duplicate"
      <4>1. /\ req[x].named \in Requests /\ Stored(req[x].named)
            /\ SameEvent(x, req[x].named) /\ req'[x] = req[x]
        BY <2>1, <3>2 DEF DuplicatesAreRight, DuplicateIsRight
      <4>2. req[x].named # r
        BY <2>1, <4>1 DEF BaseInv, RowsAreTheirs, RowIsTheirs, Begun
      <4>3. req'[req[x].named] = req[req[x].named] /\ KeptRow(req[x].named)
        BY <2>1, <4>1, <4>2 DEF KeptRow
      <4>4. QED
        BY <4>1, <4>3, SameEventStays DEF DuplicateIsRight
    <3>3. CASE x # r /\ ~(Begun(x) /\ req[x].pc = "duplicate")
      BY <2>1, <3>3 DEF DuplicateIsRight, Begun
    <3>4. QED
      BY <3>1, <3>2, <3>3
  <2>3. QED
    BY <2>2 DEF DuplicatesAreRight
<1>3. CASE EditTemplate \/ TenSeconds \/ OneDay
  <2>1. SameRows /\ UNCHANGED req
    BY <1>3, SurroundingsKeepBase
  <2>2. ASSUME NEW x \in Requests PROVE DuplicateIsRight(x)'
    BY <2>1, SameRowsAreKept, SameEventStays DEF DuplicatesAreRight, DuplicateIsRight, Begun
  <2>3. QED
    BY <2>2 DEF DuplicatesAreRight
<1>4. CASE UNCHANGED submissionVars
  BY <1>4 DEF DuplicatesAreRight, DuplicateIsRight, SameEvent, Begun, Stored, submissionVars
<1>5. QED
  BY <1>1, <1>2, <1>3, <1>4 DEF SubmissionNext

\* A row's handler has inserted it, and if it has answered it has sent it.
LEMMA StoredIsSentOrFailing ==
    ASSUME BaseInv, NEW n \in Requests, Stored(n)
    PROVE  jobs[n] = row[n].channels \/ req[n].pc \in {"enqueue", "failing", "refused"}
<1>1. Begun(n) /\ RowIsTheirs(n)
  BY DEF BaseInv, RowsAreTheirs, RowIsTheirs
<1>2. req[n].pc \in Statements
  BY <1>1, HandlerOf DEF BaseInv, Handler, Statements
<1>3. QED
  BY <1>1, <1>2 DEF RowIsTheirs, Before, Statements

LEMMA RightMeansTheirOwn == BaseInv /\ DuplicatesAreRight => AnswersNameTheirOwn
<1> SUFFICES ASSUME BaseInv, DuplicatesAreRight, NEW r \in Requests, Begun(r),
                    req[r].pc \in {"accepted", "duplicate"}
             PROVE  LET n == req[r].named
                    IN Stored(n) /\ SameEvent(r, n)
                       /\ \/ jobs[n] = row[n].channels
                          \/ req[n].pc \in {"enqueue", "failing", "refused"}
  BY DEF AnswersNameTheirOwn, SameEvent
<1>1. CASE req[r].pc = "accepted"
  <2>1. Stored(r) /\ row[r].content = req[r].content /\ req[r].named = r /\ jobs[r] = row[r].channels
    BY <1>1 DEF BaseInv, RowsAreTheirs, RowIsTheirs
  <2>2. QED
    BY <2>1 DEF SameEvent
<1>2. CASE req[r].pc = "duplicate"
  <2>1. /\ req[r].named \in Requests /\ Stored(req[r].named)
        /\ SameEvent(r, req[r].named)
    BY <1>2 DEF DuplicatesAreRight, DuplicateIsRight
  <2>2. QED
    BY <2>1, StoredIsSentOrFailing
<1>3. QED
  BY <1>1, <1>2

\* Whatever other requests do between the looks and the INSERT of one, an answer
\* names a notification of the caller's tenant that was sent on the channels the
\* quota left, or whose own request failed or is still at it.  Two events are mixed
\* up only if they were left out of one key that both callers gave, or if one
\* caller's key is the other's, a colon and more.
THEOREM AnswersNameTheirOwnAlways == SubmissionSpec => []AnswersNameTheirOwn
<1>1. SubmissionInit => DuplicatesAreRight
  BY DEF SubmissionInit, DuplicatesAreRight, DuplicateIsRight, Begun
<1>2. BaseInv /\ DuplicatesAreRight /\ [SubmissionNext]_submissionVars => DuplicatesAreRight'
  BY NextKeepsDuplicates
<1>3. BaseInv /\ DuplicatesAreRight => AnswersNameTheirOwn
  BY RightMeansTheirOwn
<1>4. QED
  BY <1>1, <1>2, <1>3, BaseAlways, PTL DEF SubmissionSpec

-----------------------------------------------------------------------------
(* The handler implements the intake *)

\* The notification that a key of a tenant stands for.
Holding(n) == [tenant |-> row[n].content.entity, key |-> QualifyIdempotencyKey(row[n].content),
               notif |-> n]
Keyed == {m \in Rows : row[m].content.key # Nobody}
Holders == {Holding(n) : n \in Keyed}
Sent == {n \in Requests : jobs[n] # {}}

LEMMA SameRowsSameHolders ==
    ASSUME SameRows
    PROVE  Rows' = Rows /\ Holders' = Holders
<1>1. Rows' = Rows
  BY DEF SameRows, Rows, Stored
<1>2. \A n \in Rows : row'[n].content = row[n].content
  BY DEF SameRows, Rows, Stored
<1>3. Keyed' = Keyed
  BY <1>1, <1>2 DEF Keyed
<1>4. \A n \in Keyed : Holding(n)' = Holding(n)
  BY <1>2 DEF Holding, Keyed
<1>5. QED
  BY <1>1, <1>3, <1>4 DEF Holders

LEMMA SameTablesStutter ==
    ASSUME Rows' = Rows, Holders' = Holders, Sent' = Sent
    PROVE  UNCHANGED TheIntake!intakeVars
BY DEF TheIntake!intakeVars, Holders, Holding, Keyed, Sent

\* The INSERT takes the key of a tenant, if there is one, and nobody had it.
LEMMA InsertsStores ==
    ASSUME BaseInv, NEW r \in Requests, Begun(r), Inserts(r)
    PROVE  TheIntake!Store(r)
<1> DEFINE c == req[r].content
<1>1. row[r] = NoRow /\ UNCHANGED jobs /\ ~KeyTaken(c)
  BY InsertsTheFirst DEF Inserts
<1>2. /\ row'[r] # NoRow /\ row'[r].content = c
      /\ \A n \in Requests \ {r} : row'[n] = row[n]
  BY InsertsARow DEF BaseInv
<1>3. c \in Content
  BY HandlerOf DEF BaseInv, Handler
<1>4. r \notin Rows /\ Rows' = Rows \cup {r}
  BY <1>1, <1>2 DEF Rows, Stored
<1> HIDE DEF c
<1>5. \A n \in Rows : n # r /\ row'[n] = row[n]
  BY <1>1, <1>2, <1>4 DEF Rows
<1>6. \A n \in Rows : Holding(n)' = Holding(n)
  BY <1>5 DEF Holding
<1>7. Holding(r)' = [tenant |-> c.entity, key |-> QualifyIdempotencyKey(c), notif |-> r]
  BY <1>2 DEF Holding, QualifyIdempotencyKey
<1>8. Sent' = Sent
  BY <1>1 DEF Sent
<1>9. CASE c.key = Nobody
  <2>1. Keyed' = Keyed
    BY <1>2, <1>4, <1>5, <1>9 DEF Keyed
  <2>2. Holders' = Holders
    BY <1>6, <2>1 DEF Holders, Keyed
  <2>3. QED
    BY <1>4, <1>8, <2>2 DEF TheIntake!Store, Holders, Holding, Keyed, Sent
<1>10. CASE c.key # Nobody
  <2> DEFINE t == c.entity
             k == QualifyIdempotencyKey(c)
  <2>1. Keyed' = Keyed \cup {r}
    BY <1>2, <1>4, <1>5, <1>10 DEF Keyed
  <2>2. Holders' = Holders \cup {[tenant |-> t, key |-> k, notif |-> r]}
    BY <1>6, <1>7, <2>1 DEF Holders, Keyed
  <2>3. t \in Tenants
    BY <1>3 DEF Content
  <2>4. k \in QualifiedKeys
    BY <1>3, <1>10 DEF QualifiedKeys
  <2>5. ~(\E n \in Keyed : row[n].content.entity = t /\ QualifyIdempotencyKey(row[n].content) = k)
    BY <1>1, <1>10 DEF KeyTaken, KeysAgree, Keyed, Rows
  <2>6. ~ TheIntake!Taken(t, k)
    <3>1. SUFFICES ASSUME NEW h \in Holders, h.tenant = t, h.key = k PROVE FALSE
      BY DEF TheIntake!Taken, Holders, Holding, Keyed
    <3>2. PICK n \in Keyed : h = Holding(n)
      BY DEF Holders
    <3>3. h.tenant = row[n].content.entity /\ h.key = QualifyIdempotencyKey(row[n].content)
      BY <3>2 DEF Holding
    <3>4. QED
      BY <2>5, <3>1, <3>3
  <2> HIDE DEF t, k
  <2>7. QED
    BY <1>4, <1>8, <2>2, <2>3, <2>4, <2>6 DEF TheIntake!Store, Holders, Holding, Keyed, Sent
<1>11. QED
  BY <1>9, <1>10

\* The first jobs of a notification that is stored.
LEMMA EnqueuesSends ==
    ASSUME BaseInv, NEW r \in Requests, Begun(r), Enqueues(r)
    PROVE  TheIntake!Send(r) \/ UNCHANGED TheIntake!intakeVars
<1>1. r \in Rows /\ jobs[r] = {}
  BY DEF BaseInv, RowsAreTheirs, RowIsTheirs, Enqueues, Rows
<1>2. SameRows
  BY SameRowsWhenUnchanged DEF Enqueues, BaseInv
<1>3. Rows' = Rows /\ Holders' = Holders
  BY <1>2, SameRowsSameHolders
<1>4. \A x \in Requests \ {r} : jobs'[x] = jobs[x]
  BY DEF Enqueues
<1>5. CASE jobs'[r] = {}
  <2>1. Sent' = Sent
    BY <1>1, <1>4, <1>5 DEF Sent
  <2>2. QED
    BY <1>3, <2>1, SameTablesStutter
<1>6. CASE jobs'[r] # {}
  <2>1. r \notin Sent /\ Sent' = Sent \cup {r}
    BY <1>1, <1>4, <1>6 DEF Sent
  <2>2. QED
    BY <1>1, <1>3, <2>1 DEF TheIntake!Send, Holders, Holding, Keyed, Sent
<1>7. QED
  BY <1>5, <1>6

LEMMA StepIsIntakeStep ==
    BaseInv /\ [SubmissionNext]_submissionVars => [TheIntake!Next]_TheIntake!intakeVars
<1> SUFFICES ASSUME BaseInv, [SubmissionNext]_submissionVars
             PROVE  [TheIntake!Next]_TheIntake!intakeVars
  OBVIOUS
<1>1. ASSUME NEW r \in Requests, Running(r), Step(r)
      PROVE  [TheIntake!Next]_TheIntake!intakeVars
  <2>1. Begun(r) /\ (Looks(r) \/ Inserts(r) \/ Enqueues(r) \/ Fails(r))
    BY <1>1, StepIs DEF Running, BaseInv
  <2>2. CASE Looks(r) \/ Fails(r)
    <3>1. SameRows /\ UNCHANGED jobs
      BY <1>1, <2>2, LooksKeepsBase, FailsKeepsBase DEF Looks, Fails
    <3>2. Rows' = Rows /\ Holders' = Holders /\ Sent' = Sent
      BY <3>1, SameRowsSameHolders DEF Sent
    <3>3. QED
      BY <3>2, SameTablesStutter
  <2>3. CASE Inserts(r)
    BY <2>1, <2>3, InsertsStores DEF TheIntake!Next
  <2>4. CASE Enqueues(r)
    BY <2>1, <2>4, EnqueuesSends DEF TheIntake!Next
  <2>5. QED
    BY <2>1, <2>2, <2>3, <2>4
<1>2. CASE SameRows /\ UNCHANGED jobs
  <2>1. Rows' = Rows /\ Holders' = Holders /\ Sent' = Sent
    BY <1>2, SameRowsSameHolders DEF Sent
  <2>2. QED
    BY <2>1, SameTablesStutter
<1>3. ASSUME NEW r \in Requests, NEW c \in Bodies, Submit(r, c)
      PROVE  SameRows /\ UNCHANGED jobs
  BY <1>3, SameRowsWhenUnchanged DEF Submit, BaseInv
<1>4. CASE EditTemplate \/ TenSeconds \/ OneDay
  BY <1>2, <1>4, SurroundingsKeepBase
<1>5. CASE UNCHANGED submissionVars
  BY <1>2, <1>5, SameRowsWhenUnchanged DEF submissionVars, BaseInv
<1>6. QED
  BY <1>1, <1>2, <1>3, <1>4, <1>5 DEF SubmissionNext

LEMMA InitIsIntakeInit == SubmissionInit => TheIntake!Init
<1> SUFFICES ASSUME SubmissionInit PROVE TheIntake!Init
  OBVIOUS
<1>1. Rows = {} /\ Keyed = {} /\ Sent = {}
  BY DEF SubmissionInit, Rows, Stored, Keyed, Sent
<1>2. Holders = {}
  BY <1>1 DEF Holders
<1>3. QED
  BY <1>1, <1>2 DEF TheIntake!Init, Holders, Holding, Keyed, Sent

\* The handler implements the intake: whatever the order in which concurrent
\* requests look, insert and enqueue, retry and fail, an idempotency key of a
\* tenant is given away once, and a notification is handed to the queues once.
THEOREM ImplementsIntakeAlways == SubmissionSpec => ImplementsIntake
<1>1. SubmissionInit => TheIntake!Init
  BY InitIsIntakeInit
<1>2. BaseInv /\ [SubmissionNext]_submissionVars => [TheIntake!Next]_TheIntake!intakeVars
  BY StepIsIntakeStep
<1>3. QED
  BY <1>1, <1>2, BaseAlways, PTL DEF SubmissionSpec, ImplementsIntake, TheIntake!Spec

-----------------------------------------------------------------------------
(* Accounts: one-time codes *)

Code == [email : Emails, purpose : Purposes, app : AppIds, live : BOOLEAN, expired : BOOLEAN]
Visit == {NoVisit}
  \cup [pc : {"invalidate", "insert"}, email : Emails, purpose : Purposes, app : AppIds]
  \cup [pc : {"mail"}, code : 1 .. MaxCodes]
  \cup [pc : {"mark", "register", "login"}, email : Emails, purpose : Purposes, code : 1 .. MaxCodes]

AccountsTypes ==
  /\ otps \in Seq(Code) /\ Len(otps) <= MaxCodes
  /\ visit \in [Visitors -> Visit]
  /\ admits \in [1 .. MaxCodes -> Nat]
  /\ \A v \in Visitors : visit[v].pc \in {"mail", "mark", "register", "login"} => visit[v].code \in DOMAIN otps

\* A visitor acts on a code it has read.
Holds(v, c) == visit[v].pc \in {"mark", "register", "login"} /\ visit[v].code = c

\* One visitor at a time has a code that no two read; it is used before it admits.
AdmitsOnce(c) ==
  /\ \A u, v \in Visitors : Holds(u, c) /\ Holds(v, c) => u = v
  /\ admits[c] <= 1
  /\ admits[c] # 0 => c \in DOMAIN otps /\ ~otps[c].live /\ \A v \in Visitors : ~Holds(v, c)
  /\ \A v \in Visitors : Holds(v, c) => c \in DOMAIN otps
  /\ \A v \in Visitors : Holds(v, c) /\ visit[v].pc # "mark" => ~otps[c].live

AdmitsInv == AccountsTypes /\ \A c \in 1 .. MaxCodes : c \in overlapped \/ AdmitsOnce(c)

LEMMA FunctionIsSeq ==
    ASSUME NEW S, NEW n \in Nat, NEW f \in [1 .. n -> S]
    PROVE  f \in Seq(S) /\ Len(f) = n
<1>1. f \in Seq(S)
  BY SeqDef
<1>2. Len(f) \in Nat /\ DOMAIN f = 1 .. Len(f)
  BY <1>1, LenProperties
<1>3. DOMAIN f = 1 .. n
  OBVIOUS
<1>4. Len(f) = n
  BY <1>2, <1>3
<1>5. QED
  BY <1>1, <1>4

\* Every code stays, and none that was used comes to life again.
Tamer == \A c \in DOMAIN otps : c \in DOMAIN otps' /\ (otps'[c].live => otps[c].live)

\* The table of codes after a statement that changes some of them, but for their number.
LEMMA ChangedCodes ==
    ASSUME AccountsTypes,
           otps' \in [1 .. Len(otps) -> Code],
           \A c \in DOMAIN otps : otps'[c].live => otps[c].live
    PROVE  otps' \in Seq(Code) /\ Len(otps') = Len(otps) /\ DOMAIN otps' = DOMAIN otps /\ Tamer
<1>1. Len(otps) \in Nat /\ DOMAIN otps = 1 .. Len(otps)
  BY LenProperties DEF AccountsTypes
<1>2. otps' \in Seq(Code) /\ Len(otps') = Len(otps)
  BY <1>1, FunctionIsSeq
<1>3. DOMAIN otps' = DOMAIN otps
  BY <1>1, <1>2, LenProperties
<1>4. QED
  BY <1>2, <1>3 DEF Tamer

LEMMA SameCodes ==
    ASSUME AccountsTypes, UNCHANGED otps
    PROVE  otps' \in Seq(Code) /\ Len(otps') <= MaxCodes /\ DOMAIN otps' = DOMAIN otps /\ Tamer
BY DEF AccountsTypes, Tamer

\* A visitor goes on to w, and the others stay.
GoesTo(v, w) ==
    /\ visit' \in [Visitors -> Visit] /\ visit'[v] = w
    /\ \A u \in Visitors \ {v} : visit'[u] = visit[u]

LEMMA VisitGoesTo ==
    ASSUME AccountsTypes, NEW v \in Visitors, NEW w \in Visit, visit' = [visit EXCEPT ![v] = w]
    PROVE  GoesTo(v, w)
BY DEF AccountsTypes, GoesTo

\* A code that nobody takes up or uses is as safe as before.
LEMMA AdmitsOnceStays ==
    ASSUME NEW c \in 1 .. MaxCodes, AdmitsOnce(c), Tamer, admits'[c] = admits[c],
           \A x \in Visitors : Holds(x, c)' =>
               Holds(x, c) /\ (visit'[x].pc # "mark" => visit[x].pc # "mark")
    PROVE  AdmitsOnce(c)'
BY DEF AdmitsOnce, Tamer

\* A statement of a visitor that neither takes up a code nor uses one.
LEMMA QuietStatement ==
    ASSUME AdmitsInv, NEW v \in Visitors, NEW w \in Visit, GoesTo(v, w),
           w.pc \notin {"mark", "register", "login"},
           w.pc = "mail" => w.code \in DOMAIN otps',
           otps' \in Seq(Code), Len(otps') <= MaxCodes, Tamer, UNCHANGED <<admits, overlapped>>
    PROVE  AdmitsInv'
<1>1. AccountsTypes'
  BY DEF AdmitsInv, AccountsTypes, GoesTo, Tamer
<1>2. ASSUME NEW c \in 1 .. MaxCodes, AdmitsOnce(c) PROVE AdmitsOnce(c)'
  <2>1. \A x \in Visitors : Holds(x, c)' =>
           Holds(x, c) /\ (visit'[x].pc # "mark" => visit[x].pc # "mark")
    BY DEF Holds, GoesTo
  <2>2. QED
    BY <1>2, <2>1, AdmitsOnceStays
<1>3. QED
  BY <1>1, <1>2 DEF AdmitsInv

LEMMA NoVisitIsVisit == NoVisit \in Visit /\ NoVisit.pc = "idle"
BY DEF NoVisit, Visit

LEMMA AskKeeps ==
    ASSUME AdmitsInv, NEW v \in Visitors, NEW e \in Emails, NEW p \in Purposes, NEW a \in AppIds,
           AskForCode(v, e, p, a)
    PROVE  AdmitsInv'
<1> DEFINE w == [pc |-> "invalidate", email |-> e, purpose |-> p, app |-> a]
<1>1. w \in Visit /\ w.pc = "invalidate"
  BY DEF Visit
<1>2. visit' = [visit EXCEPT ![v] = w] /\ UNCHANGED <<otps, admits, overlapped>>
  BY DEF AskForCode
<1> HIDE DEF w
<1>3. GoesTo(v, w) /\ otps' \in Seq(Code) /\ Len(otps') <= MaxCodes /\ Tamer
  BY <1>1, <1>2, VisitGoesTo, SameCodes DEF AdmitsInv
<1>4. QED
  BY <1>1, <1>2, <1>3, QuietStatement

LEMMA InvalidateKeeps ==
    ASSUME AdmitsInv, NEW v \in Visitors, Invalidate(v)
    PROVE  AdmitsInv'
<1> DEFINE w == [visit[v] EXCEPT !.pc = "insert"]
           dead(c) == [otps[c] EXCEPT !.live = FALSE]
           pending == Pending(visit[v].email, visit[v].purpose)
<1>1. visit[v] \in [pc : {"invalidate", "insert"}, email : Emails, purpose : Purposes, app : AppIds]
  BY DEF AdmitsInv, AccountsTypes, Visit, Invalidate, NoVisit
<1>2. w \in [pc : {"invalidate", "insert"}, email : Emails, purpose : Purposes, app : AppIds]
      /\ w.pc = "insert"
  BY <1>1
<1>3. w \in Visit
  BY <1>2 DEF Visit
<1>4. visit' = [visit EXCEPT ![v] = w] /\ UNCHANGED <<admits, overlapped>>
  BY DEF Invalidate, AdmitsInv, AccountsTypes
<1>5. AccountsTypes /\ Len(otps) \in Nat /\ DOMAIN otps = 1 .. Len(otps) /\ Len(otps) <= MaxCodes
  BY LenProperties DEF AdmitsInv, AccountsTypes
<1>6. \A c \in DOMAIN otps : otps[c] \in Code
  BY <1>5, ElementOfSeq DEF AccountsTypes
<1>7. \A c \in DOMAIN otps : dead(c) \in Code /\ ~dead(c).live
  BY <1>6 DEF Code
<1>8. otps' = [c \in DOMAIN otps |-> IF c \in pending THEN dead(c) ELSE otps[c]]
  BY DEF Invalidate
<1> HIDE DEF w, dead, pending
<1>9. /\ otps' \in [1 .. Len(otps) -> Code]
      /\ \A c \in DOMAIN otps : otps'[c].live => otps[c].live
  BY <1>5, <1>6, <1>7, <1>8
<1>10. otps' \in Seq(Code) /\ Len(otps') <= MaxCodes /\ Tamer
  BY <1>5, <1>9, ChangedCodes
<1>11. GoesTo(v, w)
  BY <1>3, <1>4, <1>5, VisitGoesTo
<1>12. QED
  BY <1>2, <1>3, <1>4, <1>10, <1>11, QuietStatement

LEMMA InsertCodeKeeps ==
    ASSUME AdmitsInv, NEW v \in Visitors, InsertCode(v)
    PROVE  AdmitsInv'
<1> DEFINE new == [email |-> visit[v].email, purpose |-> visit[v].purpose, app |-> visit[v].app,
                   live |-> TRUE, expired |-> FALSE]
           w == [pc |-> "mail", code |-> Len(otps) + 1]
<1>1. visit[v] \in [pc : {"invalidate", "insert"}, email : Emails, purpose : Purposes, app : AppIds]
  BY DEF AdmitsInv, AccountsTypes, Visit, InsertCode, NoVisit
<1>2. new \in Code
  BY <1>1 DEF Code
<1>3. AccountsTypes /\ otps \in Seq(Code) /\ Len(otps) \in Nat /\ DOMAIN otps = 1 .. Len(otps)
  BY LenProperties DEF AdmitsInv, AccountsTypes
<1>4. otps' = Append(otps, new) /\ visit' = [visit EXCEPT ![v] = w]
      /\ Len(otps) < MaxCodes /\ UNCHANGED <<admits, overlapped>>
  BY DEF InsertCode
<1> HIDE DEF new
<1>5. /\ otps' \in Seq(Code) /\ Len(otps') = Len(otps) + 1
      /\ \A i \in 1 .. Len(otps) : otps'[i] = otps[i]
  BY <1>2, <1>3, <1>4, AppendProperties
<1>6. DOMAIN otps' = 1 .. Len(otps) + 1
  BY <1>3, <1>5, LenProperties
<1>7. Tamer
  BY <1>3, <1>5, <1>6 DEF Tamer
<1>8. MaxCodes \in Nat
  BY AccountsAssumption
<1>9. w \in Visit /\ w.pc = "mail" /\ w.code \in DOMAIN otps'
  BY <1>3, <1>4, <1>6, <1>8 DEF Visit
<1>10. Len(otps') <= MaxCodes
  BY <1>3, <1>4, <1>5, <1>8
<1> HIDE DEF w
<1>11. GoesTo(v, w)
  BY <1>3, <1>4, <1>9, VisitGoesTo
<1>12. QED
  BY <1>4, <1>5, <1>7, <1>9, <1>10, <1>11, QuietStatement

LEMMA EndKeeps ==
    ASSUME AdmitsInv, NEW v \in Visitors, Mail(v) \/ RequestFails(v)
    PROVE  AdmitsInv'
<1>1. visit' = [visit EXCEPT ![v] = NoVisit] /\ UNCHANGED <<otps, admits, overlapped>>
  BY DEF Mail, RequestFails, End
<1>2. GoesTo(v, NoVisit) /\ otps' \in Seq(Code) /\ Len(otps') <= MaxCodes /\ Tamer
  BY <1>1, NoVisitIsVisit, VisitGoesTo, SameCodes DEF AdmitsInv
<1>3. QED
  BY <1>1, <1>2, NoVisitIsVisit, QuietStatement

LEMMA ExpiresKeeps ==
    ASSUME AdmitsInv, NEW c \in 1 .. MaxCodes, Expires(c)
    PROVE  AdmitsInv'
<1> DEFINE late == [otps[c] EXCEPT !.expired = TRUE]
<1>1. AccountsTypes /\ otps \in Seq(Code) /\ Len(otps) \in Nat /\ DOMAIN otps = 1 .. Len(otps)
      /\ otps \in [1 .. Len(otps) -> Code] /\ Len(otps) <= MaxCodes
  BY LenProperties DEF AdmitsInv, AccountsTypes
<1>2. c \in DOMAIN otps /\ otps[c] \in Code /\ otps[c].live
  BY <1>1 DEF Expires
<1>3. late \in Code
  BY <1>2 DEF Code
<1>4. otps' = [otps EXCEPT ![c] = late] /\ UNCHANGED <<visit, admits, overlapped>>
  BY <1>1 DEF Expires
<1> HIDE DEF late
<1>5. /\ otps' \in [1 .. Len(otps) -> Code]
      /\ \A d \in DOMAIN otps : otps'[d].live => otps[d].live
  BY <1>1, <1>2, <1>3, <1>4
<1>6. otps' \in Seq(Code) /\ Len(otps') <= MaxCodes /\ DOMAIN otps' = DOMAIN otps /\ Tamer
  BY <1>1, <1>5, ChangedCodes
<1>7. AccountsTypes'
  BY <1>1, <1>4, <1>6 DEF AccountsTypes
<1>8. ASSUME NEW d \in 1 .. MaxCodes, AdmitsOnce(d) PROVE AdmitsOnce(d)'
  BY <1>4, <1>6, <1>8, AdmitsOnceStays DEF Holds
<1>9. QED
  BY <1>4, <1>7, <1>8 DEF AdmitsInv

-----------------------------------------------------------------------------
\* A code is taken up: it was alive, so nobody had used it.
LEMMA CheckKeeps ==
    ASSUME AdmitsInv, NEW v \in Visitors, NEW e \in Emails, NEW p \in Purposes,
           NEW code \in 1 .. MaxCodes, CheckCode(v, e, p, code)
    PROVE  AdmitsInv'
<1> DEFINE w == [pc |-> "mark", email |-> e, purpose |-> p, code |-> code]
<1>1. code \in DOMAIN otps /\ otps[code].live
  BY DEF CheckCode, Newest, Pending
<1>2. w \in Visit /\ w.pc = "mark" /\ w.code = code
  BY DEF Visit
<1>3. visit' = [visit EXCEPT ![v] = w] /\ UNCHANGED <<otps, admits>> /\ visit[v] = NoVisit
  BY DEF CheckCode
<1> HIDE DEF w
<1>4. GoesTo(v, w) /\ Tamer /\ AccountsTypes
  BY <1>2, <1>3, VisitGoesTo, SameCodes DEF AdmitsInv
<1>5. AccountsTypes'
  BY <1>1, <1>2, <1>3, <1>4 DEF AccountsTypes, GoesTo
<1>6. overlapped' = IF \E u \in Visitors : visit[u].pc = "mark" /\ visit[u].code = code
                    THEN overlapped \cup {code} ELSE overlapped
  BY DEF CheckCode
<1>7. ASSUME NEW c \in 1 .. MaxCodes, AdmitsOnce(c), c # code PROVE AdmitsOnce(c)'
  <2>1. \A x \in Visitors : Holds(x, c)' =>
           Holds(x, c) /\ (visit'[x].pc # "mark" => visit[x].pc # "mark")
    BY <1>2, <1>4, <1>7 DEF Holds, GoesTo
  <2>2. QED
    BY <1>3, <1>4, <1>7, <2>1, AdmitsOnceStays
<1>8. ASSUME AdmitsOnce(code), code \notin overlapped' PROVE AdmitsOnce(code)'
  <2>1. \A u \in Visitors : ~(visit[u].pc = "mark" /\ visit[u].code = code)
    BY <1>6, <1>8
  <2>2. \A u \in Visitors : ~Holds(u, code)
    BY <1>1, <1>8, <2>1 DEF AdmitsOnce, Holds
  <2>3. admits[code] = 0
    BY <1>1, <1>8 DEF AdmitsOnce
  <2>4. \A u \in Visitors : Holds(u, code)' => u = v /\ visit'[u].pc = "mark"
    BY <1>2, <1>4, <2>2 DEF Holds, GoesTo
  <2>5. QED
    BY <1>1, <1>3, <2>3, <2>4 DEF AdmitsOnce
<1>9. QED
  BY <1>5, <1>6, <1>7, <1>8 DEF AdmitsInv

\* What a visitor that acts on a code is.
LEMMA HolderOf ==
    ASSUME AccountsTypes, NEW v \in Visitors, visit[v].pc \in {"mark", "register", "login"}
    PROVE  /\ visit[v] \in [pc : {"mark", "register", "login"}, email : Emails, purpose : Purposes,
                            code : 1 .. MaxCodes]
           /\ visit[v].code \in DOMAIN otps /\ visit[v].code \in 1 .. MaxCodes
<1>1. visit[v] \in Visit
  BY DEF AccountsTypes
<1>2. visit[v] \in [pc : {"mark", "register", "login"}, email : Emails, purpose : Purposes,
                    code : 1 .. MaxCodes]
  BY <1>1 DEF Visit, NoVisit
<1>3. QED
  BY <1>2 DEF AccountsTypes

\* The code is marked, and it was the visitor's alone.
LEMMA MarkKeeps ==
    ASSUME AdmitsInv, NEW v \in Visitors, MarkCode(v)
    PROVE  AdmitsInv'
<1>0. PICK code \in 1 .. MaxCodes : code = visit[v].code
  BY HolderOf DEF AdmitsInv, MarkCode
<1> DEFINE w == [visit[v] EXCEPT !.pc = visit[v].purpose]
           used == [otps[code] EXCEPT !.live = FALSE]
           H == [pc : {"mark", "register", "login"}, email : Emails, purpose : Purposes,
                 code : 1 .. MaxCodes]
<1>1. visit[v] \in H /\ code \in DOMAIN otps /\ code \in 1 .. MaxCodes /\ visit[v].pc = "mark"
  BY <1>0, HolderOf DEF AdmitsInv, MarkCode
<1>2. w \in H /\ w.pc # "mark" /\ w.code = code
  BY <1>0, <1>1 DEF Purposes
<1>3. w \in Visit
  BY <1>2 DEF Visit
<1>4. AccountsTypes /\ otps \in Seq(Code) /\ Len(otps) \in Nat /\ DOMAIN otps = 1 .. Len(otps)
      /\ otps \in [1 .. Len(otps) -> Code] /\ Len(otps) <= MaxCodes
  BY LenProperties DEF AdmitsInv, AccountsTypes
<1>5. otps[code] \in Code
  BY <1>1, <1>4
<1>6. used \in Code /\ ~used.live
  BY <1>5 DEF Code
<1>7. /\ otps' = [otps EXCEPT ![code] = used]
      /\ visit' = [visit EXCEPT ![v] = w] /\ UNCHANGED <<admits, overlapped>>
  BY <1>0, <1>4 DEF MarkCode, Mark, AccountsTypes
<1> HIDE DEF w, used, H
<1>8. /\ otps' \in [1 .. Len(otps) -> Code] /\ ~otps'[code].live
      /\ \A d \in DOMAIN otps : otps'[d].live => otps[d].live
  BY <1>1, <1>4, <1>6, <1>7
<1>9. otps' \in Seq(Code) /\ Len(otps') <= MaxCodes /\ DOMAIN otps' = DOMAIN otps /\ Tamer
  BY <1>4, <1>8, ChangedCodes
<1>10. GoesTo(v, w)
  BY <1>3, <1>4, <1>7, VisitGoesTo
<1>11. AccountsTypes'
  BY <1>1, <1>2, <1>4, <1>7, <1>9, <1>10 DEF AccountsTypes, GoesTo
<1>12. \A c \in 1 .. MaxCodes, x \in Visitors : Holds(x, c)' => Holds(x, c)
  BY <1>0, <1>1, <1>2, <1>10 DEF Holds, GoesTo
<1>13. ASSUME NEW c \in 1 .. MaxCodes, AdmitsOnce(c), c # code PROVE AdmitsOnce(c)'
  <2>1. \A x \in Visitors : Holds(x, c)' =>
           Holds(x, c) /\ (visit'[x].pc # "mark" => visit[x].pc # "mark")
    BY <1>2, <1>10, <1>12, <1>13 DEF Holds, GoesTo
  <2>2. QED
    BY <1>7, <1>9, <1>13, <2>1, AdmitsOnceStays
<1>14. ASSUME AdmitsOnce(code) PROVE AdmitsOnce(code)'
  BY <1>1, <1>7, <1>8, <1>9, <1>12, <1>14 DEF AdmitsOnce
<1>15. QED
  BY <1>1, <1>7, <1>11, <1>13, <1>14 DEF AdmitsInv

\* The request is answered: the code is nobody's any more.
LEMMA AnswerKeeps ==
    ASSUME AdmitsInv, NEW v \in Visitors, CreateApp(v) \/ FetchApp(v)
    PROVE  AdmitsInv'
<1>1. /\ visit[v].pc \in {"register", "login"} /\ visit' = [visit EXCEPT ![v] = NoVisit]
      /\ UNCHANGED <<otps, overlapped>>
  BY DEF CreateApp, FetchApp, End
<1>2. PICK code \in 1 .. MaxCodes : code = visit[v].code /\ code \in DOMAIN otps /\ Holds(v, code)
  BY <1>1, HolderOf DEF AdmitsInv, Holds
<1>3. PICK n \in {0, 1} : admits' = [admits EXCEPT ![code] = @ + n]
  BY <1>2 DEF CreateApp, FetchApp
<1>4. GoesTo(v, NoVisit) /\ DOMAIN otps' = DOMAIN otps /\ Tamer /\ AccountsTypes
  BY <1>1, NoVisitIsVisit, VisitGoesTo, SameCodes DEF AdmitsInv
<1>5. /\ admits' \in [1 .. MaxCodes -> Nat] /\ admits'[code] = admits[code] + n
      /\ \A c \in 1 .. MaxCodes : c # code => admits'[c] = admits[c]
  BY <1>2, <1>3, <1>4 DEF AccountsTypes
<1>6. AccountsTypes'
  BY <1>1, <1>4, <1>5, NoVisitIsVisit DEF AccountsTypes, GoesTo
<1>7. \A c \in 1 .. MaxCodes, x \in Visitors :
         Holds(x, c)' => x # v /\ Holds(x, c) /\ visit'[x].pc = visit[x].pc
  BY <1>4, NoVisitIsVisit DEF Holds, GoesTo
<1>8. ASSUME NEW c \in 1 .. MaxCodes, AdmitsOnce(c), c # code PROVE AdmitsOnce(c)'
  BY <1>4, <1>5, <1>7, <1>8, AdmitsOnceStays
<1>9. ASSUME AdmitsOnce(code) PROVE AdmitsOnce(code)'
  <2>1. admits[code] = 0 /\ ~otps[code].live
    BY <1>1, <1>2, <1>9 DEF AdmitsOnce
  <2>2. \A x \in Visitors : ~Holds(x, code)'
    BY <1>2, <1>7, <1>9 DEF AdmitsOnce
  <2>3. admits'[code] <= 1
    BY <1>5, <2>1
  <2>4. QED
    BY <1>1, <1>2, <2>1, <2>2, <2>3 DEF AdmitsOnce
<1>10. QED
  BY <1>1, <1>6, <1>8, <1>9 DEF AdmitsInv

LEMMA AccountsNextKeeps == AdmitsInv /\ [AccountsNext]_accountsVars => AdmitsInv'
<1> SUFFICES ASSUME AdmitsInv, [AccountsNext]_accountsVars PROVE AdmitsInv'
  OBVIOUS
<1>1. ASSUME NEW a \in AppIds, RegisterApp(a) PROVE AdmitsInv'
  BY <1>1 DEF RegisterApp, AdmitsInv, AccountsTypes, AdmitsOnce, Holds
<1>2. CASE UNCHANGED accountsVars
  BY <1>2 DEF accountsVars, AdmitsInv, AccountsTypes, AdmitsOnce, Holds
<1>3. QED
  BY <1>1, <1>2, AskKeeps, InvalidateKeeps, InsertCodeKeeps, EndKeeps, ExpiresKeeps, CheckKeeps,
     MarkKeeps, AnswerKeeps DEF AccountsNext

LEMMA AccountsInitInv == AccountsInit => AdmitsInv
<1> SUFFICES ASSUME AccountsInit PROVE AdmitsInv
  OBVIOUS
<1>1. otps \in Seq(Code) /\ Len(otps) = 0 /\ DOMAIN otps = 1 .. 0
  BY EmptySeq, LenProperties DEF AccountsInit
<1>2. MaxCodes \in Nat
  BY AccountsAssumption
<1>3. AccountsTypes
  BY <1>1, <1>2, NoVisitIsVisit DEF AccountsInit, AccountsTypes
<1>4. ASSUME NEW c \in 1 .. MaxCodes PROVE AdmitsOnce(c)
  BY NoVisitIsVisit DEF AccountsInit, AdmitsOnce, Holds
<1>5. QED
  BY <1>3, <1>4 DEF AdmitsInv

\* A one-time code admits once, for any number of visitors, codes and failures,
\* unless two of them had read it before it was marked.
THEOREM CodesAdmitOnceAlways == AccountsSpec => []CodesAdmitOnce
<1>1. AdmitsInv => CodesAdmitOnce
  BY DEF AdmitsInv, AccountsTypes, AdmitsOnce, CodesAdmitOnce
<1>2. QED
  BY <1>1, AccountsInitInv, AccountsNextKeeps, PTL DEF AccountsSpec

-----------------------------------------------------------------------------
(* Templates: rows, editors and the choice of a template *)

Conds == Conditions \cup {Unconditional}
Variants == {VariantKey(c) : c \in Conds}
TemplateRow == [type : Types, channel : {"in_app", "inapp", "push"}, variant : Variants,
                cond : Conds, text : Nat, active : BOOLEAN, updated : Nat]
Creating == [at : {"merge", "drop", "rename", "insert"}, type : Types,
             channel : {"in_app", "push"}, cond : Conds]
Updating == [at : {"update"}, id : TemplateIds, read : TemplateRow, change : Edits]

TemplateTypes ==
    /\ templates \in [TemplateIds -> {Gone} \cup TemplateRow]
    /\ editing \in [Editors -> {NoEdit} \cup Creating \cup Updating]
    /\ made \in Nat /\ clock \in Nat
    /\ \A i \in TemplateIds : i > made => templates[i] = Gone

\* The key of a row is that of its condition.
KeyedByCondition == \A i \in Existing : templates[i].variant = VariantKey(templates[i].cond)

\* The unique constraint.
Clash(i, j) == /\ templates[i].type = templates[j].type
               /\ templates[i].channel = templates[j].channel
               /\ templates[i].variant = templates[j].variant
NoClash == \A i, j \in Existing : Clash(i, j) => i = j

\* A row that is being changed was there, and keeps its type.
ReadsKeepTypes ==
    \A e \in Editors : editing[e].at = "update" =>
        /\ editing[e].id <= made
        /\ templates[editing[e].id] # Gone => editing[e].read.type = templates[editing[e].id].type
        
TemplatesInv == TemplateTypes /\ KeyedByCondition /\ NoClash /\ ReadsKeepTypes

LEMMA GoneIsNoRow == Gone \notin TemplateRow /\ NoEdit \notin Creating \cup Updating /\ NoEdit.at = "idle"
BY DEF Gone, TemplateRow, NoEdit, Creating, Updating

LEMMA RowAt ==
    ASSUME TemplateTypes, NEW i \in Existing
    PROVE  i \in TemplateIds /\ templates[i] \in TemplateRow /\ i <= made /\ i \in Nat
BY TemplatesAssumption DEF Existing, TemplateTypes, TemplateIds

LEMMA KeysAreVariants ==
    ASSUME NEW c \in Conds
    PROVE  VariantKey(c) \in Variants
BY DEF Variants

LEMMA CreatingAt ==
    ASSUME TemplateTypes, NEW e \in Editors,
           editing[e].at \in {"merge", "drop", "rename", "insert"}
    PROVE  editing[e] \in Creating
BY DEF TemplateTypes, Creating, Updating, NoEdit

LEMMA UpdatingAt ==
    ASSUME TemplateTypes, NEW e \in Editors, editing[e].at = "update"
    PROVE  editing[e] \in Updating
BY DEF TemplateTypes, Creating, Updating, NoEdit

\* Rows that were there before keep their type, or are gone.
Steady ==
    /\ made' \in Nat /\ made <= made'
    /\ \A i \in TemplateIds : i <= made /\ templates'[i] # Gone =>
          templates[i] # Gone /\ templates'[i].type = templates[i].type

\* A request that does not read a row for an update goes on to w.
LEMMA EditorGoesOn ==
    ASSUME TemplatesInv, Steady, NEW e \in Editors, NEW w \in {NoEdit} \cup Creating,
           StepOf(e, w)
    PROVE  editing' \in [Editors -> {NoEdit} \cup Creating \cup Updating] /\ ReadsKeepTypes'
<1>1. w.at # "update"
  BY DEF NoEdit, Creating
<1>2. /\ editing' \in [Editors -> {NoEdit} \cup Creating \cup Updating]
      /\ editing'[e] = w /\ \A x \in Editors \ {e} : editing'[x] = editing[x]
  BY DEF TemplatesInv, TemplateTypes, StepOf
<1>3. ASSUME NEW x \in Editors, editing'[x].at = "update"
      PROVE  /\ editing'[x].id <= made'
             /\ templates'[editing'[x].id] # Gone =>
                   editing'[x].read.type = templates'[editing'[x].id].type
  <2>1. x # e /\ editing'[x] = editing[x] /\ editing[x].at = "update"
    BY <1>1, <1>2, <1>3
  <2>2. editing[x].id \in TemplateIds /\ editing[x].id \in Nat
    BY <2>1, UpdatingAt, TemplatesAssumption DEF TemplatesInv, Updating, TemplateIds
  <2>3. /\ editing[x].id <= made
        /\ templates[editing[x].id] # Gone => editing[x].read.type = templates[editing[x].id].type
    BY <2>1 DEF TemplatesInv, ReadsKeepTypes
  <2>4. QED
    BY <2>1, <2>2, <2>3 DEF Steady, TemplatesInv, TemplateTypes
<1>4. QED
  BY <1>2, <1>3 DEF ReadsKeepTypes

\* Rows that stay where they are, or go, do not begin to clash.
LEMMA FewerRowsDoNotClash ==
    ASSUME TemplatesInv,
           \A i \in TemplateIds : templates'[i] # Gone =>
              /\ templates[i] # Gone
              /\ templates'[i].type = templates[i].type
              /\ templates'[i].channel = templates[i].channel
              /\ templates'[i].variant = templates[i].variant
              /\ templates'[i].variant = VariantKey(templates'[i].cond)
    PROVE  KeyedByCondition' /\ NoClash'
<1>1. KeyedByCondition'
  BY DEF KeyedByCondition, Existing, VariantKey, Unconditional
<1>2. NoClash'
  BY DEF TemplatesInv, NoClash, Clash, Existing
<1>3. QED
  BY <1>1, <1>2

LEMMA StartCreateKeeps ==
    ASSUME TemplatesInv, NEW e \in Editors, NEW type \in Types, NEW channel \in {"in_app", "push"},
           NEW cond \in Conds, StartCreate(e, type, channel, cond)
    PROVE  TemplatesInv'
<1> DEFINE w == [at |-> IF channel = "in_app" THEN "merge" ELSE "insert", type |-> type,
                 channel |-> channel, cond |-> cond]
<1>1. w \in Creating
  BY DEF Creating
<1>2. StepOf(e, w) /\ UNCHANGED <<templates, made, clock>>
  BY DEF StartCreate
<1> HIDE DEF w
<1>3. Steady
  BY <1>2 DEF Steady, TemplatesInv, TemplateTypes
<1>4. editing' \in [Editors -> {NoEdit} \cup Creating \cup Updating] /\ ReadsKeepTypes'
  BY <1>1, <1>2, <1>3, EditorGoesOn
<1>5. QED
  BY <1>2, <1>4 DEF TemplatesInv, TemplateTypes, KeyedByCondition, NoClash, Clash, Existing

\* A legacy row has the key of the canonical one it overwrites.
LEMMA MergeKeeps ==
    ASSUME TemplatesInv, NEW e \in Editors, Merge(e)
    PROVE  TemplatesInv'
<1> DEFINE r == editing[e]
           w == [r EXCEPT !.at = "drop"]
           from(i) == CHOOSE j \in Newer(r, i) : TRUE
           over(i) == [templates[i] EXCEPT !.text = templates[from(i)].text,
                                           !.cond = templates[from(i)].cond,
                                           !.active = templates[from(i)].active,
                                           !.updated = templates[from(i)].updated]
           merged(i) == i \in Canonical(r) /\ Newer(r, i) # {}
<1>1. r \in Creating
  BY CreatingAt DEF Merge, TemplatesInv
<1>2. w \in Creating
  BY <1>1 DEF Creating
<1>3. /\ templates' = [i \in TemplateIds |-> IF merged(i) THEN over(i) ELSE templates[i]]
      /\ StepOf(e, w) /\ UNCHANGED <<made, clock>>
  BY DEF Merge
<1>4. ASSUME NEW i \in TemplateIds, merged(i)
      PROVE  /\ over(i) \in TemplateRow /\ templates[i] \in TemplateRow /\ i <= made
             /\ over(i).type = templates[i].type /\ over(i).channel = templates[i].channel
             /\ over(i).variant = templates[i].variant
             /\ over(i).variant = VariantKey(over(i).cond)
  <2>1. from(i) \in Newer(r, i)
    BY <1>4
  <2> HIDE DEF r
  <2>2. from(i) \in Existing /\ i \in Existing
        /\ templates[from(i)].variant = VariantKey(r.cond)
        /\ templates[i].variant = VariantKey(r.cond)
    BY <1>4, <2>1 DEF Newer, Legacy, Canonical, Of
  <2>3. templates[from(i)] \in TemplateRow /\ templates[i] \in TemplateRow /\ i <= made
    BY <2>2, RowAt DEF TemplatesInv
  <2> HIDE DEF from
  <2>4. /\ over(i) \in TemplateRow
        /\ over(i).type = templates[i].type /\ over(i).channel = templates[i].channel
        /\ over(i).variant = templates[i].variant
        /\ over(i).cond = templates[from(i)].cond
    BY <2>3 DEF TemplateRow
  <2> HIDE DEF over
  <2>5. templates[from(i)].variant = VariantKey(templates[from(i)].cond)
    BY <2>2 DEF TemplatesInv, KeyedByCondition
  <2>6. QED
    BY <2>2, <2>3, <2>4, <2>5
<1> HIDE DEF w, over, merged
<1>5. TemplateTypes /\ KeyedByCondition
  BY DEF TemplatesInv
<1>6. ASSUME NEW i \in TemplateIds, templates'[i] # Gone
      PROVE  /\ templates[i] # Gone
             /\ templates'[i].type = templates[i].type
             /\ templates'[i].channel = templates[i].channel
             /\ templates'[i].variant = templates[i].variant
             /\ templates'[i].variant = VariantKey(templates'[i].cond)
  <2>1. CASE merged(i)
    <3>1. templates'[i] = over(i)
      BY <1>3, <2>1
    <3>2. QED
      BY <1>4, <2>1, <3>1, GoneIsNoRow
  <2>2. CASE ~merged(i)
    <3>1. templates'[i] = templates[i]
      BY <1>3, <2>2
    <3>2. i \in Existing
      BY <1>6, <3>1 DEF Existing
    <3>3. QED
      BY <1>5, <1>6, <3>1, <3>2 DEF KeyedByCondition
  <2>3. QED
    BY <2>1, <2>2
<1>7. KeyedByCondition' /\ NoClash'
  BY <1>6, FewerRowsDoNotClash
<1>8. Steady
  BY <1>3, <1>5, <1>6 DEF Steady, TemplateTypes
<1>9. editing' \in [Editors -> {NoEdit} \cup Creating \cup Updating] /\ ReadsKeepTypes'
  BY <1>2, <1>3, <1>8, EditorGoesOn
<1>10. /\ templates' \in [TemplateIds -> {Gone} \cup TemplateRow]
       /\ \A i \in TemplateIds : i > made => templates'[i] = Gone
  BY <1>3, <1>4, <1>5, TemplatesAssumption DEF TemplateTypes, TemplateIds
<1>11. QED
  BY <1>3, <1>5, <1>7, <1>9, <1>10 DEF TemplatesInv, TemplateTypes

\* Rows go: the legacy ones, or the one that is deleted.
LEMMA RowsGoKeeps ==
    ASSUME TemplatesInv, NEW e \in Editors, NEW w \in {NoEdit} \cup Creating, StepOf(e, w),
           NEW S, templates' = [i \in TemplateIds |-> IF i \in S THEN Gone ELSE templates[i]],
           UNCHANGED made, clock' \in Nat
    PROVE  TemplatesInv'
<1>1. TemplateTypes /\ KeyedByCondition
  BY DEF TemplatesInv
<1>2. ASSUME NEW i \in TemplateIds, templates'[i] # Gone
      PROVE  templates'[i] = templates[i] /\ i \in Existing
  BY <1>2 DEF Existing
<1>3. KeyedByCondition' /\ NoClash'
  BY <1>1, <1>2, FewerRowsDoNotClash DEF KeyedByCondition, Existing
<1>4. Steady
  BY <1>1, <1>2 DEF Steady, TemplateTypes
<1>5. editing' \in [Editors -> {NoEdit} \cup Creating \cup Updating] /\ ReadsKeepTypes'
  BY <1>4, EditorGoesOn
<1>6. /\ templates' \in [TemplateIds -> {Gone} \cup TemplateRow]
      /\ \A i \in TemplateIds : i > made => templates'[i] = Gone
  BY <1>1 DEF TemplateTypes
<1>7. QED
  BY <1>1, <1>3, <1>5, <1>6 DEF TemplatesInv, TemplateTypes

LEMMA DropLegacyKeeps ==
    ASSUME TemplatesInv, NEW e \in Editors, DropLegacy(e)
    PROVE  TemplatesInv'
<1> DEFINE r == editing[e]
           w == [r EXCEPT !.at = "rename"]
<1>1. r \in Creating
  BY CreatingAt DEF DropLegacy, TemplatesInv
<1>2. w \in Creating
  BY <1>1 DEF Creating
<1>3. PICK S : S = {i \in Legacy(r) : Canonical(r) # {}}
  OBVIOUS
<1>4. /\ templates' = [i \in TemplateIds |-> IF i \in S THEN Gone ELSE templates[i]]
      /\ StepOf(e, w) /\ UNCHANGED <<made, clock>>
  BY <1>3 DEF DropLegacy
<1> HIDE DEF w
<1>5. clock' \in Nat
  BY <1>4 DEF TemplatesInv, TemplateTypes
<1>6. QED
  BY <1>2, <1>4, <1>5, RowsGoKeeps

LEMMA DeleteKeeps ==
    ASSUME TemplatesInv, NEW e \in Editors, NEW i \in TemplateIds, DeleteTemplate(e, i)
    PROVE  TemplatesInv'
<1>1. templates' = [j \in TemplateIds |-> IF j \in {i} THEN Gone ELSE templates[j]]
  BY DEF DeleteTemplate, TemplatesInv, TemplateTypes
<1>2. StepOf(e, NoEdit) /\ UNCHANGED made /\ clock' \in Nat
  BY DEF DeleteTemplate, Tick, TemplatesInv, TemplateTypes
<1>3. QED
  BY <1>1, <1>2, RowsGoKeeps

\* There is at most one legacy row of a type and condition, and a canonical one
\* makes the statement fail.
LEMMA RenameKeeps ==
    ASSUME TemplatesInv, NEW e \in Editors, Rename(e)
    PROVE  TemplatesInv'
<1> DEFINE r == editing[e]
           w == [r EXCEPT !.at = "insert"]
           as(i) == [templates[i] EXCEPT !.channel = "in_app", !.updated = clock + 1]
<1>1. r \in Creating /\ TemplateTypes
  BY CreatingAt DEF Rename, TemplatesInv
<1>2. w \in Creating
  BY <1>1 DEF Creating
<1>3. CASE Legacy(r) # {} /\ Canonical(r) # {}
  <2>1. StepOf(e, NoEdit) /\ UNCHANGED <<templates, made, clock>>
    BY <1>3 DEF Rename
  <2>2. Steady
    BY <1>1, <2>1 DEF Steady, TemplateTypes
  <2>3. editing' \in [Editors -> {NoEdit} \cup Creating \cup Updating] /\ ReadsKeepTypes'
    BY <2>1, <2>2, EditorGoesOn
  <2>4. QED
    BY <1>1, <2>1, <2>3 DEF TemplatesInv, TemplateTypes, KeyedByCondition, NoClash, Clash, Existing
<1>4. CASE ~(Legacy(r) # {} /\ Canonical(r) # {})
  <2>1. /\ StepOf(e, w) /\ UNCHANGED made /\ clock' = clock + 1
        /\ templates' = [i \in TemplateIds |-> IF i \in Legacy(r) THEN as(i) ELSE templates[i]]
    BY <1>4 DEF Rename, Tick
  <2>2. \A i \in Legacy(r) :
           /\ i \in Existing /\ templates[i].type = r.type /\ templates[i].channel = "inapp"
           /\ templates[i].variant = VariantKey(r.cond)
    BY DEF Legacy, Of
  <2>3. \A i \in Legacy(r) : templates[i] \in TemplateRow /\ i <= made
    BY <1>1, <2>2, RowAt
  <2>4. clock + 1 \in Nat
    BY <1>1 DEF TemplateTypes
  <2>5. \A i \in Legacy(r) :
           /\ as(i) \in TemplateRow /\ as(i).channel = "in_app"
           /\ as(i).type = templates[i].type /\ as(i).variant = templates[i].variant
           /\ as(i).cond = templates[i].cond
    BY <2>3, <2>4 DEF TemplateRow
  <2>6. Legacy(r) # {} => \A i \in Existing :
           ~(templates[i].type = r.type /\ templates[i].channel = "in_app"
             /\ templates[i].variant = VariantKey(r.cond))
    BY <1>4 DEF Canonical, Of
  <2> HIDE DEF r, w, as
  <2>7. ASSUME NEW i \in TemplateIds, templates'[i] # Gone
        PROVE  /\ i \in Existing
               /\ templates'[i].type = templates[i].type
               /\ templates'[i].variant = templates[i].variant
               /\ templates'[i].cond = templates[i].cond
               /\ templates'[i].channel = IF i \in Legacy(r) THEN "in_app" ELSE templates[i].channel
    BY <2>1, <2>2, <2>5, <2>7 DEF Existing
  <2>8. KeyedByCondition'
    BY <2>7 DEF TemplatesInv, KeyedByCondition, Existing, VariantKey, Unconditional
  <2>9. NoClash'
    <3>1. SUFFICES ASSUME NEW i \in TemplateIds, templates'[i] # Gone,
                          NEW j \in TemplateIds, templates'[j] # Gone, Clash(i, j)'
                   PROVE  i = j
      BY DEF NoClash, Existing
    <3>2. i \in Existing /\ j \in Existing
          /\ templates[i].type = templates[j].type /\ templates[i].variant = templates[j].variant
      BY <2>7, <3>1 DEF Clash
    <3>3. (IF i \in Legacy(r) THEN "in_app" ELSE templates[i].channel)
           = (IF j \in Legacy(r) THEN "in_app" ELSE templates[j].channel)
      BY <2>7, <3>1 DEF Clash
    <3>4. templates[i].channel = templates[j].channel
      BY <2>2, <2>6, <3>2, <3>3
    <3>5. QED
      BY <3>2, <3>4 DEF TemplatesInv, NoClash, Clash
  <2>10. Steady
    <3>1. made' = made /\ made \in Nat
      BY <1>1, <2>1 DEF TemplateTypes
    <3>2. QED
      BY <2>7, <3>1 DEF Steady, Existing
  <2>11. editing' \in [Editors -> {NoEdit} \cup Creating \cup Updating] /\ ReadsKeepTypes'
    BY <1>2, <2>1, <2>10, EditorGoesOn DEF w
  <2>12. /\ templates' \in [TemplateIds -> {Gone} \cup TemplateRow]
         /\ \A i \in TemplateIds : i > made => templates'[i] = Gone
    <3>1. ASSUME NEW i \in TemplateIds PROVE templates'[i] \in {Gone} \cup TemplateRow
      BY <1>1, <2>1, <2>5 DEF TemplateTypes
    <3>2. ASSUME NEW i \in TemplateIds, i > made PROVE templates'[i] = Gone
      <4>1. i \notin Legacy(r)
        BY <1>1, <2>3, <3>2, TemplatesAssumption DEF TemplateTypes, TemplateIds
      <4>2. QED
        BY <1>1, <2>1, <3>2, <4>1 DEF TemplateTypes
    <3>3. QED
      BY <2>1, <3>1, <3>2
  <2>13. QED
    BY <1>1, <2>1, <2>4, <2>8, <2>9, <2>11, <2>12 DEF TemplatesInv, TemplateTypes
<1>5. QED
  BY <1>3, <1>4

\* A row is put where there was none, and where no other row is at its type,
\* channel and key.
LEMMA PutDoesNotClash ==
    ASSUME TemplatesInv, NEW k \in TemplateIds, NEW tpl \in TemplateRow,
           tpl.variant = VariantKey(tpl.cond),
           ~Taken(tpl.type, tpl.channel, tpl.variant, {k}),
           templates' = [templates EXCEPT ![k] = tpl]
    PROVE  KeyedByCondition' /\ NoClash'
<1>1. /\ templates'[k] = tpl
      /\ \A i \in TemplateIds : i # k => templates'[i] = templates[i]
  BY DEF TemplatesInv, TemplateTypes
<1>2. KeyedByCondition'
  BY <1>1 DEF TemplatesInv, KeyedByCondition, Existing, VariantKey, Unconditional
<1>3. \A i \in Existing : i # k =>
         ~(templates[i].type = tpl.type /\ templates[i].channel = tpl.channel
           /\ templates[i].variant = tpl.variant)
  BY DEF Taken, Of
<1>4. NoClash'
  <2>1. SUFFICES ASSUME NEW i \in TemplateIds, templates'[i] # Gone,
                        NEW j \in TemplateIds, templates'[j] # Gone, Clash(i, j)'
                 PROVE  i = j
    BY DEF NoClash, Existing
  <2>2. CASE i # k /\ j # k
    BY <1>1, <2>1, <2>2 DEF TemplatesInv, NoClash, Clash, Existing
  <2>3. CASE i = k /\ j # k
    BY <1>1, <1>3, <2>1, <2>3 DEF Clash, Existing
  <2>4. CASE i # k /\ j = k
    BY <1>1, <1>3, <2>1, <2>4 DEF Clash, Existing
  <2>5. QED
    BY <2>2, <2>3, <2>4
<1>5. QED
  BY <1>2, <1>4

LEMMA InsertTemplateKeeps ==
    ASSUME TemplatesInv, NEW e \in Editors, InsertTemplate(e)
    PROVE  TemplatesInv'
<1> DEFINE r == editing[e]
           tpl == [type |-> r.type, channel |-> r.channel, variant |-> VariantKey(r.cond),
                   cond |-> r.cond, text |-> clock + 1, active |-> TRUE, updated |-> clock + 1]
<1>1. r \in Creating /\ TemplateTypes
  BY CreatingAt DEF InsertTemplate, TemplatesInv
<1>2. StepOf(e, NoEdit)
  BY DEF InsertTemplate
<1>3. CASE Taken(r.type, r.channel, VariantKey(r.cond), {})
  <2>1. UNCHANGED <<templates, made, clock>>
    BY <1>3 DEF InsertTemplate
  <2>2. Steady
    BY <1>1, <2>1 DEF Steady, TemplateTypes
  <2>3. editing' \in [Editors -> {NoEdit} \cup Creating \cup Updating] /\ ReadsKeepTypes'
    BY <1>2, <2>2, EditorGoesOn
  <2>4. QED
    BY <1>1, <2>1, <2>3 DEF TemplatesInv, TemplateTypes, KeyedByCondition, NoClash, Clash, Existing
<1>4. CASE ~Taken(r.type, r.channel, VariantKey(r.cond), {})
  <2>1. /\ clock' = clock + 1 /\ made < MaxTemplates /\ made' = made + 1
        /\ templates' = [templates EXCEPT ![made + 1] = tpl]
    BY <1>4 DEF InsertTemplate, Tick
  <2>2. clock + 1 \in Nat /\ made + 1 \in TemplateIds /\ made \in Nat
    BY <1>1, <2>1, TemplatesAssumption DEF TemplateTypes, TemplateIds
  <2>3. /\ tpl \in TemplateRow /\ tpl.variant = VariantKey(tpl.cond)
        /\ tpl.type = r.type /\ tpl.channel = r.channel /\ tpl.variant = VariantKey(r.cond)
    BY <1>1, <2>2, KeysAreVariants DEF Creating, TemplateRow
  <2>4. ~Taken(tpl.type, tpl.channel, tpl.variant, {made + 1})
    BY <1>4, <2>3 DEF Taken
  <2> HIDE DEF tpl, r
  <2>5. KeyedByCondition' /\ NoClash'
    BY <2>1, <2>2, <2>3, <2>4, PutDoesNotClash
  <2>6. /\ templates' \in [TemplateIds -> {Gone} \cup TemplateRow]
        /\ \A i \in TemplateIds : i # made + 1 => templates'[i] = templates[i]
    BY <1>1, <2>1, <2>2, <2>3 DEF TemplateTypes
  <2>7. Steady
    BY <1>1, <2>1, <2>2, <2>6 DEF Steady, TemplateTypes
  <2>8. editing' \in [Editors -> {NoEdit} \cup Creating \cup Updating] /\ ReadsKeepTypes'
    BY <1>2, <2>7, EditorGoesOn
  <2>9. \A i \in TemplateIds : i > made' => templates'[i] = Gone
    BY <1>1, <2>1, <2>2, <2>6, TemplatesAssumption DEF TemplateTypes, TemplateIds
  <2>10. QED
    BY <2>1, <2>2, <2>5, <2>6, <2>8, <2>9 DEF TemplatesInv, TemplateTypes
<1>5. QED
  BY <1>3, <1>4

LEMMA EditsAreTyped ==
    ASSUME NEW ch \in Edits
    PROVE  /\ "cond" \in DOMAIN ch => ch.cond \in Conds
           /\ "active" \in DOMAIN ch => ch.active \in BOOLEAN
<1>1. CASE ch \in [text : {TRUE}]
  <2>1. DOMAIN ch = {"text"}
    BY <1>1
  <2>2. QED
    BY <2>1
<1>2. CASE ch \in [active : BOOLEAN]
  <2>1. DOMAIN ch = {"active"} /\ ch.active \in BOOLEAN
    BY <1>2
  <2>2. QED
    BY <2>1
<1>3. CASE ch \in [cond : Conditions \cup {Unconditional}]
  <2>1. DOMAIN ch = {"cond"} /\ ch.cond \in Conds
    BY <1>3 DEF Conds
  <2>2. QED
    BY <2>1
<1>4. QED
  BY <1>1, <1>2, <1>3 DEF Edits

\* The row that is written belongs to the type and channel that the table has.
LEMMA UpdateTemplateKeeps ==
    ASSUME TemplatesInv, NEW e \in Editors, UpdateTemplate(e)
    PROVE  TemplatesInv'
<1> DEFINE r == editing[e]
           tpl == Written(r.read, r.change, clock + 1)
           put == [tpl EXCEPT !.channel = templates[r.id].channel]
<1>1. r \in Updating /\ TemplateTypes /\ clock + 1 \in Nat
  BY UpdatingAt DEF UpdateTemplate, TemplatesInv, TemplateTypes
<1>2. StepOf(e, NoEdit) /\ UNCHANGED made
  BY DEF UpdateTemplate
<1>3. CASE UNCHANGED <<templates, clock>>
  <2>1. Steady
    BY <1>1, <1>2, <1>3 DEF Steady, TemplateTypes
  <2>2. editing' \in [Editors -> {NoEdit} \cup Creating \cup Updating] /\ ReadsKeepTypes'
    BY <1>2, <2>1, EditorGoesOn
  <2>3. QED
    BY <1>1, <1>2, <1>3, <2>2
       DEF TemplatesInv, TemplateTypes, KeyedByCondition, NoClash, Clash, Existing
<1>4. CASE /\ r.id \in Existing
           /\ ~Taken(templates[r.id].type, templates[r.id].channel, tpl.variant, {r.id})
           /\ clock' = clock + 1
           /\ templates' = [templates EXCEPT ![r.id] = put]
  <2>1. /\ r.read \in TemplateRow /\ r.change \in Edits /\ r.id \in TemplateIds
        /\ editing[e].at = "update"
    BY <1>1 DEF Updating
  <2>2. templates[r.id] \in TemplateRow
    BY <1>1, <1>4, RowAt
  <2>3. r.read.type = templates[r.id].type
    BY <1>4, <2>1 DEF TemplatesInv, ReadsKeepTypes, Existing
  <2>4. PICK cond \in Conds :
           cond = IF "cond" \in DOMAIN r.change THEN r.change.cond ELSE r.read.cond
    <3>1. CASE "cond" \in DOMAIN r.change
      BY <2>1, <3>1, EditsAreTyped
    <3>2. CASE "cond" \notin DOMAIN r.change
      BY <2>1, <3>2 DEF TemplateRow
    <3>3. QED
      BY <3>1, <3>2
  <2>5. PICK active \in BOOLEAN :
           active = IF "active" \in DOMAIN r.change THEN r.change.active ELSE r.read.active
    <3>1. CASE "active" \in DOMAIN r.change
      BY <2>1, <3>1, EditsAreTyped
    <3>2. CASE "active" \notin DOMAIN r.change
      BY <2>1, <3>2 DEF TemplateRow
    <3>3. QED
      BY <3>1, <3>2
  <2>6. PICK said \in Nat : said = IF "text" \in DOMAIN r.change THEN clock + 1 ELSE r.read.text
    BY <1>1, <2>1 DEF TemplateRow
  <2>7. tpl = [r.read EXCEPT !.cond = cond, !.variant = VariantKey(cond), !.active = active,
                             !.text = said, !.updated = clock + 1]
    BY <2>4, <2>5, <2>6 DEF Written
  <2>8. VariantKey(cond) \in Variants
    BY <2>4, KeysAreVariants
  <2> HIDE DEF r
  <2>9. /\ tpl \in TemplateRow /\ tpl.variant = VariantKey(cond) /\ tpl.cond = cond
        /\ tpl.type = r.read.type
    BY <1>1, <2>1, <2>4, <2>5, <2>6, <2>7, <2>8 DEF TemplateRow
  <2> HIDE DEF tpl
  <2>10. /\ put \in TemplateRow /\ put.variant = VariantKey(put.cond)
         /\ put.variant = tpl.variant
         /\ put.type = templates[r.id].type /\ put.channel = templates[r.id].channel
    BY <2>2, <2>3, <2>9 DEF TemplateRow
  <2> HIDE DEF put
  <2>11. PICK k \in TemplateIds : k = r.id
    BY <2>1
  <2>12. KeyedByCondition' /\ NoClash'
    <3>1. /\ templates' = [templates EXCEPT ![k] = put]
          /\ ~Taken(put.type, put.channel, put.variant, {k})
      BY <1>4, <2>10, <2>11
    <3>2. QED
      BY <2>10, <3>1, PutDoesNotClash
  <2>13. /\ templates' \in [TemplateIds -> {Gone} \cup TemplateRow]
         /\ templates'[k] = put
         /\ \A i \in TemplateIds : i # k => templates'[i] = templates[i]
    BY <1>1, <1>4, <2>10, <2>11 DEF TemplateTypes
  <2>14. k <= made /\ templates[k] # Gone
    BY <1>1, <1>4, <2>11, RowAt DEF Existing
  <2>15. Steady
    BY <1>1, <1>2, <2>10, <2>11, <2>13, <2>14 DEF Steady, TemplateTypes
  <2>16. editing' \in [Editors -> {NoEdit} \cup Creating \cup Updating] /\ ReadsKeepTypes'
    BY <1>2, <2>15, EditorGoesOn
  <2>17. \A i \in TemplateIds : i > made => templates'[i] = Gone
    BY <1>1, <2>13, <2>14, TemplatesAssumption DEF TemplateTypes, TemplateIds
  <2>18. QED
    BY <1>1, <1>2, <1>4, <2>12, <2>13, <2>16, <2>17 DEF TemplatesInv, TemplateTypes
<1>5. QED
  BY <1>3, <1>4 DEF UpdateTemplate, Tick

LEMMA ReadTemplateKeeps ==
    ASSUME TemplatesInv, NEW e \in Editors, NEW i \in TemplateIds, NEW change \in Edits,
           ReadTemplate(e, i, change)
    PROVE  TemplatesInv'
<1> DEFINE w == [at |-> "update", id |-> i, read |-> templates[i], change |-> change]
<1>1. templates[i] \in TemplateRow /\ i <= made /\ TemplateTypes
  BY RowAt DEF ReadTemplate, TemplatesInv
<1>2. w \in Updating /\ w.id = i /\ w.read = templates[i]
  BY <1>1 DEF Updating
<1>3. editing' = [editing EXCEPT ![e] = w] /\ UNCHANGED <<templates, made, clock>>
  BY DEF ReadTemplate, StepOf
<1> HIDE DEF w
<1>4. /\ editing' \in [Editors -> {NoEdit} \cup Creating \cup Updating]
      /\ editing'[e] = w /\ \A x \in Editors \ {e} : editing'[x] = editing[x]
  BY <1>1, <1>2, <1>3 DEF TemplateTypes
<1>5. ReadsKeepTypes'
  BY <1>1, <1>2, <1>3, <1>4 DEF TemplatesInv, ReadsKeepTypes
<1>6. QED
  BY <1>1, <1>3, <1>4, <1>5 DEF TemplatesInv, TemplateTypes, KeyedByCondition, NoClash, Clash, Existing

LEMMA TemplateNextKeeps == TemplatesInv /\ [TemplateNext]_templateVars => TemplatesInv'
<1> SUFFICES ASSUME TemplatesInv, [TemplateNext]_templateVars PROVE TemplatesInv'
  OBVIOUS
<1>1. CASE UNCHANGED templateVars
  BY <1>1 DEF templateVars, TemplatesInv, TemplateTypes, KeyedByCondition, NoClash, Clash,
              ReadsKeepTypes, Existing
<1>2. QED
  BY <1>1, StartCreateKeeps, MergeKeeps, DropLegacyKeeps, RenameKeeps, InsertTemplateKeeps,
     ReadTemplateKeeps, UpdateTemplateKeeps, DeleteKeeps DEF TemplateNext, Conds

LEMMA TemplateInitInv == TemplateInit => TemplatesInv
<1> SUFFICES ASSUME TemplateInit PROVE TemplatesInv
  OBVIOUS
<1>1. PICK type \in Types, first \in 1 .. 2, old \in {"inapp", "push"} :
         templates = [i \in TemplateIds |->
            IF i > made THEN Gone
            ELSE [type |-> type, channel |-> IF i = 1 THEN old ELSE "in_app",
                  variant |-> VariantKey(Unconditional), cond |-> Unconditional,
                  text |-> IF i = 1 THEN first ELSE 3 - first, active |-> TRUE,
                  updated |-> IF i = 1 THEN first ELSE 3 - first]]
  BY DEF TemplateInit
<1>2. made \in 0 .. 2 /\ clock = 2 /\ editing = [e \in Editors |-> NoEdit]
  BY DEF TemplateInit
<1>3. Unconditional \in Conds /\ VariantKey(Unconditional) \in Variants
  BY KeysAreVariants DEF Conds
<1>4. \A n \in 1 .. 2 : n \in Nat /\ 3 - n \in Nat
  OBVIOUS
<1>5. ASSUME NEW i \in TemplateIds, ~(i > made)
      PROVE  /\ templates[i] \in TemplateRow /\ templates[i] # Gone
             /\ templates[i].variant = VariantKey(templates[i].cond)
             /\ templates[i].channel = IF i = 1 THEN old ELSE "in_app"
  <2> DEFINE n == IF i = 1 THEN first ELSE 3 - first
             tpl == [type |-> type, channel |-> IF i = 1 THEN old ELSE "in_app",
                     variant |-> VariantKey(Unconditional), cond |-> Unconditional,
                     text |-> n, active |-> TRUE, updated |-> n]
  <2>1. templates[i] = tpl
    BY <1>1, <1>5
  <2>2. n \in Nat
    BY <1>4
  <2> HIDE DEF n
  <2>3. /\ tpl \in TemplateRow /\ tpl.variant = VariantKey(tpl.cond)
        /\ tpl.channel = IF i = 1 THEN old ELSE "in_app"
    BY <1>3, <2>2 DEF TemplateRow
  <2> HIDE DEF tpl
  <2>4. QED
    BY <2>1, <2>3, GoneIsNoRow
<1>6. \A i \in TemplateIds : i > made => templates[i] = Gone
  BY <1>1
<1>7. TemplateTypes
  <2>1. templates \in [TemplateIds -> {Gone} \cup TemplateRow]
    BY <1>1, <1>5, <1>6
  <2>2. QED
    BY <1>2, <1>6, <2>1 DEF TemplateTypes
<1>8. KeyedByCondition
  BY <1>5, <1>6 DEF KeyedByCondition, Existing
<1>9. NoClash
  <2>1. SUFFICES ASSUME NEW i \in Existing, NEW j \in Existing, Clash(i, j) PROVE i = j
    BY DEF NoClash
  <2>2. i \in {1, 2} /\ j \in {1, 2} /\ ~(i > made) /\ ~(j > made)
    BY <1>2, <1>6, TemplatesAssumption DEF Existing, TemplateIds
  <2>3. i = j \/ made = 2
    BY <1>2, <2>2
  <2>4. made = 2 => old = "inapp"
    <3>1. SUFFICES ASSUME made = 2 PROVE old = "inapp"
      OBVIOUS
    <3>2. 1 \in TemplateIds /\ ~(1 > made)
      BY <2>2, <3>1, TemplatesAssumption DEF TemplateIds, TemplateInit
    <3>3. templates[1].channel = old
      BY <1>5, <3>2
    <3>4. templates[1].channel = "inapp"
      BY <3>1, <3>2 DEF TemplateInit
    <3>5. QED
      BY <3>3, <3>4
  <2>5. QED
    BY <1>5, <2>1, <2>2, <2>3, <2>4 DEF Clash, Existing
<1>10. ReadsKeepTypes
  BY <1>2 DEF ReadsKeepTypes, NoEdit
<1>11. QED
  BY <1>7, <1>8, <1>9, <1>10 DEF TemplatesInv

\* Two templates that match one value have the same key.
LEMMA MatchesAreOne ==
    ASSUME TemplatesInv, NEW type \in Types, NEW c \in Conditions
    PROVE  Cardinality(BestMatch(type, "push", [k \in {c.key} |-> c.value])) <= 1
<1> DEFINE vars == [k \in {c.key} |-> c.value]
           best == BestMatch(type, "push", vars)
<1>1. ASSUME NEW i \in best, NEW j \in best PROVE i = j
  <2>1. /\ i \in Existing /\ j \in Existing
        /\ templates[i].type = type /\ templates[j].type = type
        /\ templates[i].channel = "push" /\ templates[j].channel = "push"
        /\ MatchesCondition(templates[i], vars) /\ MatchesCondition(templates[j], vars)
    BY DEF BestMatch, Offered, ChannelCandidates
  <2>2. templates[i].cond = Unconditional <=> templates[j].cond = Unconditional
    BY DEF BestMatch
  <2>3. ASSUME NEW n \in Existing, MatchesCondition(templates[n], vars),
               templates[n].cond # Unconditional
        PROVE  VariantKey(templates[n].cond) = <<c.key, Lower[c.value]>>
    BY <2>3 DEF MatchesCondition, VariantKey
  <2>4. VariantKey(templates[i].cond) = VariantKey(templates[j].cond)
    BY <2>1, <2>2, <2>3
  <2>5. templates[i].variant = templates[j].variant
    BY <2>1, <2>4 DEF TemplatesInv, KeyedByCondition
  <2>6. QED
    BY <2>1, <2>5 DEF TemplatesInv, NoClash, Clash
<1> HIDE DEF best
<1>2. best = {} \/ \E i \in best : best = {i}
  BY <1>1
<1>3. Cardinality(best) <= 1
  BY <1>2, FS_EmptySet, FS_Singleton
<1>4. QED
  BY <1>3 DEF best

\* However requests that create, merge, rename, change and delete templates
\* interleave, no two rows of a type match the same value of a variable.
THEOREM ConditionsDecideAloneAlways == TemplateSpec => []ConditionsDecideAlone
<1>1. TemplatesInv => ConditionsDecideAlone
  BY MatchesAreOne DEF ConditionsDecideAlone
<1>2. QED
  BY <1>1, TemplateInitInv, TemplateNextKeeps, PTL DEF TemplateSpec

=============================================================================
