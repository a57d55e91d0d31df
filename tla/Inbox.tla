--------------------------------- MODULE Inbox ---------------------------------
(***************************************************************************)
(* The notifications of one owner as its readers see them: the user's      *)
(* inbox (src/api/routes/notifications.js) and the pages of the owner's    *)
(* list (src/api/routes/entities.js), which continue after a cursor. The   *)
(* cursor carries the creation time of the last row of a page in           *)
(* milliseconds; the table orders its rows by microseconds.                *)
(***************************************************************************)
EXTENDS Naturals, Sequences, FiniteSets

CONSTANTS Readers,        \* clients that page through the list
          InboxPageSize,  \* limit of a page
          MaxInbox,       \* bound: notifications
          MaxMillis       \* bound: milliseconds

ASSUME InboxAssumption == /\ InboxPageSize \in Nat \ {0}
                          /\ MaxInbox \in Nat
                          /\ MaxMillis \in Nat

VARIABLES inboxRows,  \* notifications in order of creation, with their millisecond
          millis,     \* the millisecond
          deletions,  \* notification_deleted events broadcast, by row
          walk        \* what each reader was shown

inboxVars == <<inboxRows, millis, deletions, walk>>

RowIds == 1..Len(inboxRows)
NoWalk == [at |-> "none", cursor |-> 0, shown |-> {}, lasts |-> {}, before |-> {},
           again |-> FALSE]

InboxInit ==
    /\ inboxRows = <<>>
    /\ millis = 0
    /\ deletions = [n \in 1..MaxInbox |-> <<>>]
    /\ walk = [r \in Readers |-> NoWalk]

-----------------------------------------------------------------------------

\* A notification is created (by the notify handler).
Create ==
    /\ Len(inboxRows) < MaxInbox
    /\ inboxRows' = Append(inboxRows, [ms |-> millis, read |-> FALSE, removed |-> FALSE])
    /\ UNCHANGED <<millis, deletions, walk>>

Millisecond ==
    /\ millis < MaxMillis
    /\ millis' = millis + 1
    /\ UNCHANGED <<inboxRows, deletions, walk>>

\* PATCH /notifications/:id/read
Unread(n) == ~inboxRows[n].read /\ ~inboxRows[n].removed

MarkRead(n) ==
    /\ n \in RowIds
    /\ Unread(n)
    /\ inboxRows' = [inboxRows EXCEPT ![n].read = TRUE]
    /\ UNCHANGED <<millis, deletions, walk>>

\* POST /notifications/:userId/read-all
ReadAll ==
    /\ inboxRows' = [n \in RowIds |-> IF Unread(n) THEN [inboxRows[n] EXCEPT !.read = TRUE]
                                    ELSE inboxRows[n]]
    /\ UNCHANGED <<millis, deletions, walk>>

\* DELETE /notifications/:id hides the row and tells the connected clients
\* whether it still counted as unread.
RemoveRow(n) ==
    /\ n \in RowIds
    /\ ~inboxRows[n].removed
    /\ inboxRows' = [inboxRows EXCEPT ![n].removed = TRUE]
    /\ deletions' = [deletions EXCEPT ![n] = Append(@, inboxRows[n].read)]
    /\ UNCHANGED <<millis, walk>>

\* GET /entities/:ownerId/notifications without a cursor ...
StartWalk(r) ==
    /\ walk[r].at = "none"
    /\ walk' = [walk EXCEPT ![r] = [NoWalk EXCEPT !.at = "first", !.before = RowIds]]
    /\ UNCHANGED <<inboxRows, millis, deletions>>

NotNewer(r) == {n \in RowIds : walk[r].at = "first" \/ inboxRows[n].ms <= walk[r].cursor}

\* ... and with one: rows created before the cursor's millisecond. Removed rows
\* are shown too.
Older(r) == {n \in RowIds : walk[r].at = "first" \/ inboxRows[n].ms < walk[r].cursor}

\* Newest first; one row more than the page tells whether there is another page.
Latest(s, k) == {n \in s : Cardinality({m \in s : m > n}) < k}

NextPage(r) ==
    LET older == Older(r)
        page == Latest(older, InboxPageSize)
        last == CHOOSE n \in page : \A m \in page : n <= m
        more == Cardinality(older) > InboxPageSize
        w == walk[r]
    IN  /\ w.at \in {"first", "next"}
        /\ walk' = [walk EXCEPT ![r] =
                       [at |-> IF more THEN "next" ELSE "done",
                        cursor |-> IF more THEN inboxRows[last].ms ELSE w.cursor,
                        shown |-> w.shown \cup page,
                        lasts |-> IF more THEN w.lasts \cup {last} ELSE w.lasts,
                        before |-> w.before,
                        again |-> w.again \/ w.shown \cap page # {}]]
        /\ UNCHANGED <<inboxRows, millis, deletions>>

InboxNext ==
    \/ Create
    \/ Millisecond
    \/ \E n \in 1..MaxInbox : MarkRead(n) \/ RemoveRow(n)
    \/ ReadAll
    \/ \E r \in Readers : StartWalk(r) \/ NextPage(r)

InboxSpec == InboxInit /\ [][InboxNext]_inboxVars

-----------------------------------------------------------------------------

\* GET /notifications/:userId/unread-count
UnreadCount == Cardinality({n \in RowIds : Unread(n)})

\* A reader who follows the cursors sees no row twice, and of the rows that were
\* there when the first page was asked for misses only ones created in the same
\* millisecond as the last row of a page: notifications keep arriving meanwhile,
\* and the cursor is coarser than the order (src/api/routes/entities.js:437-482).
PagesMissOnlyTies ==
    \A r \in Readers :
        /\ ~walk[r].again
        /\ walk[r].at = "done" =>
             \A n \in walk[r].before \ walk[r].shown :
                 \E last \in walk[r].lasts : inboxRows[n].ms = inboxRows[last].ms /\ n < last
=============================================================================
