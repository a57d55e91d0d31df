------------------------------- MODULE Audiences -------------------------------
(***************************************************************************)
(* The members of an audience and the broadcasts to them                   *)
(* (src/api/routes/audiences.js). A broadcast walks the members in pages   *)
(* ordered by id and notifies each page in small concurrent batches, while *)
(* other requests add, remove and import members. Ids are random: a new    *)
(* member may sort before or after any other. The notify handler it calls  *)
(* is the module Submission; here it answers "queued" or "skipped".        *)
(***************************************************************************)
EXTENDS Naturals, FiniteSets

CONSTANTS MemberIds,             \* the member ids that may be drawn
          Broadcasts,            \* concurrent POST /audiences/:id/notify requests
          BroadcastPageSize,     \* BROADCAST_PAGE_SIZE
          BroadcastConcurrency,  \* BROADCAST_CONCURRENCY
          MaxDraws,              \* bound: members ever added
          MaxCrashes             \* bound: processes that stop in a broadcast

ASSUME AudiencesAssumption ==
    /\ MemberIds \subseteq Nat \ {0}
    /\ IsFiniteSet(MemberIds)           \* UUIDs
    /\ BroadcastPageSize \in Nat \ {0}
    /\ BroadcastConcurrency \in Nat \ {0}
    /\ MaxDraws \in Nat
    /\ MaxCrashes \in Nat

VARIABLES exists,      \* the audience row is there
          members,     \* ids of its members
          drawn,        \* ids drawn so far: none is drawn twice
          broadcasts,  \* what each broadcast is at
          crashes

audienceVars == <<exists, members, drawn, broadcasts, crashes>>

NoBroadcast == [at |-> "none", cursor |-> 0, page |-> {}, full |-> FALSE, told |-> {},
          queued |-> 0, skipped |-> 0, throughout |-> {}, twice |-> FALSE]

AudienceInit ==
    /\ exists = TRUE
    /\ members \in {s \in SUBSET MemberIds : Cardinality(s) <= MaxDraws}
    /\ drawn = members
    /\ broadcasts = [b \in Broadcasts |-> NoBroadcast]
    /\ crashes = 0

-----------------------------------------------------------------------------

\* Members that leave are no longer ones a broadcast has to reach.
Without(gone) == [b \in Broadcasts |->
                    [broadcasts[b] EXCEPT !.throughout = @ \ gone]]

\* POST /audiences/:id/members, and an import in mode append.
AddMembers(new) ==
    /\ exists
    /\ new \subseteq MemberIds \ drawn
    /\ Cardinality(drawn \cup new) <= MaxDraws
    /\ members' = members \cup new
    /\ drawn' = drawn \cup new
    /\ UNCHANGED <<exists, broadcasts, crashes>>

\* DELETE /audiences/:id/members/:memberId
RemoveMember(m) ==
    /\ m \in members
    /\ members' = members \ {m}
    /\ broadcasts' = Without({m})
    /\ UNCHANGED <<exists, drawn, crashes>>

\* An import in mode replace: one transaction deletes every member and inserts
\* the rows of the file, under new ids.
ReplaceMembers(new) ==
    /\ exists
    /\ new \subseteq MemberIds \ drawn
    /\ Cardinality(drawn \cup new) <= MaxDraws
    /\ members' = new
    /\ drawn' = drawn \cup new
    /\ broadcasts' = Without(members)
    /\ UNCHANGED <<exists, crashes>>

\* DELETE /audiences/:id takes the members along (ON DELETE CASCADE).
DeleteAudience ==
    /\ exists
    /\ exists' = FALSE
    /\ members' = {}
    /\ broadcasts' = Without(members)
    /\ UNCHANGED <<drawn, crashes>>

\* POST /audiences/:id/notify: the audience is looked up, the templates prepared.
StartBroadcast(b) ==
    /\ broadcasts[b].at = "none"
    /\ exists
    /\ broadcasts' = [broadcasts EXCEPT ![b] = [NoBroadcast EXCEPT !.at = "reading",
                                                           !.throughout = members]]
    /\ UNCHANGED <<exists, members, drawn, crashes>>

\* The first members, by id, after the cursor.
Smallest(s, n) == {m \in s : Cardinality({k \in s : k < m}) < n}
MemberPageFrom(cursor) == Smallest({m \in members : m >= cursor}, BroadcastPageSize)
MemberPage(cursor) == Smallest({m \in members : m > cursor}, BroadcastPageSize)

ReadPage(b) ==
    LET page == MemberPage(broadcasts[b].cursor) IN
    /\ broadcasts[b].at = "reading"
    /\ broadcasts' = [broadcasts EXCEPT ![b].at = IF page = {} THEN "done" ELSE "telling",
                                      ![b].page = page,
                                      ![b].full = Cardinality(page) = BroadcastPageSize]
    /\ UNCHANGED <<exists, members, drawn, crashes>>

\* The cursor is the last id of the page; a short page is the last one.
Advanced(r, batch, queued) ==
    LET left == r.page \ batch
        last == CHOOSE m \in r.page : \A k \in r.page : k <= m
    IN  [r EXCEPT !.page = left,
                  !.cursor = IF left = {} THEN last ELSE @,
                  !.at = IF left # {} THEN "telling" ELSE IF r.full THEN "reading" ELSE "done",
                  !.twice = @ \/ r.told \cap batch # {},
                  !.told = @ \cup batch,
                  !.queued = @ + queued,
                  !.skipped = @ + Cardinality(batch) - queued]

\* One batch of Promise.all: each member of it is queued or skipped.
TellBatch(b) ==
    LET r == broadcasts[b]
        batch == Smallest(r.page, BroadcastConcurrency)
    IN  /\ r.at = "telling"
        /\ \E queued \in 0..Cardinality(batch) :
              broadcasts' = [broadcasts EXCEPT ![b] = Advanced(r, batch, queued)]
        /\ UNCHANGED <<exists, members, drawn, crashes>>

\* The process stops, or a read fails: the rest of the members hear nothing, and
\* a client that asks again starts with the first one.
Crash(b) ==
    /\ broadcasts[b].at \in {"reading", "telling"}
    /\ crashes < MaxCrashes
    /\ crashes' = crashes + 1
    /\ broadcasts' = [broadcasts EXCEPT ![b] = NoBroadcast]
    /\ UNCHANGED <<exists, members, drawn>>

AudienceNext ==
    \/ \E new \in SUBSET MemberIds : AddMembers(new) \/ ReplaceMembers(new)
    \/ \E m \in MemberIds : RemoveMember(m)
    \/ DeleteAudience
    \/ \E b \in Broadcasts : StartBroadcast(b) \/ ReadPage(b) \/ TellBatch(b) \/ Crash(b)

AudienceSpec == AudienceInit /\ [][AudienceNext]_audienceVars

-----------------------------------------------------------------------------

\* A broadcast tells no member twice, accounts for every one it told, and when it
\* ends has told each member that was there all the time, whoever was added,
\* removed or imported meanwhile (src/api/routes/audiences.js:597-733).
BroadcastReachesEachOnce ==
    \A b \in Broadcasts :
        /\ ~broadcasts[b].twice
        /\ broadcasts[b].queued + broadcasts[b].skipped = Cardinality(broadcasts[b].told)
        /\ broadcasts[b].at = "done" => broadcasts[b].throughout \subseteq broadcasts[b].told
=============================================================================
