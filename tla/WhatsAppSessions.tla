-------------------------- MODULE WhatsAppSessions --------------------------
(***************************************************************************)
(* The WhatsApp sessions of one app: the table whatsapp_sessions, the       *)
(* routes of src/src/api/routes/whatsapp-sessions.js, the search for the    *)
(* session of a send (src/src/utils/whatsapp-session.js) and the Redis key  *)
(* bluemq:fallback_entity:<app> (src/src/utils/template-cache.js), which    *)
(* holds the entity of the app's fallback session for the template lookup.  *)
(*                                                                         *)
(* A request's transaction is one step; the invalidation that follows it    *)
(* is another.  invalidateEntityCache deletes keys no code ever writes.     *)
(***************************************************************************)
EXTENDS Integers, Sequences, FiniteSets

CONSTANTS
    Entities,       \* entity ids
    Nobody,         \* no entity
    Admins,         \* requests that may run at once
    Lookups,        \* template lookups that may run at once
    MaxRequests     \* bound: requests that change a session

ASSUME SessionsAssumption ==
    /\ Nobody \notin Entities /\ IsFiniteSet(Entities)
    /\ MaxRequests \in Nat

VARIABLES
    session,    \* the row of each entity
    cached,     \* the cached fallback entity, Nobody if the key is absent
    fill,       \* per lookup: the entity it read and is about to cache
    owing,      \* the requests that still have to delete the key
    tainted,    \* history: a change passed the cached value without a DEL
    requests    \* requests so far

sessionVars == <<session, cached, fill, owing, tainted, requests>>

Somebody == Entities \cup {Nobody}
NoSession == [status |-> "none", fallback |-> FALSE, parent |-> Nobody]
SessionType == [status : {"none", "active", "disconnected"},
                fallback : BOOLEAN, parent : Somebody]

\* A lookup's value and whether the fallback changed since it was read.
NoFill == [value |-> Nobody, crossed |-> FALSE]
Filling(e) == [value |-> e, crossed |-> FALSE]

Configured(rows, e) == rows[e].status # "none"
Active(rows, e) == rows[e].status = "active"

\* findWhatsAppFallbackSession: the active session marked as fallback.
FallbackOf(rows) ==
    IF \E e \in Entities : rows[e].fallback /\ Active(rows, e)
    THEN CHOOSE e \in Entities : rows[e].fallback /\ Active(rows, e)
    ELSE Nobody

SessionsInit ==
    /\ session = [e \in Entities |-> NoSession]
    /\ cached = Nobody
    /\ fill = [l \in Lookups |-> NoFill]
    /\ owing = {}
    /\ tainted = FALSE
    /\ requests = 0

-----------------------------------------------------------------------------
(* The routes *)

\* UPDATE .. SET is_fallback = false WHERE entity_id <> e
Unmarked(rows, e) ==
    [x \in Entities |-> IF x = e THEN rows[x] ELSE [rows[x] EXCEPT !.fallback = FALSE]]

\* A committed change: lookups between their SELECT and their SETEX now hold
\* what may no longer be true.
Write(rows) ==
    /\ requests < MaxRequests
    /\ requests' = requests + 1
    /\ session' = rows
    /\ fill' = [l \in Lookups |->
                  IF fill[l] # NoFill /\ FallbackOf(rows) # FallbackOf(session)
                  THEN [fill[l] EXCEPT !.crossed = TRUE] ELSE fill[l]]
    /\ UNCHANGED cached

\* Mutant: POST does not delete the key either.
AnnouncedNever(a) == UNCHANGED <<owing, tainted>>

Announced(a) == owing' = owing \cup {a} /\ UNCHANGED tainted
Unannounced == tainted' = (tainted \/ cached # Nobody) /\ UNCHANGED owing

\* POST /sessions: an upsert, which replaces parent and mark.  Only a POST that
\* sets the mark deletes the key.
ConfigureSession(a, e, parent, fallback) ==
    /\ a \notin owing
    /\ parent # e
    /\ Write([IF fallback THEN Unmarked(session, e) ELSE session EXCEPT
                ![e] = [status |-> "active", fallback |-> fallback, parent |-> parent]])
    /\ IF fallback THEN Announced(a) ELSE Unannounced

\* PATCH /sessions/:entity_id/fallback, on a session of any status.
MarkFallback(e, fallback) ==
    /\ Configured(session, e)
    /\ Write([IF fallback THEN Unmarked(session, e) ELSE session EXCEPT
                ![e].fallback = fallback])
    /\ Unannounced

\* DELETE /sessions/:entity_id, which leaves the mark.
Disconnect(e) ==
    /\ Configured(session, e)
    /\ Write([session EXCEPT ![e].status = "disconnected"])
    /\ Unannounced

\* invalidateFallbackEntity after COMMIT.
Invalidate(a) ==
    /\ a \in owing
    /\ owing' = owing \ {a}
    /\ cached' = Nobody
    /\ tainted' = FALSE
    /\ UNCHANGED <<session, fill, requests>>

\* Redis fails, which is swallowed, or the process dies after COMMIT.
InvalidateFails(a) ==
    /\ a \in owing
    /\ owing' = owing \ {a}
    /\ tainted' = (tainted \/ cached # Nobody)
    /\ UNCHANGED <<session, cached, fill, requests>>

-----------------------------------------------------------------------------
(* resolveTemplateEntityCandidates *)

\* A miss, or a GET that failed: the fallback is read from the table.  Nothing
\* is cached when there is none.
ReadFallback(l) ==
    /\ fill[l] = NoFill
    /\ FallbackOf(session) # Nobody
    /\ fill' = [fill EXCEPT ![l] = Filling(FallbackOf(session))]
    /\ UNCHANGED <<session, cached, owing, tainted, requests>>

\* SETEX
CacheFallback(l) ==
    /\ fill[l] # NoFill
    /\ cached' = fill[l].value
    /\ tainted' = fill[l].crossed
    /\ fill' = [fill EXCEPT ![l] = NoFill]
    /\ UNCHANGED <<session, owing, requests>>

\* SETEX fails, or the process dies.
CacheFails(l) ==
    /\ fill[l] # NoFill
    /\ fill' = [fill EXCEPT ![l] = NoFill]
    /\ UNCHANGED <<session, cached, owing, tainted, requests>>

\* The time to live of the key.
Expire ==
    /\ cached # Nobody
    /\ cached' = Nobody
    /\ tainted' = FALSE
    /\ UNCHANGED <<session, fill, owing, requests>>

SessionsNext ==
    \/ \E a \in Admins, e \in Entities, parent \in Somebody, fallback \in BOOLEAN :
          ConfigureSession(a, e, parent, fallback)
    \/ \E e \in Entities, fallback \in BOOLEAN : MarkFallback(e, fallback)
    \/ \E e \in Entities : Disconnect(e)
    \/ \E a \in Admins : Invalidate(a) \/ InvalidateFails(a)
    \/ \E l \in Lookups : ReadFallback(l) \/ CacheFallback(l) \/ CacheFails(l)
    \/ Expire

SessionsSpec == SessionsInit /\ [][SessionsNext]_sessionVars

-----------------------------------------------------------------------------
(* Which session sends *)

\* Mutant: the parent a session names is not followed.
WalkNoParents(rows) == [x \in Seq(Somebody) \X SUBSET Entities |->
    IF x[1] = <<>> THEN Nobody ELSE IF Head(x[1]) \in Entities /\ Active(rows, Head(x[1]))
                                    THEN Head(x[1]) ELSE Nobody]

\* The loop of resolveWhatsAppSession: a queue of candidates, each looked at
\* once, a session that is not active contributing its parent.
Walk(rows) ==
    LET walk[x \in Seq(Somebody) \X SUBSET Entities] ==
          LET queue == x[1]
              visited == x[2]
              e == Head(queue)
              rest == Tail(queue)
              parents == IF rows[e].parent # Nobody THEN <<rows[e].parent>> ELSE <<>>
          IN  IF queue = <<>> THEN Nobody
              ELSE IF e = Nobody \/ e \in visited THEN walk[<<rest, visited>>]
              ELSE IF Active(rows, e) THEN e
              ELSE walk[<<rest \o parents, visited \cup {e}>>]
    IN walk

\* The entity whose session sends for `e` with the parent the request names.
ResolveSession(rows, e, parent) ==
    LET found == Walk(rows)[<<<<e, parent>>, {}>>]
    IN IF found # Nobody THEN found ELSE FallbackOf(rows)

\* Mutant: the parent before the entity.
CandidatesParentFirst(e, parent, fallback) == <<parent, e, fallback>>

\* resolveTemplateEntityCandidates: the entity, the parent the request names
\* and the cached fallback, in this order; who searches them skips Nobody.
Candidates(e, parent, fallback) == <<e, parent, fallback>>

-----------------------------------------------------------------------------
(* Properties *)

SessionsTypeOK ==
    /\ session \in [Entities -> SessionType]
    /\ cached \in Somebody
    /\ fill \in [Lookups -> [value : Somebody, crossed : BOOLEAN]]
    /\ owing \in SUBSET Admins
    /\ tainted \in BOOLEAN
    /\ requests \in 0 .. MaxRequests

\* The index of migration 021: one fallback session at most.
OneFallback ==
    \A e, f \in Entities : session[e].fallback /\ session[f].fallback => e = f

\* A cached fallback that is not the app's active fallback is explained by an
\* invalidation still to come, or by one that went missing: a PATCH, a DELETE
\* or a POST without mark since it was cached, a failed DEL, or a lookup that
\* read before a change and cached after it.
CachedFallbackIsCurrent ==
    cached \in {Nobody, FallbackOf(session)} \/ tainted \/ owing # {}

\* Parents of inactive sessions lead from x to y: no set with x and with the
\* parents of its inactive members is without y.
HasParents(T) == \A e \in T \ {Nobody} : Active(session, e) \/ session[e].parent \in T
Reaches(x, y) == ~ \E T \in SUBSET (Somebody \ {y}) : x \in T /\ HasParents(T)

\* Whatever parents the sessions name, cycles included, the search ends; it
\* takes an active session reachable from the request if there is one, the
\* entity's own before its parent's, and the fallback only if there is none.
ResolutionIsNearest ==
    \A e, parent \in Somebody :
        LET found == ResolveSession(session, e, parent)
            near == {x \in Entities : Active(session, x) /\ (Reaches(e, x) \/ Reaches(parent, x))}
        IN /\ near # {} => found \in near
           /\ near = {} => found = FallbackOf(session)
           /\ e \in near => found = e
           /\ e \notin near /\ parent \in near => found = parent

\* Contradicted: COMPLETE_IMPLEMENTATION_SUMMARY.md:163 says that marking or
\* unmarking a session as fallback invalidates the cached fallback.
FallbackChangeInvalidates ==
    [][FallbackOf(session') # FallbackOf(session) => owing' # {} \/ cached' = Nobody]_sessionVars
=============================================================================
