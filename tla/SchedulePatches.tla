--------------------------- MODULE SchedulePatches ---------------------------
(***************************************************************************)
(* When a schedule runs next, through requests that change it at the same   *)
(* time (src/src/api/routes/schedules.js).  PATCH reads the row, computes    *)
(* next_run_at from the row with the request's fields over it, and writes    *)
(* the request's fields and next_run_at: two statements and no lock.  The    *)
(* poller advances next_run_at under the row's lock.                        *)
(*                                                                         *)
(* Schedules.tla has PATCH as one step and no timing.  Here next_run_at is   *)
(* the timing it was computed from: how, is NextRun's concern.              *)
(***************************************************************************)
EXTENDS Naturals, FiniteSets

CONSTANTS
    Patchers,       \* PATCH requests under way
    TimingFields,   \* frequency, day_of_week, time_of_day, run_at, ..
    TimingValues,
    TimingChanges,  \* what PATCHes make of some of the fields; of none, if they name others
    Computable,     \* the timings for which computeInitialNextRun finds an instant
    MaxWrites       \* bound: statements that write the row

Timings == [TimingFields -> TimingValues]

ASSUME PatchAssumption ==
    /\ Computable \subseteq Timings /\ MaxWrites \in Nat
    /\ TimingChanges \subseteq UNION {[F -> TimingValues] : F \in SUBSET TimingFields}

VARIABLES
    stored,     \* whether the schedule is there
    timing,     \* its timing fields
    nextFrom,   \* the timing next_run_at was computed from
    patch,      \* a PATCH between its two statements: its change, and what it computed
    crossed,    \* history: PATCHes during whose computation another changed the timing
    mixed,      \* history: next_run_at was written by such a PATCH
    writes      \* writes so far

patchVars == <<stored, timing, nextFrom, patch, crossed, mixed, writes>>

NoPatchUnderWay == [reading |-> FALSE, change |-> [f \in {} |-> 0], computed |-> "nothing"]

PatchInit ==
    /\ stored = FALSE /\ timing \in Computable /\ nextFrom = timing
    /\ patch = [r \in Patchers |-> NoPatchUnderWay]
    /\ crossed = {} /\ mixed = FALSE /\ writes = 0

-----------------------------------------------------------------------------

OverTiming(t, change) == [f \in TimingFields |-> IF f \in DOMAIN change THEN change[f] ELSE t[f]]

\* The row with the request over it, and the other way round.
RowOverRequest(t, change) == t
RequestOverRow(t, change) == OverTiming(t, change)

ChangesTiming(change) == DOMAIN change # {}
WritesRow == writes < MaxWrites /\ writes' = writes + 1

\* POST /schedules: what it asks of the fields is what computing from them needs.
CreateTimed ==
    /\ ~stored /\ stored' = TRUE /\ WritesRow
    /\ timing' \in Computable /\ nextFrom' = timing' /\ mixed' = FALSE
    /\ UNCHANGED <<patch, crossed>>

\* SELECT, validation and computeInitialNextRun over the merged row; a timing it
\* cannot compute is answered with 400, and the request is over.
ReadForPatch(r, change) ==
    /\ stored /\ ~patch[r].reading
    /\ ChangesTiming(change) => RequestOverRow(timing, change) \in Computable
    /\ patch' = [patch EXCEPT ![r] =
                    [reading |-> TRUE, change |-> change,
                     computed |-> IF ChangesTiming(change) THEN RequestOverRow(timing, change) ELSE "nothing"]]
    /\ crossed' = crossed \ {r}
    /\ UNCHANGED <<stored, timing, nextFrom, mixed, writes>>

\* UPDATE .. SET the fields of the request, and next_run_at if it changes timing.
\* A schedule deleted in between is not written, and nobody is told.
WritePatch(r) ==
    LET change == patch[r].change
    IN  /\ patch[r].reading /\ WritesRow
        /\ patch' = [patch EXCEPT ![r] = NoPatchUnderWay]
        /\ IF stored /\ ChangesTiming(change)
           THEN /\ timing' = OverTiming(timing, change)
                /\ nextFrom' = patch[r].computed
                /\ mixed' = (r \in crossed)
                /\ crossed' = {q \in Patchers \ {r} : patch[q].reading}
           ELSE UNCHANGED <<timing, nextFrom, mixed, crossed>>
        /\ UNCHANGED stored

\* The poller computes the next run of a recurring schedule from the row it locked.
AdvanceRun ==
    /\ stored /\ timing \in Computable /\ WritesRow
    /\ nextFrom' = timing /\ mixed' = FALSE
    /\ UNCHANGED <<stored, timing, patch, crossed>>

\* DELETE /schedules/:id; an id is not used again, so a PATCH still under way is lost.
DeleteTimed ==
    /\ stored /\ stored' = FALSE /\ WritesRow
    /\ crossed' = {q \in Patchers : patch[q].reading}
    /\ UNCHANGED <<timing, nextFrom, patch, mixed>>

PatchNext ==
    \/ CreateTimed \/ AdvanceRun \/ DeleteTimed
    \/ \E r \in Patchers : WritePatch(r) \/ \E change \in TimingChanges : ReadForPatch(r, change)

PatchSpec == PatchInit /\ [][PatchNext]_patchVars

-----------------------------------------------------------------------------

PatchTypeOK ==
    /\ stored \in BOOLEAN /\ timing \in Timings /\ nextFrom \in Timings
    /\ \A r \in Patchers : /\ patch[r].reading \in BOOLEAN
                           /\ patch[r].change \in TimingChanges \cup {NoPatchUnderWay.change}
    /\ crossed \subseteq Patchers /\ mixed \in BOOLEAN /\ writes \in 0..MaxWrites

\* next_run_at is computed from the timing in the row, and from one that can be
\* computed, whatever PATCHes of one field at a time do to a schedule, unless a
\* PATCH changed the timing while another was computing.  The mixture lasts until
\* the poller advances the schedule, or for ever if nothing can be computed from it.
NextRunFollowsTiming == stored /\ ~mixed => nextFrom = timing /\ timing \in Computable
=============================================================================
