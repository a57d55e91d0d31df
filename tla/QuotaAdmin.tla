----------------------------- MODULE QuotaAdmin -----------------------------
(***************************************************************************)
(* The administration of quotas of one app: quota_profiles with the limits   *)
(* of one channel, owner_quota, the routes of src/src/api/routes/quota.js,   *)
(* and what src/src/utils/quota.js derives from them: the limit of an owner, *)
(* and the per-process flag whether the app has quotas at all.               *)
(*                                                                         *)
(* Every SQL statement of a route is a step of its own, except in the bulk    *)
(* assignment, which is a transaction.  Names, labels and the period of a     *)
(* limit are left out; Quota has the counters, here a sum of units per owner. *)
(***************************************************************************)
EXTENDS Integers, FiniteSets

CONSTANTS
    Profiles,       \* profile ids, each used once
    Owners,         \* owner ids
    Refused,        \* owner ids the database refuses (too long)
    Nothing,        \* no profile, no limit, no override
    MaxLimit,       \* bound: limits are 0..MaxLimit
    Requests,       \* requests that may run at once
    Processes,      \* API processes
    Reservers,      \* submissions that may reserve at once
    MaxRequests,    \* bound: requests
    MaxLoad,        \* bound: units of an owner
    MaxFaults       \* bound: statements that fail, or take effect unanswered

ASSUME AdminAssumption ==
    /\ Refused \subseteq Owners
    /\ MaxLimit \in Nat
    /\ MaxRequests \in Nat
    /\ MaxLoad \in Nat
    /\ MaxFaults \in Nat
    /\ Nothing \notin Profiles \cup Owners \cup Processes
    /\ Nothing \notin 0 .. MaxLimit
    /\ Profiles \cap Owners = {}

VARIABLES
    profile,    \* quota_profiles, with quota_profile_limits of the channel
    owner,      \* owner_quota
    req,        \* a request in progress
    flag,       \* per process: the cached answer of appHasQuotas
    look,       \* per process: appHasQuotas between its reads and its set
    units,      \* per owner: used + reserved of the channel
    reserve,    \* a submission between resolveLimit and its transaction
    orphaned,   \* history: owners whose profile went with a deletion unforeseen
    undefaulted,\* history: there is no default profile, for a reason below
    outdated,   \* history: processes whose flag a change passed by
    moved,      \* history: owners whose limit changed while units were counted
    requests,
    faults

tableVars == <<profile, owner>>
cacheVars == <<flag, look, outdated>>
loadVars == <<units, reserve>>
adminVars == <<tableVars, req, cacheVars, loadVars, orphaned, undefaulted, moved, requests, faults>>

LimitsOrNone == 0 .. MaxLimit \cup {Nothing}
ProfilesOrNone == Profiles \cup {Nothing}
ProfileType == [status : {"new", "live", "deleted"}, default : BOOLEAN, limit : LimitsOrNone]
NewProfile == [status |-> "new", default |-> FALSE, limit |-> Nothing]
OwnerType == [exists : BOOLEAN, profile : ProfilesOrNone, override : LimitsOrNone]
NoOwner == [exists |-> FALSE, profile |-> Nothing, override |-> Nothing]

\* A request: what it does next, its profile, whether it sets the default, the
\* profile owners are reassigned to, its owners, its override, whether the
\* profile had owners; and, history, the owners assigned since it counted them
\* and whether the profile became the default since it looked.
NoRequest == [pc |-> "none", process |-> Nothing, profile |-> Nothing, default |-> FALSE,
              target |-> Nothing, owners |-> {}, override |-> Nothing, told |-> {},
              late |-> {}, raced |-> FALSE]
RequestType == [pc : {"none", "clear", "insert", "set", "reassign", "delete", "put", "bulk",
                      "finish"},
                process : Processes \cup {Nothing}, profile : ProfilesOrNone,
                default : BOOLEAN, target : ProfilesOrNone, owners : SUBSET Owners,
                override : LimitsOrNone, told : SUBSET Owners, late : SUBSET Owners,
                raced : BOOLEAN]

NoReserve == [owner |-> Nothing, limit |-> Nothing]

Exists(ps, p) == p \in Profiles /\ ps[p].status = "live"
HasDefault(ps) == \E p \in Profiles : Exists(ps, p) /\ ps[p].default
OwnersOf(os, p) == {o \in Owners : os[o].exists /\ os[o].profile = p}

\* Whether there is anything appHasQuotas would find.
HasQuotas(ps, os) == (\E p \in Profiles : Exists(ps, p)) \/ (\E o \in Owners : os[o].exists)

\* The rows it looks for.
StoredRows(ps, os) == {p \in Profiles : Exists(ps, p)} \cup {o \in Owners : os[o].exists}

-----------------------------------------------------------------------------
(* Limits *)

\* resolveLimit: the override, the limit of the owner's profile, the limit of
\* the default profile, none.
ResolveLimit(ps, os, o) ==
    LET defaults == {p \in Profiles : Exists(ps, p) /\ ps[p].default /\ ps[p].limit # Nothing}
    IN IF os[o].exists /\ os[o].override # Nothing THEN os[o].override
       ELSE IF os[o].exists /\ os[o].profile # Nothing /\ ps[os[o].profile].limit # Nothing
            THEN ps[os[o].profile].limit
       ELSE IF defaults # {} THEN ps[CHOOSE p \in defaults : TRUE].limit
       ELSE Nothing

AdminInit ==
    /\ profile = [p \in Profiles |-> NewProfile]
    /\ owner = [o \in Owners |-> NoOwner]
    /\ req = [r \in Requests |-> NoRequest]
    /\ flag = [w \in Processes |-> "absent"]
    /\ look = [w \in Processes |-> [step |-> "idle", crossed |-> FALSE]]
    /\ units = [o \in Owners |-> 0]
    /\ reserve = [v \in Reservers |-> NoReserve]
    /\ orphaned = {}
    /\ undefaulted = TRUE
    /\ outdated = {}
    /\ moved = {}
    /\ requests = 0
    /\ faults = 0

-----------------------------------------------------------------------------
(* What a statement of a route does *)

InFlight(o) == \E v \in Reservers : reserve[v].owner = o

\* A committed statement: lookups under way may have read what it changes, the
\* flags of all processes miss it, and limits of owners with units move.
Commit(ps, os) ==
    /\ profile' = ps
    /\ owner' = os
    /\ moved' = moved \cup {o \in Owners : /\ ResolveLimit(ps, os, o) # ResolveLimit(profile, owner, o)
                                           /\ units[o] > 0 \/ InFlight(o)}
    /\ look' = [w \in Processes |-> [look[w] EXCEPT !.crossed =
                  @ \/ (look[w].step # "idle" /\ StoredRows(ps, os) # StoredRows(profile, owner))]]
    /\ outdated' = IF HasQuotas(ps, os) = HasQuotas(profile, owner) THEN outdated
                   ELSE outdated \cup {w \in Processes : flag[w] # "absent"}
    /\ UNCHANGED <<flag, loadVars>>

NoCommit == UNCHANGED <<tableVars, cacheVars, loadVars, moved>>

Cleared == [p \in Profiles |-> [profile[p] EXCEPT !.default = FALSE]]

Begin(r, what) ==
    /\ req[r] = NoRequest
    /\ requests < MaxRequests
    /\ requests' = requests + 1
    /\ req' = [req EXCEPT ![r] = what]

\* Owners S were assigned to profile p: requests that counted before missed them.
Assigned(reqs, p, S) ==
    [x \in Requests |-> IF reqs[x].pc \in {"reassign", "delete"} /\ reqs[x].profile = p
                        THEN [reqs[x] EXCEPT !.late = @ \cup S] ELSE reqs[x]]

\* Profile p became the default: deletions that looked before missed it.
Promoted(reqs, p) ==
    [x \in Requests |-> IF reqs[x].pc \in {"reassign", "delete"} /\ reqs[x].profile = p
                        THEN [reqs[x] EXCEPT !.raced = TRUE] ELSE reqs[x]]

\* The last statement succeeded: the request is about to delete its process's flag.
Finished(r) == [req[r] EXCEPT !.pc = "finish"]

-----------------------------------------------------------------------------
(* POST and PUT /quota/profiles *)

\* A new profile p, with or without the default mark.
StartCreate(r, w, p, default) ==
    /\ profile[p].status = "new"
    /\ \A x \in Requests : req[x].profile # p
    /\ Begin(r, [NoRequest EXCEPT !.pc = IF default THEN "clear" ELSE "insert",
                    !.process = w, !.profile = p, !.default = default])
    /\ NoCommit /\ UNCHANGED <<orphaned, undefaulted, faults>>

\* PUT with is_default true, or false.
StartUpdate(r, w, p, default) ==
    /\ Exists(profile, p)
    /\ Begin(r, [NoRequest EXCEPT !.pc = IF default THEN "clear" ELSE "set",
                    !.process = w, !.profile = p, !.default = default])
    /\ NoCommit /\ UNCHANGED <<orphaned, undefaulted, faults>>

\* UPDATE .. SET is_default = false
ClearDefault(r) ==
    /\ req[r].pc = "clear"
    /\ Commit(Cleared, owner)
    /\ req' = [req EXCEPT ![r].pc = IF profile[req[r].profile].status = "new" THEN "insert" ELSE "set"]
    /\ UNCHANGED <<orphaned, undefaulted, requests, faults>>

\* The index refuses a second default.
Refuses(r) == req[r].default /\ \E p \in Profiles \ {req[r].profile} :
                                  Exists(profile, p) /\ profile[p].default

\* INSERT: refused if the name is taken or another request set its default first.
InsertProfile(r, taken) ==
    LET p == req[r].profile
    IN /\ req[r].pc = "insert"
       /\ IF taken \/ Refuses(r)
          THEN /\ req' = [req EXCEPT ![r] = NoRequest]
               /\ undefaulted' = (undefaulted \/ (req[r].default /\ ~HasDefault(profile)))
               /\ NoCommit
          ELSE /\ Commit([profile EXCEPT ![p] = [NewProfile EXCEPT !.status = "live",
                                                   !.default = req[r].default]], owner)
               /\ req' = [req EXCEPT ![r] = Finished(r)]
               /\ undefaulted' = (undefaulted /\ ~req[r].default)
       /\ UNCHANGED <<orphaned, requests, faults>>

\* UPDATE .. SET is_default: no row if the profile was deleted meanwhile.
SetDefault(r) ==
    LET p == req[r].profile
    IN /\ req[r].pc = "set"
       /\ IF Refuses(r)
          THEN /\ req' = [req EXCEPT ![r] = NoRequest]
               /\ UNCHANGED undefaulted /\ NoCommit
          ELSE /\ Commit(IF Exists(profile, p)
                         THEN [profile EXCEPT ![p].default = req[r].default] ELSE profile, owner)
               /\ req' = [(IF req[r].default THEN Promoted(req, p) ELSE req) EXCEPT ![r] = Finished(r)]
               /\ undefaulted' = IF Exists(profile, p) /\ req[r].default THEN FALSE
                                 ELSE undefaulted \/ ~Exists(profile, p) \/ profile[p].default
       /\ UNCHANGED <<orphaned, requests, faults>>

-----------------------------------------------------------------------------
(* DELETE /quota/profiles/:id *)

\* Mutant: profiles with owners are deleted without a target.
StartDeleteUnguarded(r, w, p, target) ==
    /\ Exists(profile, p)
    /\ ~profile[p].default
    /\ Begin(r, [NoRequest EXCEPT !.pc = "delete", !.process = w, !.profile = p, !.target = target])
    /\ NoCommit /\ UNCHANGED <<orphaned, undefaulted, faults>>

\* Mutant: the default profile can be deleted too.
StartDeleteDefault(r, w, p, target) ==
    /\ Exists(profile, p)
    /\ OwnersOf(owner, p) # {} => Exists(profile, target)
    /\ Begin(r, [NoRequest EXCEPT !.pc = IF OwnersOf(owner, p) # {} THEN "reassign" ELSE "delete",
                    !.process = w, !.profile = p, !.target = target])
    /\ NoCommit /\ UNCHANGED <<orphaned, undefaulted, faults>>

\* Both reads and the guards: not the default profile, and no owners unless
\* there is a profile to reassign them to, which may be the same one.
StartDelete(r, w, p, target) ==
    /\ Exists(profile, p)
    /\ ~profile[p].default
    /\ OwnersOf(owner, p) # {} => Exists(profile, target)
    /\ Begin(r, [NoRequest EXCEPT !.pc = IF OwnersOf(owner, p) # {} THEN "reassign" ELSE "delete",
                    !.process = w, !.profile = p, !.target = target])
    /\ NoCommit /\ UNCHANGED <<orphaned, undefaulted, faults>>

\* UPDATE owner_quota SET profile_id = target; a foreign key if target is gone.
Reassign(r) ==
    LET p == req[r].profile
        t == req[r].target
        all == OwnersOf(owner, p)
    IN /\ req[r].pc = "reassign"
       /\ IF ~Exists(profile, t) /\ all # {}
          THEN req' = [req EXCEPT ![r] = NoRequest] /\ NoCommit
          ELSE /\ Commit(profile, [o \in Owners |-> IF o \in all THEN [owner[o] EXCEPT !.profile = t]
                                                    ELSE owner[o]])
               /\ req' = [Assigned(req, t, all) EXCEPT ![r].pc = "delete",
                            ![r].late = IF t = p THEN all ELSE {}]
       /\ UNCHANGED <<orphaned, undefaulted, requests, faults>>

\* DELETE: the limits go along, and owners that point to it lose their profile.
DeleteProfile(r) ==
    LET p == req[r].profile
    IN /\ req[r].pc = "delete"
       /\ Commit([profile EXCEPT ![p] = [NewProfile EXCEPT !.status = "deleted"]],
                 [o \in Owners |-> IF owner[o].profile = p THEN [owner[o] EXCEPT !.profile = Nothing]
                                   ELSE owner[o]])
       /\ req' = [req EXCEPT ![r] = Finished(r)]
       /\ orphaned' = orphaned \cup (OwnersOf(owner, p) \ req[r].late)
       /\ undefaulted' = (undefaulted \/ (profile[p].default /\ req[r].raced))
       /\ UNCHANGED <<requests, faults>>

\* POST and DELETE of the profile's limit, in one statement.
ChangeLimit(p, limit) ==
    /\ requests < MaxRequests /\ requests' = requests + 1
    /\ Exists(profile, p)
    /\ Commit([profile EXCEPT ![p].limit = limit], owner)
    /\ UNCHANGED <<req, orphaned, undefaulted, faults>>

-----------------------------------------------------------------------------
(* PUT and DELETE /quota/owners/:ownerId, POST /quota/owners/bulk *)

\* The profile, if any, is looked up before the write.
StartPut(r, w, S, p, override, bulk) ==
    /\ p = Nothing => ~bulk
    /\ p # Nothing => Exists(profile, p)
    /\ Begin(r, [NoRequest EXCEPT !.pc = IF bulk THEN "bulk" ELSE "put", !.process = w,
                    !.profile = p, !.owners = S, !.override = override])
    /\ NoCommit /\ UNCHANGED <<orphaned, undefaulted, faults>>

Put(os, S, p, override) ==
    [o \in Owners |-> IF o \in S THEN [exists |-> TRUE, profile |-> p, override |-> override]
                      ELSE os[o]]

\* The foreign key of owner_quota.
Storable(r) == req[r].profile = Nothing \/ Exists(profile, req[r].profile)

\* The upsert replaces profile and override, with nothing if the body has none.
PutOwner(r) ==
    /\ req[r].pc = "put"
    /\ IF Storable(r) /\ req[r].owners \cap Refused = {}
       THEN /\ Commit(profile, Put(owner, req[r].owners, req[r].profile, req[r].override))
            /\ req' = [Assigned(req, req[r].profile, req[r].owners) EXCEPT ![r] = Finished(r)]
       ELSE NoCommit /\ req' = [req EXCEPT ![r] = NoRequest]
    /\ UNCHANGED <<orphaned, undefaulted, requests, faults>>

\* The loop of the bulk transaction over the owners in some order: those before
\* the first one refused are reported as done.  A refused one aborts the
\* transaction, which COMMIT then rolls back.
BulkAssign(r, told) ==
    LET refused == IF Storable(r) THEN req[r].owners \cap Refused ELSE req[r].owners
    IN /\ req[r].pc = "bulk"
       /\ IF refused = {} THEN told = req[r].owners ELSE told \subseteq req[r].owners \ refused
       /\ ~Storable(r) => told = {}
       /\ IF refused = {}
          THEN /\ Commit(profile, Put(owner, req[r].owners, req[r].profile, req[r].override))
               /\ req' = [Assigned(req, req[r].profile, req[r].owners) EXCEPT
                            ![r] = [Finished(r) EXCEPT !.told = told]]
          ELSE NoCommit /\ req' = [req EXCEPT ![r] = [Finished(r) EXCEPT !.told = told]]
       /\ UNCHANGED <<orphaned, undefaulted, requests, faults>>

RemoveOwner(r, w, o) ==
    /\ Begin(r, [NoRequest EXCEPT !.pc = "finish", !.process = w])
    /\ Commit(profile, [owner EXCEPT ![o] = NoOwner])
    /\ UNCHANGED <<orphaned, undefaulted, faults>>

-----------------------------------------------------------------------------
(* The end of a request, and its failures *)

\* Mutant: the flag is left in place.
FinishKeepsFlag(r) ==
    /\ req[r].pc = "finish"
    /\ outdated' = outdated \ {req[r].process}
    /\ req' = [req EXCEPT ![r] = NoRequest]
    /\ UNCHANGED <<tableVars, flag, look, loadVars, orphaned, undefaulted, moved, requests, faults>>

\* invalidateQuotaCache in the process that served it, and the answer.
Finish(r) ==
    /\ req[r].pc = "finish"
    /\ flag' = [flag EXCEPT ![req[r].process] = "absent"]
    /\ outdated' = outdated \ {req[r].process}
    /\ req' = [req EXCEPT ![r] = NoRequest]
    /\ UNCHANGED <<tableVars, look, loadVars, orphaned, undefaulted, moved, requests, faults>>

\* A statement fails or its answer is lost: the request ends in a 500, what its
\* earlier statements did stays, and no flag is deleted.
RequestFails(r) ==
    /\ faults < MaxFaults
    /\ faults' = faults + 1
    /\ req[r] # NoRequest
    /\ undefaulted' = (undefaulted \/ (req[r].pc \in {"insert", "set"} /\ req[r].default
                                        /\ ~HasDefault(profile)))
    /\ req' = [req EXCEPT ![r] = NoRequest]
    /\ UNCHANGED <<tableVars, cacheVars, loadVars, orphaned, moved, requests>>

-----------------------------------------------------------------------------
(* appHasQuotas *)

\* A miss: the profiles are read first, the owners only if there are none.
LookAtProfiles(w) ==
    /\ flag[w] = "absent" /\ look[w].step = "idle"
    /\ look' = [look EXCEPT ![w] =
                  [step |-> IF \E p \in Profiles : Exists(profile, p) THEN "yes" ELSE "owners",
                   crossed |-> FALSE]]
    /\ UNCHANGED <<tableVars, req, flag, outdated, loadVars, orphaned, undefaulted, moved, requests, faults>>

LookAtOwners(w) ==
    /\ look[w].step = "owners"
    /\ look' = [look EXCEPT ![w].step = IF \E o \in Owners : owner[o].exists THEN "yes" ELSE "no"]
    /\ UNCHANGED <<tableVars, req, flag, outdated, loadVars, orphaned, undefaulted, moved, requests, faults>>

\* _quotaCache.set, whatever happened since the reads.
SetFlag(w) ==
    /\ look[w].step \in {"yes", "no"}
    /\ flag' = [flag EXCEPT ![w] = look[w].step]
    /\ outdated' = IF look[w].crossed THEN outdated \cup {w} ELSE outdated \ {w}
    /\ look' = [look EXCEPT ![w] = [step |-> "idle", crossed |-> FALSE]]
    /\ UNCHANGED <<tableVars, req, loadVars, orphaned, undefaulted, moved, requests, faults>>

\* 60 seconds, or a restart.
FlagExpires(w) ==
    /\ flag[w] # "absent"
    /\ flag' = [flag EXCEPT ![w] = "absent"]
    /\ outdated' = outdated \ {w}
    /\ UNCHANGED <<tableVars, req, look, loadVars, orphaned, undefaulted, moved, requests, faults>>

-----------------------------------------------------------------------------
(* Reservations under changing limits *)

\* resolveLimit, before the transaction of reserveForChannels.
Resolve(v, o) ==
    /\ reserve[v] = NoReserve
    /\ ResolveLimit(profile, owner, o) # Nothing
    /\ reserve' = [reserve EXCEPT ![v] = [owner |-> o, limit |-> ResolveLimit(profile, owner, o)]]
    /\ UNCHANGED <<tableVars, req, cacheVars, units, orphaned, undefaulted, moved, requests, faults>>

\* Mutant: one unit too many.
FitsLate(used, limit) == used <= limit

\* The guard of _reserveOnClient for one unit.
Fits(used, limit) == used + 1 <= limit

\* The transaction, against the limit that was read.
Reserve(v) ==
    LET o == reserve[v].owner
    IN /\ reserve[v] # NoReserve
       /\ units[o] < MaxLoad
       /\ units' = IF Fits(units[o], reserve[v].limit) THEN [units EXCEPT ![o] = @ + 1] ELSE units
       /\ reserve' = [reserve EXCEPT ![v] = NoReserve]
       /\ UNCHANGED <<tableVars, req, cacheVars, orphaned, undefaulted, moved, requests, faults>>

\* A unit is given back, or the next period begins.
Drop(o, left) ==
    /\ left \in 0 .. MaxLoad /\ left < units[o]
    /\ units' = [units EXCEPT ![o] = left]
    /\ moved' = IF left = 0 /\ ~InFlight(o) THEN moved \ {o} ELSE moved
    /\ UNCHANGED <<tableVars, req, cacheVars, reserve, orphaned, undefaulted, requests, faults>>

AdminNext ==
    \/ \E r \in Requests, w \in Processes, p \in Profiles, default \in BOOLEAN :
          StartCreate(r, w, p, default) \/ StartUpdate(r, w, p, default)
    \/ \E r \in Requests : ClearDefault(r) \/ SetDefault(r)
    \/ \E r \in Requests, taken \in BOOLEAN : InsertProfile(r, taken)
    \/ \E r \in Requests, w \in Processes, p \in Profiles, target \in ProfilesOrNone :
          StartDelete(r, w, p, target)
    \/ \E r \in Requests : Reassign(r) \/ DeleteProfile(r)
    \/ \E p \in Profiles, limit \in LimitsOrNone : ChangeLimit(p, limit)
    \/ \E r \in Requests, w \in Processes, o \in Owners, p \in ProfilesOrNone,
          override \in LimitsOrNone : StartPut(r, w, {o}, p, override, FALSE)
    \/ \E r \in Requests, w \in Processes, S \in SUBSET Owners \ {{}}, p \in Profiles,
          override \in LimitsOrNone : StartPut(r, w, S, p, override, TRUE)
    \/ \E r \in Requests : PutOwner(r)
    \/ \E r \in Requests, told \in SUBSET Owners : BulkAssign(r, told)
    \/ \E r \in Requests, w \in Processes, o \in Owners : RemoveOwner(r, w, o)
    \/ \E r \in Requests : Finish(r) \/ RequestFails(r)
    \/ \E w \in Processes : LookAtProfiles(w) \/ LookAtOwners(w) \/ SetFlag(w) \/ FlagExpires(w)
    \/ \E v \in Reservers, o \in Owners : Resolve(v, o)
    \/ \E v \in Reservers : Reserve(v)
    \/ \E o \in Owners, left \in 0 .. MaxLoad : Drop(o, left)

AdminSpec == AdminInit /\ [][AdminNext]_adminVars

-----------------------------------------------------------------------------
(* Properties *)

AdminTypeOK ==
    /\ profile \in [Profiles -> ProfileType]
    /\ owner \in [Owners -> OwnerType]
    /\ req \in [Requests -> RequestType]
    /\ flag \in [Processes -> {"absent", "yes", "no"}]
    /\ look \in [Processes -> [step : {"idle", "owners", "yes", "no"}, crossed : BOOLEAN]]
    /\ units \in [Owners -> 0 .. MaxLoad]
    /\ reserve \in [Reservers -> [owner : Owners \cup {Nothing}, limit : LimitsOrNone]]
    /\ orphaned \subseteq Owners
    /\ undefaulted \in BOOLEAN
    /\ outdated \subseteq Processes
    /\ moved \subseteq Owners
    /\ requests \in 0 .. MaxRequests
    /\ faults \in 0 .. MaxFaults

\* An app with a default profile has exactly one; it is without one only before
\* the first, between the two statements of a request that moves it, when the
\* second of them failed or found its profile deleted, after an explicit
\* unmarking, or when the profile became the default while it was being deleted.
DefaultLossIsExplained ==
    /\ \A p, q \in Profiles : profile[p].default /\ profile[q].default => p = q
    /\ \/ HasDefault(profile)
       \/ undefaulted
       \/ \E r \in Requests : req[r].pc \in {"insert", "set"} /\ req[r].default

\* The deletion of a profile takes it from no owner it should have seen: only
\* from one assigned after the owners were counted or moved, and from those
\* reassigned to the deleted profile itself.
DeletionSparesOwners == orphaned = {}

\* A process answers wrongly whether the app has quotas only if a change was
\* made that it has not been told of: by another process, by a request that
\* failed or has not ended, or while it looked.  Its two reads are apart, so a
\* change of rows between them makes it answer no when there is something at all
\* times.
QuotaFlagIsCurrent ==
    \A w \in Processes :
        flag[w] # "absent" /\ w \notin outdated => (flag[w] = "yes") = HasQuotas(profile, owner)

\* An owner has more units than its limit only if the limit changed while it had
\* units or while one was being reserved.
LoadWithinLimit ==
    \A o \in Owners :
        o \notin moved /\ ResolveLimit(profile, owner, o) # Nothing =>
            units[o] <= ResolveLimit(profile, owner, o)

\* Contradicted: api/routes/quota.js:714 "Returns per-owner success/failure", yet
\* an owner reported as a success may have been rolled back.
BulkTellsWhatItWrote ==
    [][\A r \in Requests, told \in SUBSET Owners :
          BulkAssign(r, told) => \A o \in told : owner'[o].exists /\ owner'[o].profile = req[r].profile
      ]_adminVars
=============================================================================
