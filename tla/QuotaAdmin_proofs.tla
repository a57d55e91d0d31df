--------------------------- MODULE QuotaAdmin_proofs ---------------------------
(***************************************************************************)
(* Proofs about QuotaAdmin, for any profiles, owners, requests, processes   *)
(* and limits.  Every action either commits a statement (Commit) or leaves  *)
(* the tables alone, so what a commit does to caches and limits is proved   *)
(* once.  The inductive invariants, one per theorem, say what a request     *)
(* that is between two of its statements still knows.                       *)
(***************************************************************************)
EXTENDS QuotaAdmin, TLAPS

LookType == [step : {"idle", "owners", "yes", "no"}, crossed : BOOLEAN]
ReserveType == [owner : Owners \cup {Nothing}, limit : LimitsOrNone]

\* The part of AdminTypeOK that a commit touches.
SharedTypeOK ==
    /\ profile \in [Profiles -> ProfileType]
    /\ owner \in [Owners -> OwnerType]
    /\ flag \in [Processes -> {"absent", "yes", "no"}]
    /\ look \in [Processes -> LookType]
    /\ units \in [Owners -> 0 .. MaxLoad]
    /\ reserve \in [Reservers -> ReserveType]
    /\ outdated \subseteq Processes
    /\ moved \subseteq Owners

\* The part that belongs to the requests.
RequestsTypeOK ==
    /\ req \in [Requests -> RequestType]
    /\ orphaned \subseteq Owners
    /\ undefaulted \in BOOLEAN
    /\ requests \in 0 .. MaxRequests
    /\ faults \in 0 .. MaxFaults

LEMMA TypeParts == AdminTypeOK <=> SharedTypeOK /\ RequestsTypeOK
BY DEF AdminTypeOK, SharedTypeOK, RequestsTypeOK, LookType, ReserveType

-----------------------------------------------------------------------------
(* Statements *)

\* What a commit leaves, whatever it wrote.
LEMMA CommitShared ==
    ASSUME SharedTypeOK, NEW ps \in [Profiles -> ProfileType], NEW os \in [Owners -> OwnerType],
           Commit(ps, os)
    PROVE  /\ SharedTypeOK'
           /\ profile' = ps /\ owner' = os /\ UNCHANGED <<flag, units, reserve>>
<1>1. /\ profile' = ps /\ owner' = os /\ UNCHANGED <<flag, units, reserve>>
  BY DEF Commit, loadVars
<1>2. moved' \subseteq Owners
  BY DEF Commit, SharedTypeOK
<1>3. outdated' \subseteq Processes
  BY DEF Commit, SharedTypeOK
<1>4. look' \in [Processes -> LookType]
  <2>1. ASSUME NEW w \in Processes
        PROVE  [look[w] EXCEPT !.crossed = look[w].crossed \/ (look[w].step # "idle" /\ StoredRows(ps, os) # StoredRows(profile, owner))]
                 \in LookType
    BY DEF SharedTypeOK, LookType
  <2>2. look' = [w \in Processes |-> [look[w] EXCEPT !.crossed = look[w].crossed \/ (look[w].step # "idle" /\ StoredRows(ps, os) # StoredRows(profile, owner))]]
    <3>1. \A w \in Processes : look[w] \in LookType
      BY DEF SharedTypeOK
    <3>. QED
      BY <3>1 DEF Commit, LookType
  <2>. QED
    BY <2>1, <2>2
<1>. QED
  BY <1>1, <1>2, <1>3, <1>4 DEF SharedTypeOK

LEMMA NoCommitShared ==
    ASSUME SharedTypeOK, NoCommit
    PROVE  /\ SharedTypeOK'
           /\ UNCHANGED <<profile, owner, flag, look, outdated, units, reserve, moved>>
BY DEF NoCommit, tableVars, cacheVars, loadVars, SharedTypeOK

\* StoredRows that statements write.
LEMMA ProfileRows ==
    /\ NewProfile \in ProfileType
    /\ [NewProfile EXCEPT !.status = "deleted"] \in ProfileType
    /\ \A d \in BOOLEAN : [NewProfile EXCEPT !.status = "live", !.default = d] \in ProfileType
    /\ NoOwner \in OwnerType
    /\ NoRequest \in RequestType
BY DEF NewProfile, ProfileType, LimitsOrNone, NoOwner, OwnerType, ProfilesOrNone, NoRequest, RequestType

LEMMA EditedProfile ==
    ASSUME NEW row \in ProfileType, NEW d \in BOOLEAN, NEW limit \in LimitsOrNone
    PROVE  /\ [row EXCEPT !.default = d] \in ProfileType
           /\ [row EXCEPT !.limit = limit] \in ProfileType
BY DEF ProfileType

LEMMA EditedOwner ==
    ASSUME NEW row \in OwnerType, NEW p \in ProfilesOrNone
    PROVE  [row EXCEPT !.profile = p] \in OwnerType
BY DEF OwnerType

LEMMA AssignedType ==
    ASSUME NEW reqs \in [Requests -> RequestType], NEW p, NEW S \in SUBSET Owners
    PROVE  /\ Assigned(reqs, p, S) \in [Requests -> RequestType]
           /\ Promoted(reqs, p) \in [Requests -> RequestType]
<1>1. ASSUME NEW x \in Requests
      PROVE  /\ [reqs[x] EXCEPT !.late = reqs[x].late \cup S] \in RequestType
             /\ [reqs[x] EXCEPT !.raced = TRUE] \in RequestType
  BY DEF RequestType
<1>2. Assigned(reqs, p, S) \in [Requests -> RequestType]
  <2>1. Assigned(reqs, p, S) =
          [x \in Requests |-> IF reqs[x].pc \in {"reassign", "delete"} /\ reqs[x].profile = p
                              THEN [reqs[x] EXCEPT !.late = reqs[x].late \cup S] ELSE reqs[x]]
    BY DEF Assigned, RequestType
  <2>. QED
    BY <1>1, <2>1
<1>3. Promoted(reqs, p) \in [Requests -> RequestType]
  BY <1>1 DEF Promoted
<1>. QED
  BY <1>2, <1>3

LEMMA PutType ==
    ASSUME NEW os \in [Owners -> OwnerType], NEW S \in SUBSET Owners, NEW p \in ProfilesOrNone,
           NEW override \in LimitsOrNone
    PROVE  Put(os, S, p, override) \in [Owners -> OwnerType]
<1>1. [exists |-> TRUE, profile |-> p, override |-> override] \in OwnerType
  BY DEF OwnerType
<1>. QED
  BY <1>1 DEF Put

-----------------------------------------------------------------------------
(* Types *)

LEMMA BeginTyped ==
    ASSUME RequestsTypeOK, NEW r \in Requests, NEW what \in RequestType, Begin(r, what),
           UNCHANGED <<orphaned, undefaulted, faults>>
    PROVE  RequestsTypeOK'
<1>1. req' \in [Requests -> RequestType]
  BY DEF Begin, RequestsTypeOK
<1>2. requests' \in 0 .. MaxRequests
  BY AdminAssumption DEF Begin, RequestsTypeOK
<1>. QED
  BY <1>1, <1>2 DEF RequestsTypeOK

LEMMA RequestTyped ==
    ASSUME RequestsTypeOK, NEW reqs \in [Requests -> RequestType],
           NEW r \in Requests, NEW what \in RequestType, req' = [reqs EXCEPT ![r] = what],
           orphaned' \subseteq Owners, undefaulted' \in BOOLEAN, UNCHANGED <<requests, faults>>
    PROVE  RequestsTypeOK'
<1>1. req' \in [Requests -> RequestType]
  OBVIOUS
<1>. QED
  BY <1>1 DEF RequestsTypeOK

LEMMA RequestsStay ==
    ASSUME RequestsTypeOK, UNCHANGED <<req, orphaned, undefaulted, requests, faults>>
    PROVE  RequestsTypeOK'
BY DEF RequestsTypeOK

\* A request that moves on, or is over.
LEMMA Moved ==
    ASSUME RequestsTypeOK, NEW r \in Requests
    PROVE  /\ req[r] \in RequestType /\ NoRequest \in RequestType /\ Finished(r) \in RequestType
           /\ \A pc \in {"insert", "set", "delete", "finish"} : [req[r] EXCEPT !.pc = pc] \in RequestType
           /\ \A told \in SUBSET Owners : [Finished(r) EXCEPT !.told = told] \in RequestType
<1>1. req[r] \in RequestType
  BY DEF RequestsTypeOK
<1>2. \A pc \in {"insert", "set", "delete", "finish"} : [req[r] EXCEPT !.pc = pc] \in RequestType
  BY <1>1 DEF RequestType
<1>3. Finished(r) \in RequestType
  BY <1>2 DEF Finished
<1>4. \A told \in SUBSET Owners : [Finished(r) EXCEPT !.told = told] \in RequestType
  BY <1>3 DEF RequestType
<1>. QED
  BY <1>1, <1>2, <1>3, <1>4, ProfileRows

\* The statements that begin a request.
Starts(r, w) ==
    \/ \E p \in Profiles, default \in BOOLEAN : StartCreate(r, w, p, default) \/ StartUpdate(r, w, p, default)
    \/ \E p \in Profiles, target \in ProfilesOrNone : StartDelete(r, w, p, target)
    \/ \E S \in SUBSET Owners, p \in ProfilesOrNone, override \in LimitsOrNone, bulk \in BOOLEAN :
          StartPut(r, w, S, p, override, bulk)

LEMMA StartsTyped ==
    ASSUME SharedTypeOK, RequestsTypeOK, NEW r \in Requests, NEW w \in Processes, Starts(r, w)
    PROVE  SharedTypeOK' /\ RequestsTypeOK' /\ NoCommit
<1>1. ASSUME NEW p \in Profiles, NEW default \in BOOLEAN, StartCreate(r, w, p, default)
      PROVE  RequestsTypeOK' /\ NoCommit
  <2>1. [NoRequest EXCEPT !.pc = IF default THEN "clear" ELSE "insert",
                    !.process = w, !.profile = p, !.default = default] \in RequestType
    BY DEF NoRequest, RequestType, ProfilesOrNone, LimitsOrNone
  <2>. QED
    BY <1>1, <2>1, BeginTyped DEF StartCreate
<1>2. ASSUME NEW p \in Profiles, NEW default \in BOOLEAN, StartUpdate(r, w, p, default)
      PROVE  RequestsTypeOK' /\ NoCommit
  <2>1. [NoRequest EXCEPT !.pc = IF default THEN "clear" ELSE "set",
                    !.process = w, !.profile = p, !.default = default] \in RequestType
    BY DEF NoRequest, RequestType, ProfilesOrNone, LimitsOrNone
  <2>. QED
    BY <1>2, <2>1, BeginTyped DEF StartUpdate
<1>3. ASSUME NEW p \in Profiles, NEW target \in ProfilesOrNone, StartDelete(r, w, p, target)
      PROVE  RequestsTypeOK' /\ NoCommit
  <2>1. [NoRequest EXCEPT !.pc = IF OwnersOf(owner, p) # {} THEN "reassign" ELSE "delete",
                    !.process = w, !.profile = p, !.target = target] \in RequestType
    BY DEF NoRequest, RequestType, ProfilesOrNone, LimitsOrNone
  <2>. QED
    BY <1>3, <2>1, BeginTyped DEF StartDelete
<1>4. ASSUME NEW S \in SUBSET Owners, NEW p \in ProfilesOrNone, NEW override \in LimitsOrNone,
             NEW bulk \in BOOLEAN, StartPut(r, w, S, p, override, bulk)
      PROVE  RequestsTypeOK' /\ NoCommit
  <2>1. [NoRequest EXCEPT !.pc = IF bulk THEN "bulk" ELSE "put", !.process = w,
                    !.profile = p, !.owners = S, !.override = override] \in RequestType
    BY DEF NoRequest, RequestType, ProfilesOrNone, LimitsOrNone
  <2>. QED
    BY <1>4, <2>1, BeginTyped DEF StartPut
<1>5. RequestsTypeOK' /\ NoCommit
  BY <1>1, <1>2, <1>3, <1>4 DEF Starts
<1>. QED
  BY <1>5, NoCommitShared

\* The statements of the routes of profiles.
LEMMA ClearTyped ==
    ASSUME SharedTypeOK, RequestsTypeOK, NEW r \in Requests, ClearDefault(r)
    PROVE  SharedTypeOK' /\ RequestsTypeOK'
<1>1. Cleared \in [Profiles -> ProfileType]
  BY EditedProfile DEF Cleared, SharedTypeOK, LimitsOrNone
<1>2. SharedTypeOK'
  BY <1>1, CommitShared DEF ClearDefault, SharedTypeOK
<1>. DEFINE what == [req[r] EXCEPT !.pc = IF profile[req[r].profile].status = "new" THEN "insert" ELSE "set"]
<1>3. what \in RequestType
  BY Moved
<1>4. req' = [req EXCEPT ![r] = what]
  BY DEF ClearDefault, RequestsTypeOK
<1>. HIDE DEF what
<1>5. RequestsTypeOK'
  BY <1>3, <1>4, RequestTyped DEF ClearDefault, RequestsTypeOK
<1>. QED
  BY <1>2, <1>5

LEMMA InsertTyped ==
    ASSUME SharedTypeOK, RequestsTypeOK, NEW r \in Requests, NEW taken \in BOOLEAN,
           InsertProfile(r, taken)
    PROVE  SharedTypeOK' /\ RequestsTypeOK'
<1>. DEFINE p == req[r].profile
<1>. DEFINE ps == [profile EXCEPT ![p] = [NewProfile EXCEPT !.status = "live", !.default = req[r].default]]
<1>1. ps \in [Profiles -> ProfileType]
  <2>1. req[r].default \in BOOLEAN
    BY Moved DEF RequestType
  <2>2. [NewProfile EXCEPT !.status = "live", !.default = req[r].default] \in ProfileType
    BY <2>1, ProfileRows
  <2>. QED
    BY <2>2 DEF SharedTypeOK
<1>2. Commit(ps, owner) \/ NoCommit
  BY DEF InsertProfile
<1>. HIDE DEF ps
<1>3. SharedTypeOK'
  BY <1>1, <1>2, CommitShared, NoCommitShared DEF SharedTypeOK
<1>4. \/ req' = [req EXCEPT ![r] = NoRequest]
      \/ req' = [req EXCEPT ![r] = Finished(r)]
  BY DEF InsertProfile
<1>5. undefaulted' \in BOOLEAN
  <2>1. CASE taken \/ Refuses(r)
    BY <2>1 DEF InsertProfile, RequestsTypeOK
  <2>2. CASE ~(taken \/ Refuses(r))
    BY <2>2 DEF InsertProfile, RequestsTypeOK
  <2>. QED
    BY <2>1, <2>2
<1>6. RequestsTypeOK'
  BY <1>4, <1>5, Moved, RequestTyped DEF InsertProfile, RequestsTypeOK
<1>. QED
  BY <1>3, <1>6

LEMMA SetTyped ==
    ASSUME SharedTypeOK, RequestsTypeOK, NEW r \in Requests, SetDefault(r)
    PROVE  SharedTypeOK' /\ RequestsTypeOK'
<1>. DEFINE p == req[r].profile
<1>. DEFINE ps == IF Exists(profile, p) THEN [profile EXCEPT ![p].default = req[r].default] ELSE profile
<1>. DEFINE reqs == IF req[r].default THEN Promoted(req, p) ELSE req
<1>1. ps \in [Profiles -> ProfileType]
  <2>1. req[r].default \in BOOLEAN
    BY Moved DEF RequestType
  <2>2. CASE Exists(profile, p)
    <3>1. profile[p] \in ProfileType /\ p \in Profiles /\ Nothing \in LimitsOrNone
      BY <2>2 DEF Exists, SharedTypeOK, LimitsOrNone
    <3>2. [profile[p] EXCEPT !.default = req[r].default] \in ProfileType
      BY <2>1, <3>1, EditedProfile
    <3>3. ps = [profile EXCEPT ![p] = [profile[p] EXCEPT !.default = req[r].default]]
      BY <2>2, <3>1 DEF SharedTypeOK
    <3>. QED
      BY <3>1, <3>2, <3>3 DEF SharedTypeOK
  <2>3. CASE ~Exists(profile, p)
    BY <2>3 DEF SharedTypeOK
  <2>. QED
    BY <2>2, <2>3
<1>2. Commit(ps, owner) \/ NoCommit
  BY DEF SetDefault
<1>3. reqs \in [Requests -> RequestType]
  <2>1. {} \in SUBSET Owners
    OBVIOUS
  <2>. QED
    BY <2>1, AssignedType DEF RequestsTypeOK
<1>4. \/ req' = [req EXCEPT ![r] = NoRequest]
      \/ req' = [reqs EXCEPT ![r] = Finished(r)]
  BY DEF SetDefault
<1>. HIDE DEF ps, reqs
<1>5. SharedTypeOK'
  BY <1>1, <1>2, CommitShared, NoCommitShared DEF SharedTypeOK
<1>6. undefaulted' \in BOOLEAN
  <2>1. CASE Refuses(r)
    BY <2>1 DEF SetDefault, RequestsTypeOK
  <2>2. CASE ~Refuses(r)
    BY <2>2 DEF SetDefault, RequestsTypeOK
  <2>. QED
    BY <2>1, <2>2
<1>7. RequestsTypeOK'
  BY <1>3, <1>4, <1>6, Moved, RequestTyped DEF SetDefault, RequestsTypeOK
<1>. QED
  BY <1>5, <1>7

LEMMA ReassignTyped ==
    ASSUME SharedTypeOK, RequestsTypeOK, NEW r \in Requests, Reassign(r)
    PROVE  SharedTypeOK' /\ RequestsTypeOK'
<1>. DEFINE p == req[r].profile
            t == req[r].target
            all == OwnersOf(owner, p)
            os == [o \in Owners |-> IF o \in all THEN [owner[o] EXCEPT !.profile = t] ELSE owner[o]]
            late == IF t = p THEN all ELSE {}
            reqs == Assigned(req, t, all)
            what == [reqs[r] EXCEPT !.pc = "delete", !.late = late]
<1>1. p \in ProfilesOrNone /\ t \in ProfilesOrNone /\ all \in SUBSET Owners
  BY Moved DEF RequestType, OwnersOf
<1>2. os \in [Owners -> OwnerType]
  BY <1>1, EditedOwner DEF SharedTypeOK
<1>3. reqs \in [Requests -> RequestType]
  BY <1>1, AssignedType DEF RequestsTypeOK
<1>4. what \in RequestType
  <2>1. late \in SUBSET Owners /\ reqs[r] \in RequestType
    BY <1>1, <1>3
  <2>. QED
    BY <2>1 DEF RequestType
<1>5. Commit(profile, os) \/ NoCommit
  BY DEF Reassign
<1>6. req' = [req EXCEPT ![r] = NoRequest] \/ req' = [reqs EXCEPT ![r] = what]
  <2>1. CASE req' = [req EXCEPT ![r] = NoRequest]
    BY <2>1
  <2>2. CASE req' = [reqs EXCEPT ![r].pc = "delete", ![r].late = late]
    <3>. HIDE DEF reqs, late
    <3>. QED
      BY <1>3, <2>2
  <2>. QED
    BY <2>1, <2>2 DEF Reassign
<1>. HIDE DEF os, reqs, what
<1>7. SharedTypeOK'
  BY <1>2, <1>5, CommitShared, NoCommitShared DEF SharedTypeOK
<1>8. RequestsTypeOK'
  BY <1>3, <1>4, <1>6, Moved, RequestTyped DEF Reassign, RequestsTypeOK
<1>. QED
  BY <1>7, <1>8

LEMMA DeleteTyped ==
    ASSUME SharedTypeOK, RequestsTypeOK, NEW r \in Requests, DeleteProfile(r)
    PROVE  SharedTypeOK' /\ RequestsTypeOK'
<1>. DEFINE p == req[r].profile
            ps == [profile EXCEPT ![p] = [NewProfile EXCEPT !.status = "deleted"]]
            os == [o \in Owners |-> IF owner[o].profile = p THEN [owner[o] EXCEPT !.profile = Nothing]
                                    ELSE owner[o]]
<1>1. ps \in [Profiles -> ProfileType]
  BY ProfileRows DEF SharedTypeOK
<1>2. os \in [Owners -> OwnerType]
  BY EditedOwner DEF SharedTypeOK, ProfilesOrNone
<1>3. Commit(ps, os)
  BY DEF DeleteProfile
<1>. HIDE DEF ps, os
<1>4. SharedTypeOK'
  BY <1>1, <1>2, <1>3, CommitShared
<1>5. orphaned' \subseteq Owners
  BY DEF DeleteProfile, OwnersOf, RequestsTypeOK
<1>6. undefaulted' \in BOOLEAN
  BY DEF DeleteProfile, RequestsTypeOK
<1>7. RequestsTypeOK'
  BY <1>5, <1>6, Moved, RequestTyped DEF DeleteProfile, RequestsTypeOK
<1>. QED
  BY <1>4, <1>7

LEMMA ChangeLimitTyped ==
    ASSUME SharedTypeOK, RequestsTypeOK, NEW p \in Profiles, NEW limit \in LimitsOrNone,
           ChangeLimit(p, limit)
    PROVE  SharedTypeOK' /\ RequestsTypeOK'
<1>. DEFINE ps == [profile EXCEPT ![p].limit = limit]
<1>1. ps \in [Profiles -> ProfileType]
  <2>1. profile[p] \in ProfileType
    BY DEF SharedTypeOK
  <2>2. [profile[p] EXCEPT !.limit = limit] \in ProfileType
    BY <2>1, EditedProfile
  <2>3. ps = [profile EXCEPT ![p] = [profile[p] EXCEPT !.limit = limit]]
    BY DEF SharedTypeOK
  <2>. QED
    BY <2>2, <2>3 DEF SharedTypeOK
<1>2. Commit(ps, owner)
  BY DEF ChangeLimit
<1>. HIDE DEF ps
<1>3. SharedTypeOK'
  BY <1>1, <1>2, CommitShared DEF SharedTypeOK
<1>4. requests' \in 0 .. MaxRequests
  BY AdminAssumption DEF ChangeLimit, RequestsTypeOK
<1>5. RequestsTypeOK'
  BY <1>4 DEF ChangeLimit, RequestsTypeOK
<1>. QED
  BY <1>3, <1>5

\* What the upserts of owners write.
LEMMA PutRows ==
    ASSUME SharedTypeOK, RequestsTypeOK, NEW r \in Requests
    PROVE  /\ Put(owner, req[r].owners, req[r].profile, req[r].override) \in [Owners -> OwnerType]
           /\ Assigned(req, req[r].profile, req[r].owners) \in [Requests -> RequestType]
<1>1. /\ req[r].owners \in SUBSET Owners /\ req[r].profile \in ProfilesOrNone
      /\ req[r].override \in LimitsOrNone
  BY Moved DEF RequestType
<1>. QED
  BY <1>1, PutType, AssignedType DEF SharedTypeOK, RequestsTypeOK

LEMMA PutTyped ==
    ASSUME SharedTypeOK, RequestsTypeOK, NEW r \in Requests,
           PutOwner(r) \/ \E told \in SUBSET Owners : BulkAssign(r, told)
    PROVE  SharedTypeOK' /\ RequestsTypeOK'
<1>. DEFINE os == Put(owner, req[r].owners, req[r].profile, req[r].override)
            reqs == Assigned(req, req[r].profile, req[r].owners)
<1>1. os \in [Owners -> OwnerType] /\ reqs \in [Requests -> RequestType]
  BY PutRows
<1>2. /\ Commit(profile, os) \/ NoCommit
      /\ UNCHANGED <<orphaned, undefaulted, requests, faults>>
      /\ \E what \in RequestType : req' = [reqs EXCEPT ![r] = what] \/ req' = [req EXCEPT ![r] = what]
  <2>1. CASE PutOwner(r)
    BY <2>1, Moved DEF PutOwner
  <2>2. ASSUME NEW told \in SUBSET Owners, BulkAssign(r, told)
        PROVE  /\ Commit(profile, os) \/ NoCommit
               /\ UNCHANGED <<orphaned, undefaulted, requests, faults>>
               /\ \E what \in RequestType :
                    req' = [reqs EXCEPT ![r] = what] \/ req' = [req EXCEPT ![r] = what]
    <3>1. [Finished(r) EXCEPT !.told = told] \in RequestType
      BY Moved
    <3>2. /\ Commit(profile, os) \/ NoCommit
          /\ UNCHANGED <<orphaned, undefaulted, requests, faults>>
      BY <2>2 DEF BulkAssign
    <3>3. \/ req' = [reqs EXCEPT ![r] = [Finished(r) EXCEPT !.told = told]]
          \/ req' = [req EXCEPT ![r] = [Finished(r) EXCEPT !.told = told]]
      BY <2>2 DEF BulkAssign
    <3>. QED
      BY <3>1, <3>2, <3>3
  <2>. QED
    BY <2>1, <2>2
<1>. HIDE DEF os, reqs
<1>3. SharedTypeOK'
  BY <1>1, <1>2, CommitShared, NoCommitShared DEF SharedTypeOK
<1>4. RequestsTypeOK'
  BY <1>1, <1>2, RequestTyped DEF RequestsTypeOK
<1>. QED
  BY <1>3, <1>4

LEMMA RemoveTyped ==
    ASSUME SharedTypeOK, RequestsTypeOK, NEW r \in Requests, NEW w \in Processes, NEW o \in Owners,
           RemoveOwner(r, w, o)
    PROVE  SharedTypeOK' /\ RequestsTypeOK'
<1>1. [owner EXCEPT ![o] = NoOwner] \in [Owners -> OwnerType]
  BY ProfileRows DEF SharedTypeOK
<1>2. SharedTypeOK'
  BY <1>1, CommitShared DEF RemoveOwner, SharedTypeOK
<1>3. [NoRequest EXCEPT !.pc = "finish", !.process = w] \in RequestType
  BY DEF NoRequest, RequestType, ProfilesOrNone, LimitsOrNone
<1>. QED
  BY <1>2, <1>3, BeginTyped DEF RemoveOwner

LEMMA EndTyped ==
    ASSUME SharedTypeOK, RequestsTypeOK, NEW r \in Requests, Finish(r) \/ RequestFails(r)
    PROVE  SharedTypeOK' /\ RequestsTypeOK'
<1>1. CASE Finish(r)
  <2>1. SharedTypeOK'
    BY <1>1 DEF Finish, SharedTypeOK, tableVars, loadVars
  <2>2. RequestsTypeOK'
    BY <1>1, Moved, RequestTyped DEF Finish, RequestsTypeOK
  <2>. QED
    BY <2>1, <2>2
<1>2. CASE RequestFails(r)
  <2>1. SharedTypeOK'
    BY <1>2 DEF RequestFails, SharedTypeOK, tableVars, cacheVars, loadVars
  <2>2. faults' \in 0 .. MaxFaults
    BY <1>2, AdminAssumption DEF RequestFails, RequestsTypeOK
  <2>3. undefaulted' \in BOOLEAN
    BY <1>2 DEF RequestFails, RequestsTypeOK
  <2>4. req' \in [Requests -> RequestType]
    BY <1>2, Moved DEF RequestFails, RequestsTypeOK
  <2>5. RequestsTypeOK'
    BY <1>2, <2>2, <2>3, <2>4 DEF RequestFails, RequestsTypeOK
  <2>. QED
    BY <2>1, <2>5
<1>. QED
  BY <1>1, <1>2

\* The lookup of the flag, and its end.
Looks(w) == LookAtProfiles(w) \/ LookAtOwners(w) \/ SetFlag(w) \/ FlagExpires(w)

LEMMA LooksTyped ==
    ASSUME SharedTypeOK, RequestsTypeOK, NEW w \in Processes, Looks(w)
    PROVE  SharedTypeOK' /\ RequestsTypeOK'
<1>1. /\ UNCHANGED <<profile, owner, units, reserve, moved, req, orphaned, undefaulted, requests, faults>>
      /\ look \in [Processes -> LookType] /\ look[w] \in LookType
  BY DEF Looks, LookAtProfiles, LookAtOwners, SetFlag, FlagExpires, tableVars, loadVars, SharedTypeOK
<1>2. look' \in [Processes -> LookType]
  <2>1. ASSUME NEW step \in {"idle", "owners", "yes", "no"}
        PROVE  [step |-> step, crossed |-> FALSE] \in LookType /\ [look[w] EXCEPT !.step = step] \in LookType
    BY <1>1 DEF LookType
  <2>2. \/ look' = look
        \/ \E step \in {"idle", "owners", "yes", "no"} :
             \/ look' = [look EXCEPT ![w] = [step |-> step, crossed |-> FALSE]]
             \/ look' = [look EXCEPT ![w] = [look[w] EXCEPT !.step = step]]
    BY <1>1 DEF Looks, LookAtProfiles, LookAtOwners, SetFlag, FlagExpires
  <2>. QED
    BY <1>1, <2>1, <2>2
<1>3. flag' \in [Processes -> {"absent", "yes", "no"}]
  BY DEF Looks, LookAtProfiles, LookAtOwners, SetFlag, FlagExpires, SharedTypeOK
<1>4. outdated' \subseteq Processes
  BY DEF Looks, LookAtProfiles, LookAtOwners, SetFlag, FlagExpires, SharedTypeOK
<1>5. SharedTypeOK'
  BY <1>1, <1>2, <1>3, <1>4 DEF SharedTypeOK
<1>. QED
  BY <1>1, <1>5, RequestsStay

\* Reservations.
Reserves == \/ \E v \in Reservers, o \in Owners : Resolve(v, o)
            \/ \E v \in Reservers : Reserve(v)
            \/ \E o \in Owners, left \in 0 .. MaxLoad : Drop(o, left)

LEMMA LimitTyped ==
    ASSUME NEW ps \in [Profiles -> ProfileType], NEW os \in [Owners -> OwnerType], NEW o \in Owners
    PROVE  ResolveLimit(ps, os, o) \in LimitsOrNone
<1>. DEFINE defaults == {p \in Profiles : Exists(ps, p) /\ ps[p].default /\ ps[p].limit # Nothing}
<1>1. os[o] \in OwnerType /\ \A p \in Profiles : ps[p] \in ProfileType
  OBVIOUS
<1>2. os[o].override \in LimitsOrNone /\ os[o].profile \in ProfilesOrNone /\ Nothing \in LimitsOrNone
  BY <1>1 DEF OwnerType, LimitsOrNone
<1>3. \A p \in Profiles : ps[p].limit \in LimitsOrNone
  BY <1>1 DEF ProfileType
<1>4. defaults # {} => (CHOOSE p \in defaults : TRUE) \in Profiles
  OBVIOUS
<1>5. os[o].profile # Nothing => os[o].profile \in Profiles
  BY <1>2 DEF ProfilesOrNone
<1>6. ResolveLimit(ps, os, o) =
        IF os[o].exists /\ os[o].override # Nothing THEN os[o].override
        ELSE IF os[o].exists /\ os[o].profile # Nothing /\ ps[os[o].profile].limit # Nothing
             THEN ps[os[o].profile].limit
        ELSE IF defaults # {} THEN ps[CHOOSE p \in defaults : TRUE].limit
        ELSE Nothing
  BY DEF ResolveLimit
<1>. HIDE DEF defaults
<1>. QED
  BY <1>2, <1>3, <1>4, <1>5, <1>6

LEMMA ReservesTyped ==
    ASSUME SharedTypeOK, RequestsTypeOK, Reserves
    PROVE  SharedTypeOK' /\ RequestsTypeOK'
<1>1. UNCHANGED <<profile, owner, flag, look, outdated, req, orphaned, undefaulted, requests, faults>>
  BY DEF Reserves, Resolve, Reserve, Drop, tableVars, cacheVars
<1>2. reserve' \in [Reservers -> ReserveType]
  <2>1. NoReserve \in ReserveType
    BY DEF NoReserve, ReserveType, LimitsOrNone
  <2>2. \A o \in Owners : [owner |-> o, limit |-> ResolveLimit(profile, owner, o)] \in ReserveType
    BY LimitTyped DEF ReserveType, SharedTypeOK
  <2>. QED
    BY <2>1, <2>2 DEF Reserves, Resolve, Reserve, Drop, SharedTypeOK
<1>3. moved' \subseteq Owners
  BY DEF Reserves, Resolve, Reserve, Drop, SharedTypeOK
<1>4. units' \in [Owners -> 0 .. MaxLoad]
  <2>1. CASE \E v \in Reservers, o \in Owners : Resolve(v, o)
    BY <2>1 DEF Resolve, SharedTypeOK
  <2>2. ASSUME NEW v \in Reservers, Reserve(v) PROVE units' \in [Owners -> 0 .. MaxLoad]
    <3>. DEFINE o == reserve[v].owner
    <3>1. units' = units \/ units' = [units EXCEPT ![o] = units[o] + 1]
      BY <2>2 DEF Reserve
    <3>2. units[o] < MaxLoad
      BY <2>2 DEF Reserve
    <3>3. CASE o \in Owners
      <4>1. units[o] \in 0 .. MaxLoad /\ MaxLoad \in Nat
        BY <3>3, AdminAssumption DEF SharedTypeOK
      <4>2. units[o] + 1 \in 0 .. MaxLoad
        BY <3>2, <4>1
      <4>. QED
        BY <3>1, <3>3, <4>2 DEF SharedTypeOK
    <3>4. CASE o \notin Owners
      BY <3>1, <3>4 DEF SharedTypeOK
    <3>. QED
      BY <3>3, <3>4
  <2>3. CASE \E o \in Owners, left \in 0 .. MaxLoad : Drop(o, left)
    BY <2>3 DEF Drop, SharedTypeOK
  <2>. QED
    BY <2>1, <2>2, <2>3 DEF Reserves
<1>5. SharedTypeOK'
  BY <1>1, <1>2, <1>3, <1>4 DEF SharedTypeOK
<1>. QED
  BY <1>1, <1>5, RequestsStay

\* The next-state relation, by what an action does.
LEMMA NextSplit ==
    AdminNext =>
        \/ \E r \in Requests, w \in Processes : Starts(r, w)
        \/ \E r \in Requests : ClearDefault(r) \/ SetDefault(r) \/ Reassign(r) \/ DeleteProfile(r)
        \/ \E r \in Requests, taken \in BOOLEAN : InsertProfile(r, taken)
        \/ \E p \in Profiles, limit \in LimitsOrNone : ChangeLimit(p, limit)
        \/ \E r \in Requests : PutOwner(r) \/ \E told \in SUBSET Owners : BulkAssign(r, told)
        \/ \E r \in Requests, w \in Processes, o \in Owners : RemoveOwner(r, w, o)
        \/ \E r \in Requests : Finish(r) \/ RequestFails(r)
        \/ \E w \in Processes : Looks(w)
        \/ Reserves
<1>1. ASSUME NEW r \in Requests, NEW w \in Processes, NEW p \in Profiles, NEW default \in BOOLEAN,
             StartCreate(r, w, p, default) \/ StartUpdate(r, w, p, default)
      PROVE  Starts(r, w)
  BY <1>1 DEF Starts
<1>2. ASSUME NEW r \in Requests, NEW w \in Processes, NEW p \in Profiles, NEW target \in ProfilesOrNone,
             StartDelete(r, w, p, target)
      PROVE  Starts(r, w)
  BY <1>2 DEF Starts
<1>3. ASSUME NEW r \in Requests, NEW w \in Processes, NEW o \in Owners, NEW p \in ProfilesOrNone,
             NEW override \in LimitsOrNone, StartPut(r, w, {o}, p, override, FALSE)
      PROVE  Starts(r, w)
  <2>1. {o} \in SUBSET Owners
    OBVIOUS
  <2>. QED
    BY <1>3, <2>1 DEF Starts
<1>4. ASSUME NEW r \in Requests, NEW w \in Processes, NEW S \in SUBSET Owners \ {{}}, NEW p \in Profiles,
             NEW override \in LimitsOrNone, StartPut(r, w, S, p, override, TRUE)
      PROVE  Starts(r, w)
  <2>1. S \in SUBSET Owners /\ p \in ProfilesOrNone
    BY DEF ProfilesOrNone
  <2>. QED
    BY <1>4, <2>1 DEF Starts
<1>. QED
  BY <1>1, <1>2, <1>3, <1>4 DEF AdminNext, Looks, Reserves

LEMMA TypesInit == AdminInit => SharedTypeOK /\ RequestsTypeOK
<1>. SUFFICES ASSUME AdminInit PROVE SharedTypeOK /\ RequestsTypeOK
  OBVIOUS
<1>1. 0 \in 0 .. MaxRequests /\ 0 \in 0 .. MaxFaults /\ 0 \in 0 .. MaxLoad
  BY AdminAssumption
<1>2. NewProfile \in ProfileType /\ NoOwner \in OwnerType /\ NoRequest \in RequestType
  BY ProfileRows
<1>3. NoReserve \in ReserveType /\ [step |-> "idle", crossed |-> FALSE] \in LookType
  BY DEF NoReserve, ReserveType, LimitsOrNone, LookType
<1>4. SharedTypeOK
  BY <1>1, <1>2, <1>3 DEF AdminInit, SharedTypeOK
<1>5. undefaulted \in BOOLEAN
  BY DEF AdminInit
<1>6. RequestsTypeOK
  BY <1>1, <1>2, <1>5 DEF AdminInit, RequestsTypeOK
<1>. QED
  BY <1>4, <1>6

LEMMA TypesStep ==
    SharedTypeOK /\ RequestsTypeOK /\ [AdminNext]_adminVars => SharedTypeOK' /\ RequestsTypeOK'
<1>. SUFFICES ASSUME SharedTypeOK, RequestsTypeOK, [AdminNext]_adminVars
              PROVE  SharedTypeOK' /\ RequestsTypeOK'
  OBVIOUS
<1>1. CASE UNCHANGED adminVars
  BY <1>1 DEF adminVars, tableVars, cacheVars, loadVars, SharedTypeOK, RequestsTypeOK
<1>2. CASE AdminNext
  BY <1>2, NextSplit, StartsTyped, ClearTyped, SetTyped, ReassignTyped, DeleteTyped, InsertTyped,
     ChangeLimitTyped, PutTyped, RemoveTyped, EndTyped, LooksTyped, ReservesTyped
<1>. QED
  BY <1>1, <1>2

\* Types: what requests, caches and limits hold stays what it may be.
THEOREM AdminTypeCorrect == AdminSpec => []AdminTypeOK
<1>1. AdminSpec => [](SharedTypeOK /\ RequestsTypeOK)
  BY TypesInit, TypesStep, PTL DEF AdminSpec
<1>. QED
  BY <1>1, TypeParts, PTL

-----------------------------------------------------------------------------
(* The flag whether the app has quotas *)

NoProfiles == \A p \in Profiles : ~Exists(profile, p)

\* What a lookup has in hand is right, unless the rows changed since it read.
LookInv ==
    \A w \in Processes : ~look[w].crossed =>
        /\ look[w].step = "owners" => NoProfiles
        /\ look[w].step = "yes" => HasQuotas(profile, owner)
        /\ look[w].step = "no" => ~HasQuotas(profile, owner)

FlagInv == SharedTypeOK /\ RequestsTypeOK /\ LookInv /\ QuotaFlagIsCurrent

\* StoredRows that are the same mean the same to a lookup.
LEMMA SameRows ==
    ASSUME NEW ps, NEW os, StoredRows(ps, os) = StoredRows(profile, owner)
    PROVE  /\ HasQuotas(ps, os) = HasQuotas(profile, owner)
           /\ \A p \in Profiles : Exists(ps, p) = Exists(profile, p)
<1>1. \A p \in Profiles : p \in StoredRows(ps, os) <=> Exists(ps, p)
  BY AdminAssumption DEF StoredRows
<1>2. \A p \in Profiles : p \in StoredRows(profile, owner) <=> Exists(profile, p)
  BY AdminAssumption DEF StoredRows
<1>3. \A o \in Owners : o \in StoredRows(ps, os) <=> os[o].exists
  BY AdminAssumption DEF StoredRows, Exists
<1>4. \A o \in Owners : o \in StoredRows(profile, owner) <=> owner[o].exists
  BY AdminAssumption DEF StoredRows, Exists
<1>5. \A p \in Profiles : Exists(ps, p) <=> Exists(profile, p)
  BY <1>1, <1>2
<1>6. \A o \in Owners : os[o].exists <=> owner[o].exists
  BY <1>3, <1>4
<1>7. HasQuotas(ps, os) <=> HasQuotas(profile, owner)
  BY <1>5, <1>6 DEF HasQuotas
<1>8. HasQuotas(ps, os) \in BOOLEAN /\ HasQuotas(profile, owner) \in BOOLEAN
  BY DEF HasQuotas
<1>9. \A p \in Profiles : Exists(ps, p) \in BOOLEAN /\ Exists(profile, p) \in BOOLEAN
  BY DEF Exists
<1>. QED
  BY <1>5, <1>7, <1>8, <1>9

LEMMA CommitKeepsFlags ==
    ASSUME FlagInv, NEW ps, NEW os, Commit(ps, os)
    PROVE  LookInv' /\ QuotaFlagIsCurrent'
<1>1. profile' = ps /\ owner' = os /\ flag' = flag
  BY DEF Commit
<1>2. ASSUME NEW w \in Processes
      PROVE  /\ look'[w].step = look[w].step
             /\ ~look'[w].crossed =>
                   ~look[w].crossed /\ (look[w].step = "idle" \/ StoredRows(ps, os) = StoredRows(profile, owner))
  <2>1. look[w] \in LookType
    BY DEF FlagInv, SharedTypeOK
  <2>2. look'[w] = [look[w] EXCEPT !.crossed = look[w].crossed \/ (look[w].step # "idle" /\ StoredRows(ps, os) # StoredRows(profile, owner))]
    BY <2>1 DEF Commit, LookType
  <2>. QED
    BY <2>1, <2>2 DEF LookType
<1>3. LookInv'
  <2>. SUFFICES ASSUME NEW w \in Processes, ~look'[w].crossed
                PROVE  /\ look'[w].step = "owners" => NoProfiles'
                       /\ look'[w].step = "yes" => HasQuotas(profile, owner)'
                       /\ look'[w].step = "no" => ~HasQuotas(profile, owner)'
    BY DEF LookInv
  <2>1. HasQuotas(profile, owner)' = HasQuotas(ps, os)
    BY <1>1 DEF HasQuotas, Exists
  <2>2. NoProfiles' <=> \A p \in Profiles : ~Exists(ps, p)
    BY <1>1 DEF NoProfiles, Exists
  <2>3. CASE look[w].step = "idle"
    BY <1>2, <2>3
  <2>4. CASE StoredRows(ps, os) = StoredRows(profile, owner)
    <3>1. /\ HasQuotas(ps, os) = HasQuotas(profile, owner)
          /\ \A p \in Profiles : Exists(ps, p) = Exists(profile, p)
      BY <2>4, SameRows
    <3>2. ~look[w].crossed /\ look'[w].step = look[w].step
      BY <1>2
    <3>3. /\ look[w].step = "owners" => NoProfiles
          /\ look[w].step = "yes" => HasQuotas(profile, owner)
          /\ look[w].step = "no" => ~HasQuotas(profile, owner)
      BY <3>2 DEF FlagInv, LookInv
    <3>4. NoProfiles => \A p \in Profiles : ~Exists(ps, p)
      BY <3>1 DEF NoProfiles
    <3>. QED
      BY <2>1, <2>2, <3>1, <3>2, <3>3, <3>4
  <2>. QED
    BY <1>2, <2>3, <2>4
<1>4. QuotaFlagIsCurrent'
  <2>. SUFFICES ASSUME NEW w \in Processes, flag'[w] # "absent", w \notin outdated'
                PROVE  (flag'[w] = "yes") = HasQuotas(profile, owner)'
    BY DEF QuotaFlagIsCurrent
  <2>1. w \notin outdated /\ HasQuotas(ps, os) = HasQuotas(profile, owner)
    BY <1>1 DEF Commit
  <2>2. (flag[w] = "yes") = HasQuotas(profile, owner)
    BY <1>1, <2>1 DEF FlagInv, QuotaFlagIsCurrent
  <2>3. HasQuotas(profile, owner)' = HasQuotas(ps, os)
    BY <1>1 DEF HasQuotas, Exists
  <2>. QED
    BY <1>1, <2>1, <2>2, <2>3
<1>. QED
  BY <1>3, <1>4

LEMMA NothingKeepsFlags ==
    ASSUME FlagInv, UNCHANGED <<profile, owner, flag, look, outdated>>
    PROVE  LookInv' /\ QuotaFlagIsCurrent'
BY DEF FlagInv, LookInv, QuotaFlagIsCurrent, HasQuotas, Exists, NoProfiles

LEMMA LooksKeepFlags ==
    ASSUME FlagInv, NEW w \in Processes, Looks(w)
    PROVE  LookInv' /\ QuotaFlagIsCurrent'
<1>1. /\ UNCHANGED <<profile, owner>>
      /\ look \in [Processes -> LookType] /\ flag \in [Processes -> {"absent", "yes", "no"}]
  BY DEF Looks, LookAtProfiles, LookAtOwners, SetFlag, FlagExpires, tableVars, FlagInv, SharedTypeOK
<1>2. HasQuotas(profile, owner)' = HasQuotas(profile, owner) /\ NoProfiles' = NoProfiles
  BY <1>1 DEF HasQuotas, NoProfiles, Exists
<1>3. ASSUME NEW x \in Processes
      PROVE  /\ ~look[x].crossed =>
                  /\ look[x].step = "owners" => NoProfiles
                  /\ look[x].step = "yes" => HasQuotas(profile, owner)
                  /\ look[x].step = "no" => ~HasQuotas(profile, owner)
             /\ flag[x] # "absent" /\ x \notin outdated => (flag[x] = "yes") = HasQuotas(profile, owner)
             /\ look[x] \in LookType
  BY <1>1 DEF FlagInv, LookInv, QuotaFlagIsCurrent
<1>4. CASE LookAtProfiles(w)
  <2>1. UNCHANGED <<flag, outdated>> /\ \A x \in Processes \ {w} : look'[x] = look[x]
    BY <1>1, <1>4 DEF LookAtProfiles
  <2>2. look'[w].step = IF \E p \in Profiles : Exists(profile, p) THEN "yes" ELSE "owners"
    BY <1>1, <1>4 DEF LookAtProfiles
  <2>3. LookInv'
    BY <1>2, <1>3, <2>1, <2>2 DEF LookInv, NoProfiles, HasQuotas
  <2>4. QuotaFlagIsCurrent'
    BY <1>2, <1>3, <2>1 DEF QuotaFlagIsCurrent
  <2>. QED
    BY <2>3, <2>4
<1>5. CASE LookAtOwners(w)
  <2>1. UNCHANGED <<flag, outdated>> /\ \A x \in Processes \ {w} : look'[x] = look[x]
    BY <1>1, <1>5 DEF LookAtOwners
  <2>2. /\ look'[w].step = IF \E o \in Owners : owner[o].exists THEN "yes" ELSE "no"
        /\ look'[w].crossed = look[w].crossed /\ look[w].step = "owners"
    BY <1>1, <1>3, <1>5 DEF LookAtOwners, LookType
  <2>3. LookInv'
    BY <1>2, <1>3, <2>1, <2>2 DEF LookInv, NoProfiles, HasQuotas
  <2>4. QuotaFlagIsCurrent'
    BY <1>2, <1>3, <2>1 DEF QuotaFlagIsCurrent
  <2>. QED
    BY <2>3, <2>4
<1>6. CASE SetFlag(w)
  <2>1. /\ \A x \in Processes \ {w} : look'[x] = look[x] /\ flag'[x] = flag[x]
        /\ flag'[w] = look[w].step /\ look'[w].step = "idle" /\ look[w].step \in {"yes", "no"}
    BY <1>1, <1>6 DEF SetFlag
  <2>2. /\ \A x \in Processes \ {w} : x \notin outdated' => x \notin outdated
        /\ w \notin outdated' => ~look[w].crossed
    BY <1>6 DEF SetFlag
  <2>3. LookInv'
    BY <1>2, <1>3, <2>1 DEF LookInv
  <2>4. HasQuotas(profile, owner) \in BOOLEAN
    BY DEF HasQuotas
  <2>5. w \notin outdated' => (flag'[w] = "yes") = HasQuotas(profile, owner)
    BY <1>3, <2>1, <2>2, <2>4
  <2>6. QuotaFlagIsCurrent'
    BY <1>2, <1>3, <2>1, <2>2, <2>5 DEF QuotaFlagIsCurrent
  <2>. QED
    BY <2>3, <2>6
<1>7. CASE FlagExpires(w)
  <2>1. UNCHANGED look /\ flag'[w] = "absent" /\ \A x \in Processes \ {w} : flag'[x] = flag[x]
    BY <1>1, <1>7 DEF FlagExpires
  <2>2. \A x \in Processes \ {w} : x \notin outdated' => x \notin outdated
    BY <1>7 DEF FlagExpires
  <2>3. LookInv'
    BY <1>2, <1>3, <2>1 DEF LookInv
  <2>4. QuotaFlagIsCurrent'
    BY <1>2, <1>3, <2>1, <2>2 DEF QuotaFlagIsCurrent
  <2>. QED
    BY <2>3, <2>4
<1>. QED
  BY <1>4, <1>5, <1>6, <1>7 DEF Looks

LEMMA FinishKeepsFlags ==
    ASSUME FlagInv, NEW r \in Requests, Finish(r)
    PROVE  LookInv' /\ QuotaFlagIsCurrent'
<1>1. /\ UNCHANGED <<profile, owner, look>>
      /\ flag' = [flag EXCEPT ![req[r].process] = "absent"] /\ outdated' = outdated \ {req[r].process}
      /\ flag \in [Processes -> {"absent", "yes", "no"}]
  BY DEF Finish, tableVars, FlagInv, SharedTypeOK
<1>2. HasQuotas(profile, owner)' = HasQuotas(profile, owner) /\ NoProfiles' = NoProfiles
  BY <1>1 DEF HasQuotas, NoProfiles, Exists
<1>3. LookInv'
  BY <1>1, <1>2 DEF FlagInv, LookInv
<1>4. QuotaFlagIsCurrent'
  <2>. SUFFICES ASSUME NEW w \in Processes, flag'[w] # "absent", w \notin outdated'
                PROVE  (flag'[w] = "yes") = HasQuotas(profile, owner)
    BY <1>2 DEF QuotaFlagIsCurrent
  <2>1. w # req[r].process
    BY <1>1
  <2>2. flag'[w] = flag[w] /\ w \notin outdated
    BY <1>1, <2>1
  <2>. QED
    BY <2>2 DEF FlagInv, QuotaFlagIsCurrent
<1>. QED
  BY <1>3, <1>4

\* A step commits, or leaves tables and caches alone, or belongs to the caches.
LEMMA CommitsOrNot ==
    ASSUME AdminNext
    PROVE  \/ \E ps, os : Commit(ps, os)
           \/ UNCHANGED <<profile, owner, flag, look, outdated>>
           \/ \E r \in Requests : Finish(r)
           \/ \E w \in Processes : Looks(w)
<1>. USE DEF NoCommit, tableVars, cacheVars, loadVars
<1>1. ASSUME NEW r \in Requests, NEW w \in Processes, Starts(r, w)
      PROVE  UNCHANGED <<profile, owner, flag, look, outdated>>
  BY <1>1 DEF Starts, StartCreate, StartUpdate, StartDelete, StartPut
<1>2. ASSUME NEW r \in Requests, ClearDefault(r) \/ SetDefault(r) \/ Reassign(r) \/ DeleteProfile(r)
      PROVE  (\E ps, os : Commit(ps, os)) \/ UNCHANGED <<profile, owner, flag, look, outdated>>
  BY <1>2 DEF ClearDefault, SetDefault, Reassign, DeleteProfile
<1>3. ASSUME NEW r \in Requests, NEW taken \in BOOLEAN, InsertProfile(r, taken)
      PROVE  (\E ps, os : Commit(ps, os)) \/ UNCHANGED <<profile, owner, flag, look, outdated>>
  BY <1>3 DEF InsertProfile
<1>4. ASSUME NEW p \in Profiles, NEW limit \in LimitsOrNone, ChangeLimit(p, limit)
      PROVE  \E ps, os : Commit(ps, os)
  BY <1>4 DEF ChangeLimit
<1>5. ASSUME NEW r \in Requests, PutOwner(r) \/ \E told \in SUBSET Owners : BulkAssign(r, told)
      PROVE  (\E ps, os : Commit(ps, os)) \/ UNCHANGED <<profile, owner, flag, look, outdated>>
  BY <1>5 DEF PutOwner, BulkAssign
<1>6. ASSUME NEW r \in Requests, NEW w \in Processes, NEW o \in Owners, RemoveOwner(r, w, o)
      PROVE  \E ps, os : Commit(ps, os)
  BY <1>6 DEF RemoveOwner
<1>7. ASSUME (\E r \in Requests : RequestFails(r)) \/ Reserves
      PROVE  UNCHANGED <<profile, owner, flag, look, outdated>>
  BY <1>7 DEF RequestFails, Reserves, Resolve, Reserve, Drop
<1>. QED
  BY <1>1, <1>2, <1>3, <1>4, <1>5, <1>6, <1>7, NextSplit

\* A process answers wrongly only after a change it has not been told of, for any
\* number of processes and requests: its two reads need no transaction.
THEOREM AdminFlagIsCurrent == AdminSpec => []QuotaFlagIsCurrent
<1>1. AdminInit => FlagInv
  <2>. SUFFICES ASSUME AdminInit PROVE LookInv /\ QuotaFlagIsCurrent
    BY TypesInit DEF FlagInv
  <2>1. \A w \in Processes : look[w].step = "idle" /\ flag[w] = "absent"
    BY DEF AdminInit
  <2>. QED
    BY <2>1 DEF LookInv, QuotaFlagIsCurrent
<1>2. FlagInv /\ [AdminNext]_adminVars => FlagInv'
  <2>. SUFFICES ASSUME FlagInv, [AdminNext]_adminVars PROVE LookInv' /\ QuotaFlagIsCurrent'
    BY TypesStep DEF FlagInv
  <2>1. CASE UNCHANGED adminVars
    <3>1. UNCHANGED <<profile, owner, flag, look, outdated>>
      BY <2>1 DEF adminVars, tableVars, cacheVars
    <3>. QED
      BY <3>1, NothingKeepsFlags
  <2>2. CASE AdminNext
    BY <2>2, CommitsOrNot, CommitKeepsFlags, NothingKeepsFlags, FinishKeepsFlags, LooksKeepFlags
  <2>. QED
    BY <2>1, <2>2
<1>3. FlagInv => QuotaFlagIsCurrent
  BY DEF FlagInv
<1>. QED
  BY <1>1, <1>2, <1>3, PTL DEF AdminSpec

-----------------------------------------------------------------------------
(* Deletions and the owners of a profile *)

\* A request about to delete has been told of every owner its profile still has.
DeletesKnowOwners ==
    \A r \in Requests : req[r].pc \in {"reassign", "delete"} =>
        /\ req[r].profile \in Profiles
        /\ req[r].pc = "delete" => OwnersOf(owner, req[r].profile) \subseteq req[r].late

DeleteInv == SharedTypeOK /\ RequestsTypeOK /\ DeletesKnowOwners /\ DeletionSparesOwners

\* Nobody gets a profile, and requests that delete stay what they are.
LEMMA OwnersShrink ==
    ASSUME DeleteInv, UNCHANGED orphaned,
           \A p \in Profiles : OwnersOf(owner', p) \subseteq OwnersOf(owner, p),
           \A r \in Requests : req'[r].pc \in {"reassign", "delete"} =>
               \/ req'[r] = req[r]
               \/ /\ req'[r].profile \in Profiles
                  /\ req'[r].pc = "delete" => OwnersOf(owner', req'[r].profile) = {}
    PROVE  DeletesKnowOwners' /\ DeletionSparesOwners'
<1>1. DeletionSparesOwners'
  BY DEF DeleteInv, DeletionSparesOwners
<1>2. ASSUME NEW r \in Requests, req'[r].pc \in {"reassign", "delete"}
      PROVE  /\ req'[r].profile \in Profiles
             /\ req'[r].pc = "delete" => OwnersOf(owner', req'[r].profile) \subseteq req'[r].late
  <2>1. CASE req'[r] = req[r]
    BY <1>2, <2>1 DEF DeleteInv, DeletesKnowOwners
  <2>2. CASE /\ req'[r].profile \in Profiles
             /\ req'[r].pc = "delete" => OwnersOf(owner', req'[r].profile) = {}
    BY <2>2
  <2>. QED
    BY <1>2, <2>1, <2>2
<1>3. DeletesKnowOwners'
  BY <1>2 DEF DeletesKnowOwners, OwnersOf
<1>. QED
  BY <1>1, <1>3

\* What Assigned notes of one request.
LEMMA AssignedAt ==
    ASSUME NEW reqs \in [Requests -> RequestType], NEW p, NEW S \in SUBSET Owners, NEW x \in Requests
    PROVE  /\ Assigned(reqs, p, S)[x].pc = reqs[x].pc
           /\ Assigned(reqs, p, S)[x].profile = reqs[x].profile
           /\ reqs[x].late \subseteq Assigned(reqs, p, S)[x].late
           /\ reqs[x].pc \in {"reassign", "delete"} /\ reqs[x].profile = p =>
                  S \subseteq Assigned(reqs, p, S)[x].late
<1>1. reqs[x] \in RequestType
  OBVIOUS
<1>2. Assigned(reqs, p, S)[x] = IF reqs[x].pc \in {"reassign", "delete"} /\ reqs[x].profile = p
                                THEN [reqs[x] EXCEPT !.late = reqs[x].late \cup S] ELSE reqs[x]
  BY <1>1 DEF Assigned, RequestType
<1>. QED
  BY <1>1, <1>2 DEF RequestType

\* The upsert: who gets a profile is noted by the requests that delete it.
LEMMA PutKeepsOwners ==
    ASSUME DeleteInv, NEW r \in Requests, UNCHANGED orphaned, req[r].pc \in {"put", "bulk"},
           owner' = Put(owner, req[r].owners, req[r].profile, req[r].override),
           NEW what \in RequestType, what.pc = "finish",
           req' = [Assigned(req, req[r].profile, req[r].owners) EXCEPT ![r] = what]
    PROVE  DeletesKnowOwners' /\ DeletionSparesOwners'
<1>. DEFINE reqs == Assigned(req, req[r].profile, req[r].owners)
<1>1. req \in [Requests -> RequestType] /\ req[r].owners \in SUBSET Owners
  BY Moved DEF DeleteInv, RequestsTypeOK, RequestType
<1>2. reqs \in [Requests -> RequestType]
  BY <1>1, AssignedType
<1>3. ASSUME NEW p \in Profiles, NEW o \in OwnersOf(owner', p)
      PROVE  o \in OwnersOf(owner, p) \/ (o \in req[r].owners /\ p = req[r].profile)
  BY DEF OwnersOf, Put
<1>4. ASSUME NEW x \in Requests, req'[x].pc \in {"reassign", "delete"}
      PROVE  /\ req'[x].profile \in Profiles
             /\ req'[x].pc = "delete" => OwnersOf(owner', req'[x].profile) \subseteq req'[x].late
  <2>1. x # r /\ req'[x] = reqs[x]
    BY <1>2, <1>4
  <2>2. /\ req'[x].pc = req[x].pc /\ req'[x].profile = req[x].profile
        /\ req[x].late \subseteq req'[x].late
        /\ req[x].profile = req[r].profile => req[r].owners \subseteq req'[x].late
    <3>. HIDE DEF reqs
    <3>1. /\ reqs[x].pc = req[x].pc /\ reqs[x].profile = req[x].profile
          /\ req[x].late \subseteq reqs[x].late
          /\ req[x].pc \in {"reassign", "delete"} /\ req[x].profile = req[r].profile =>
                 req[r].owners \subseteq reqs[x].late
      BY <1>1, AssignedAt DEF reqs
    <3>. QED
      BY <1>4, <2>1, <3>1
  <2>3. /\ req[x].profile \in Profiles
        /\ req[x].pc = "delete" => OwnersOf(owner, req[x].profile) \subseteq req[x].late
    BY <1>4, <2>2 DEF DeleteInv, DeletesKnowOwners
  <2>. QED
    BY <1>3, <2>2, <2>3
<1>5. DeletesKnowOwners'
  BY <1>4 DEF DeletesKnowOwners, OwnersOf
<1>. QED
  BY <1>5 DEF DeleteInv, DeletionSparesOwners

LEMMA ReassignKeepsOwners ==
    ASSUME DeleteInv, NEW r \in Requests, Reassign(r)
    PROVE  DeletesKnowOwners' /\ DeletionSparesOwners'
<1>. DEFINE p == req[r].profile
            t == req[r].target
            all == OwnersOf(owner, p)
            reqs == Assigned(req, t, all)
            late == IF t = p THEN all ELSE {}
<1>1. /\ req \in [Requests -> RequestType] /\ all \in SUBSET Owners /\ p \in Profiles
      /\ owner \in [Owners -> OwnerType]
  BY DEF DeleteInv, DeletesKnowOwners, RequestsTypeOK, SharedTypeOK, OwnersOf, Reassign
<1>2. CASE ~Exists(profile, t) /\ all # {}
  <2>1. req' = [req EXCEPT ![r] = NoRequest] /\ NoCommit /\ UNCHANGED orphaned
    BY <1>2 DEF Reassign
  <2>2. owner' = owner
    BY <2>1 DEF NoCommit, tableVars
  <2>3. \A x \in Requests : req'[x].pc \in {"reassign", "delete"} => req'[x] = req[x]
    BY <1>1, <2>1 DEF NoRequest
  <2>. QED
    BY <2>1, <2>2, <2>3, OwnersShrink
<1>3. CASE ~(~Exists(profile, t) /\ all # {})
  <2>1. /\ owner' = [o \in Owners |-> IF o \in all THEN [owner[o] EXCEPT !.profile = t] ELSE owner[o]]
        /\ req' = [reqs EXCEPT ![r].pc = "delete", ![r].late = late]
        /\ UNCHANGED orphaned
    BY <1>3 DEF Reassign, Commit
  <2>2. \A o \in Owners : /\ owner'[o].exists = owner[o].exists
                          /\ owner'[o].profile = IF o \in all THEN t ELSE owner[o].profile
    BY <1>1, <2>1 DEF OwnerType
  <2>3. ASSUME NEW q \in Profiles, NEW o \in OwnersOf(owner', q)
        PROVE  \/ o \in OwnersOf(owner, q) /\ o \notin all
               \/ o \in all /\ q = t
    BY <2>2, <2>3 DEF OwnersOf
  <2>4. reqs \in [Requests -> RequestType]
    BY <1>1, AssignedType
  <2>5. /\ req'[r].pc = "delete" /\ req'[r].late = late /\ req'[r].profile = p
        /\ \A x \in Requests \ {r} : req'[x] = reqs[x]
    <3>1. reqs[r].profile = p /\ reqs[r] \in RequestType
      BY <1>1, <2>4, AssignedAt
    <3>. HIDE DEF reqs, late, p
    <3>. QED
      BY <2>1, <2>4, <3>1 DEF RequestType
  <2>6. OwnersOf(owner', p) \subseteq late
    <3>1. ASSUME NEW o \in OwnersOf(owner', p) PROVE o \in late
      BY <1>1, <2>3, <3>1
    <3>. QED
      BY <3>1
  <2>7. ASSUME NEW x \in Requests \ {r}, req'[x].pc \in {"reassign", "delete"}
        PROVE  /\ req'[x].profile \in Profiles
               /\ req'[x].pc = "delete" => OwnersOf(owner', req'[x].profile) \subseteq req'[x].late
    <3>1. /\ req'[x].pc = req[x].pc /\ req'[x].profile = req[x].profile
          /\ req[x].late \subseteq req'[x].late
          /\ req[x].pc \in {"reassign", "delete"} /\ req[x].profile = t => all \subseteq req'[x].late
      BY <1>1, <2>5, AssignedAt
    <3>2. /\ req[x].profile \in Profiles
          /\ req[x].pc = "delete" => OwnersOf(owner, req[x].profile) \subseteq req[x].late
      BY <2>7, <3>1 DEF DeleteInv, DeletesKnowOwners
    <3>. HIDE DEF all, t
    <3>. QED
      BY <2>3, <2>7, <3>1, <3>2
  <2>8. DeletesKnowOwners'
    <3>1. \A x \in Requests : req'[x].pc \in {"reassign", "delete"} =>
              /\ req'[x].profile \in Profiles
              /\ req'[x].pc = "delete" => OwnersOf(owner', req'[x].profile) \subseteq req'[x].late
      BY <1>1, <2>5, <2>6, <2>7
    <3>. QED
      BY <3>1 DEF DeletesKnowOwners, OwnersOf
  <2>. QED
    BY <2>1, <2>8 DEF DeleteInv, DeletionSparesOwners
<1>. QED
  BY <1>2, <1>3

LEMMA DeleteKeepsOwners ==
    ASSUME DeleteInv, NEW r \in Requests, DeleteProfile(r)
    PROVE  DeletesKnowOwners' /\ DeletionSparesOwners'
<1>. DEFINE p == req[r].profile
<1>1. /\ req \in [Requests -> RequestType] /\ owner \in [Owners -> OwnerType] /\ p \in Profiles
      /\ OwnersOf(owner, p) \subseteq req[r].late
  BY DEF DeleteInv, DeletesKnowOwners, RequestsTypeOK, SharedTypeOK, DeleteProfile
<1>2. /\ owner' = [o \in Owners |-> IF owner[o].profile = p THEN [owner[o] EXCEPT !.profile = Nothing]
                                    ELSE owner[o]]
      /\ req' = [req EXCEPT ![r] = Finished(r)]
      /\ orphaned' = orphaned \cup (OwnersOf(owner, p) \ req[r].late)
  BY DEF DeleteProfile, Commit
<1>3. orphaned' = orphaned
  BY <1>1, <1>2
<1>4. \A q \in Profiles : OwnersOf(owner', q) \subseteq OwnersOf(owner, q)
  <2>1. \A o \in Owners : /\ owner'[o].exists = owner[o].exists
                          /\ owner'[o].profile \in {owner[o].profile, Nothing}
    BY <1>1, <1>2 DEF OwnerType
  <2>2. \A q \in Profiles : q # Nothing
    BY AdminAssumption
  <2>. QED
    BY <2>1, <2>2 DEF OwnersOf
<1>5. \A x \in Requests : req'[x].pc \in {"reassign", "delete"} => req'[x] = req[x]
  <2>1. Finished(r).pc = "finish"
    BY <1>1 DEF Finished, RequestType
  <2>. QED
    BY <1>1, <1>2, <2>1
<1>. QED
  BY <1>3, <1>4, <1>5, OwnersShrink

LEMMA StartsKeepOwners ==
    ASSUME DeleteInv, NEW r \in Requests, NEW w \in Processes, Starts(r, w)
    PROVE  DeletesKnowOwners' /\ DeletionSparesOwners'
<1>1. owner' = owner /\ UNCHANGED orphaned
  BY DEF Starts, StartCreate, StartUpdate, StartDelete, StartPut, NoCommit, tableVars
<1>2. req \in [Requests -> RequestType]
  BY DEF DeleteInv, RequestsTypeOK
<1>3. \E what : /\ req' = [req EXCEPT ![r] = what]
                /\ what.pc \in {"reassign", "delete"} =>
                      /\ what.profile \in Profiles
                      /\ what.pc = "delete" => OwnersOf(owner, what.profile) = {}
  <2>1. ASSUME NEW p \in Profiles, NEW default \in BOOLEAN, StartCreate(r, w, p, default)
        PROVE  \E what : req' = [req EXCEPT ![r] = what] /\ what.pc \in {"clear", "insert"}
    <3>. DEFINE what == [NoRequest EXCEPT !.pc = IF default THEN "clear" ELSE "insert",
                    !.process = w, !.profile = p, !.default = default]
    <3>1. req' = [req EXCEPT ![r] = what]
      BY <2>1 DEF StartCreate, Begin
    <3>2. what.pc \in {"clear", "insert"}
      BY DEF NoRequest
    <3>. HIDE DEF what
    <3>. QED
      BY <3>1, <3>2
  <2>2. ASSUME NEW p \in Profiles, NEW default \in BOOLEAN, StartUpdate(r, w, p, default)
        PROVE  \E what : req' = [req EXCEPT ![r] = what] /\ what.pc \in {"clear", "set"}
    <3>. DEFINE what == [NoRequest EXCEPT !.pc = IF default THEN "clear" ELSE "set",
                    !.process = w, !.profile = p, !.default = default]
    <3>1. req' = [req EXCEPT ![r] = what]
      BY <2>2 DEF StartUpdate, Begin
    <3>2. what.pc \in {"clear", "set"}
      BY DEF NoRequest
    <3>. HIDE DEF what
    <3>. QED
      BY <3>1, <3>2
  <2>3. ASSUME NEW p \in Profiles, NEW target \in ProfilesOrNone, StartDelete(r, w, p, target)
        PROVE  \E what : /\ req' = [req EXCEPT ![r] = what] /\ what.profile = p
                         /\ what.pc = IF OwnersOf(owner, p) # {} THEN "reassign" ELSE "delete"
    <3>. DEFINE what == [NoRequest EXCEPT !.pc = IF OwnersOf(owner, p) # {} THEN "reassign" ELSE "delete",
                    !.process = w, !.profile = p, !.target = target]
    <3>1. req' = [req EXCEPT ![r] = what]
      BY <2>3 DEF StartDelete, Begin
    <3>2. what.profile = p /\ what.pc = IF OwnersOf(owner, p) # {} THEN "reassign" ELSE "delete"
      BY DEF NoRequest
    <3>. HIDE DEF what
    <3>. QED
      BY <3>1, <3>2
  <2>4. ASSUME NEW S \in SUBSET Owners, NEW p \in ProfilesOrNone, NEW override \in LimitsOrNone,
               NEW bulk \in BOOLEAN, StartPut(r, w, S, p, override, bulk)
        PROVE  \E what : req' = [req EXCEPT ![r] = what] /\ what.pc \in {"put", "bulk"}
    <3>. DEFINE what == [NoRequest EXCEPT !.pc = IF bulk THEN "bulk" ELSE "put", !.process = w,
                    !.profile = p, !.owners = S, !.override = override]
    <3>1. req' = [req EXCEPT ![r] = what]
      BY <2>4 DEF StartPut, Begin
    <3>2. what.pc \in {"put", "bulk"}
      BY DEF NoRequest
    <3>. HIDE DEF what
    <3>. QED
      BY <3>1, <3>2
  <2>. QED
    BY <2>1, <2>2, <2>3, <2>4 DEF Starts
<1>4. \A x \in Requests : req'[x].pc \in {"reassign", "delete"} =>
          \/ req'[x] = req[x]
          \/ /\ req'[x].profile \in Profiles
             /\ req'[x].pc = "delete" => OwnersOf(owner', req'[x].profile) = {}
  BY <1>1, <1>2, <1>3
<1>. QED
  BY <1>1, <1>4, OwnersShrink

\* The other statements give no owner a profile and begin no deletion.
LEMMA OthersKeepOwners ==
    ASSUME DeleteInv,
           \/ \E r \in Requests : ClearDefault(r) \/ SetDefault(r) \/ Finish(r) \/ RequestFails(r)
           \/ \E r \in Requests, taken \in BOOLEAN : InsertProfile(r, taken)
           \/ \E p \in Profiles, limit \in LimitsOrNone : ChangeLimit(p, limit)
           \/ \E r \in Requests, w \in Processes, o \in Owners : RemoveOwner(r, w, o)
           \/ \E w \in Processes : Looks(w)
           \/ Reserves
    PROVE  DeletesKnowOwners' /\ DeletionSparesOwners'
<1>1. /\ req \in [Requests -> RequestType] /\ owner \in [Owners -> OwnerType]
      /\ \A r \in Requests : Finished(r).pc = "finish"
  BY DEF DeleteInv, RequestsTypeOK, SharedTypeOK, Finished, RequestType
<1>2. UNCHANGED orphaned
  BY DEF ClearDefault, SetDefault, Finish, RequestFails, InsertProfile, ChangeLimit, RemoveOwner,
         Looks, LookAtProfiles, LookAtOwners, SetFlag, FlagExpires, Reserves, Resolve, Reserve, Drop
<1>3. \A p \in Profiles : OwnersOf(owner', p) \subseteq OwnersOf(owner, p)
  <2>1. CASE owner' = owner
    BY <2>1
  <2>2. ASSUME NEW r \in Requests, NEW w \in Processes, NEW o \in Owners, RemoveOwner(r, w, o)
        PROVE  \A p \in Profiles : OwnersOf(owner', p) \subseteq OwnersOf(owner, p)
    <3>1. owner' = [owner EXCEPT ![o] = NoOwner] /\ ~NoOwner.exists
      BY <2>2 DEF RemoveOwner, Commit, NoOwner
    <3>. QED
      BY <1>1, <3>1 DEF OwnersOf
  <2>3. \/ owner' = owner
        \/ \E r \in Requests, w \in Processes, o \in Owners : RemoveOwner(r, w, o)
    BY DEF ClearDefault, SetDefault, Finish, RequestFails, InsertProfile, ChangeLimit,
           Looks, LookAtProfiles, LookAtOwners, SetFlag, FlagExpires, Reserves, Resolve, Reserve,
           Drop, Commit, NoCommit, tableVars
  <2>. QED
    BY <2>1, <2>2, <2>3
<1>4. ASSUME NEW x \in Requests, req'[x].pc \in {"reassign", "delete"}
      PROVE  \/ req'[x] = req[x]
             \/ /\ req'[x].profile \in Profiles
                /\ req'[x].pc = "delete" => OwnersOf(owner', req'[x].profile) = {}
             \/ /\ req[x] \in RequestType /\ req'[x] = [req[x] EXCEPT !.raced = TRUE]
  <2>1. ASSUME NEW r \in Requests, ClearDefault(r) PROVE req'[x] = req[x]
    <3>1. \/ req' = [req EXCEPT ![r] = [req[r] EXCEPT !.pc = "insert"]]
          \/ req' = [req EXCEPT ![r] = [req[r] EXCEPT !.pc = "set"]]
      BY <1>1, <2>1 DEF ClearDefault
    <3>2. \A pc \in {"insert", "set"} : [req[r] EXCEPT !.pc = pc].pc = pc
      BY <1>1 DEF RequestType
    <3>. QED
      BY <1>1, <1>4, <3>1, <3>2
  <2>2. ASSUME NEW r \in Requests, SetDefault(r)
        PROVE  req'[x] = req[x] \/ (req[x] \in RequestType /\ req'[x] = [req[x] EXCEPT !.raced = TRUE])
    <3>. DEFINE reqs == IF req[r].default THEN Promoted(req, req[r].profile) ELSE req
    <3>1. \/ req' = [req EXCEPT ![r] = NoRequest]
          \/ req' = [reqs EXCEPT ![r] = Finished(r)]
      BY <2>2 DEF SetDefault
    <3>2. DOMAIN reqs = Requests /\ reqs[x] \in {req[x], [req[x] EXCEPT !.raced = TRUE]}
      BY <1>1 DEF Promoted
    <3>. HIDE DEF reqs
    <3>3. CASE req' = [req EXCEPT ![r] = NoRequest]
      BY <1>1, <1>4, <3>3 DEF NoRequest
    <3>4. CASE req' = [reqs EXCEPT ![r] = Finished(r)]
      <4>1. x # r => req'[x] = reqs[x]
        BY <3>2, <3>4
      <4>2. x = r => req'[x] = Finished(r)
        BY <3>2, <3>4
      <4>. QED
        BY <1>1, <1>4, <3>2, <4>1, <4>2
    <3>. QED
      BY <3>1, <3>3, <3>4
  <2>3. ASSUME NEW r \in Requests, Finish(r) \/ RequestFails(r) PROVE req'[x] = req[x]
    BY <1>1, <1>4, <2>3 DEF Finish, RequestFails, NoRequest
  <2>4. ASSUME NEW r \in Requests, NEW taken \in BOOLEAN, InsertProfile(r, taken) PROVE req'[x] = req[x]
    <3>1. \/ req' = [req EXCEPT ![r] = NoRequest]
          \/ req' = [req EXCEPT ![r] = Finished(r)]
      BY <2>4 DEF InsertProfile
    <3>. QED
      BY <1>1, <1>4, <3>1 DEF NoRequest
  <2>5. ASSUME NEW r \in Requests, NEW w \in Processes, NEW o \in Owners, RemoveOwner(r, w, o)
        PROVE  req'[x] = req[x]
    BY <1>1, <1>4, <2>5 DEF RemoveOwner, Begin, NoRequest
  <2>6. ASSUME \/ \E p \in Profiles, limit \in LimitsOrNone : ChangeLimit(p, limit)
               \/ \E w \in Processes : Looks(w)
               \/ Reserves
        PROVE  req'[x] = req[x]
    BY <2>6 DEF ChangeLimit, Looks, LookAtProfiles, LookAtOwners, SetFlag, FlagExpires, Reserves,
                Resolve, Reserve, Drop
  <2>. QED
    BY <2>1, <2>2, <2>3, <2>4, <2>5, <2>6
<1>5. ASSUME NEW x \in Requests, req'[x].pc \in {"reassign", "delete"}
      PROVE  /\ req'[x].profile \in Profiles
             /\ req'[x].pc = "delete" => OwnersOf(owner', req'[x].profile) \subseteq req'[x].late
  <2>1. CASE req'[x] = req[x]
    BY <1>3, <1>5, <2>1 DEF DeleteInv, DeletesKnowOwners
  <2>2. CASE req[x] \in RequestType /\ req'[x] = [req[x] EXCEPT !.raced = TRUE]
    <3>1. req'[x].pc = req[x].pc /\ req'[x].profile = req[x].profile /\ req'[x].late = req[x].late
      BY <2>2 DEF RequestType
    <3>. QED
      BY <1>3, <1>5, <3>1 DEF DeleteInv, DeletesKnowOwners
  <2>. QED
    BY <1>4, <1>5, <2>1, <2>2
<1>6. DeletesKnowOwners'
  BY <1>5 DEF DeletesKnowOwners, OwnersOf
<1>. QED
  BY <1>2, <1>6 DEF DeleteInv, DeletionSparesOwners

LEMMA PutsKeepOwners ==
    ASSUME DeleteInv, NEW r \in Requests, PutOwner(r) \/ \E told \in SUBSET Owners : BulkAssign(r, told)
    PROVE  DeletesKnowOwners' /\ DeletionSparesOwners'
<1>. DEFINE os == Put(owner, req[r].owners, req[r].profile, req[r].override)
            reqs == Assigned(req, req[r].profile, req[r].owners)
<1>1. /\ req \in [Requests -> RequestType] /\ Finished(r).pc = "finish" /\ Finished(r) \in RequestType
      /\ RequestsTypeOK
  <2>1. RequestsTypeOK
    BY DEF DeleteInv
  <2>2. req \in [Requests -> RequestType]
    BY <2>1 DEF RequestsTypeOK
  <2>3. Finished(r) \in RequestType
    BY <2>1, Moved
  <2>4. Finished(r).pc = "finish"
    BY <2>2 DEF Finished, RequestType
  <2>. QED
    BY <2>1, <2>2, <2>3, <2>4
<1>2. /\ req[r].pc \in {"put", "bulk"} /\ UNCHANGED orphaned
      /\ \E what \in RequestType :
            /\ what.pc \in {"none", "finish"}
            /\ \/ what.pc = "finish" /\ owner' = os /\ req' = [reqs EXCEPT ![r] = what]
               \/ owner' = owner /\ req' = [req EXCEPT ![r] = what]
  <2>1. CASE PutOwner(r)
    <3>1. NoRequest \in RequestType /\ NoRequest.pc = "none"
      BY ProfileRows DEF NoRequest
    <3>. QED
      BY <1>1, <2>1, <3>1 DEF PutOwner, Commit, NoCommit, tableVars
  <2>2. ASSUME NEW told \in SUBSET Owners, BulkAssign(r, told)
        PROVE  /\ req[r].pc \in {"put", "bulk"} /\ UNCHANGED orphaned
               /\ \E what \in RequestType :
                    /\ what.pc \in {"none", "finish"}
                    /\ \/ what.pc = "finish" /\ owner' = os /\ req' = [reqs EXCEPT ![r] = what]
                       \/ owner' = owner /\ req' = [req EXCEPT ![r] = what]
    <3>. DEFINE what == [Finished(r) EXCEPT !.told = told]
    <3>1. what \in RequestType /\ what.pc = "finish"
      BY <1>1 DEF RequestType
    <3>2. \/ owner' = os /\ req' = [reqs EXCEPT ![r] = what]
          \/ owner' = owner /\ req' = [req EXCEPT ![r] = what]
      BY <2>2 DEF BulkAssign, Commit, NoCommit, tableVars
    <3>3. req[r].pc \in {"put", "bulk"} /\ UNCHANGED orphaned
      BY <2>2 DEF BulkAssign
    <3>. HIDE DEF what, os, reqs
    <3>. QED
      BY <3>1, <3>2, <3>3
  <2>. QED
    BY <2>1, <2>2
<1>3. PICK what \in RequestType :
          /\ what.pc \in {"none", "finish"}
          /\ \/ what.pc = "finish" /\ owner' = os /\ req' = [reqs EXCEPT ![r] = what]
             \/ owner' = owner /\ req' = [req EXCEPT ![r] = what]
  BY <1>2
<1>4. CASE what.pc = "finish" /\ owner' = os /\ req' = [reqs EXCEPT ![r] = what]
  BY <1>2, <1>4, PutKeepsOwners
<1>5. CASE owner' = owner /\ req' = [req EXCEPT ![r] = what]
  <2>1. \A x \in Requests : req'[x].pc \in {"reassign", "delete"} => req'[x] = req[x]
    BY <1>1, <1>3, <1>5
  <2>. QED
    BY <1>2, <1>5, <2>1, OwnersShrink
<1>. QED
  BY <1>3, <1>4, <1>5

\* However requests interleave, the deletion of a profile takes it only from owners
\* assigned after the deletion counted them, and from those it was asked to give it to.
THEOREM AdminDeletionSparesOwners == AdminSpec => []DeletionSparesOwners
<1>1. AdminInit => DeleteInv
  <2>. SUFFICES ASSUME AdminInit PROVE DeletesKnowOwners /\ DeletionSparesOwners
    BY TypesInit DEF DeleteInv
  <2>. QED
    BY DEF AdminInit, DeletesKnowOwners, DeletionSparesOwners, NoRequest
<1>2. DeleteInv /\ [AdminNext]_adminVars => DeleteInv'
  <2>. SUFFICES ASSUME DeleteInv, [AdminNext]_adminVars
                PROVE  DeletesKnowOwners' /\ DeletionSparesOwners'
    BY TypesStep DEF DeleteInv
  <2>1. CASE UNCHANGED adminVars
    BY <2>1 DEF adminVars, tableVars, DeleteInv, DeletesKnowOwners, DeletionSparesOwners, OwnersOf
  <2>2. CASE AdminNext
    BY <2>2, NextSplit, StartsKeepOwners, PutsKeepOwners, ReassignKeepsOwners, DeleteKeepsOwners,
       OthersKeepOwners
  <2>. QED
    BY <2>1, <2>2
<1>3. DeleteInv => DeletionSparesOwners
  BY DEF DeleteInv
<1>. QED
  BY <1>1, <1>2, <1>3, PTL DEF AdminSpec

-----------------------------------------------------------------------------
(* Units and limits *)

\* A submission holds the limit of its owner, unless it changed since.
ReservesKnowLimits ==
    \A v \in Reservers : reserve[v].owner \in Owners \ moved =>
        /\ reserve[v].limit # Nothing
        /\ reserve[v].limit = ResolveLimit(profile, owner, reserve[v].owner)

LoadInv == SharedTypeOK /\ RequestsTypeOK /\ ReservesKnowLimits /\ LoadWithinLimit

LEMMA LoadsStay ==
    ASSUME LoadInv, UNCHANGED <<profile, owner, units, reserve, moved>>
    PROVE  ReservesKnowLimits' /\ LoadWithinLimit'
BY DEF LoadInv, ReservesKnowLimits, LoadWithinLimit

LEMMA CommitKeepsLoads ==
    ASSUME LoadInv, SharedTypeOK', NEW ps, NEW os, Commit(ps, os)
    PROVE  ReservesKnowLimits' /\ LoadWithinLimit'
<1>1. /\ profile' = ps /\ owner' = os /\ units' = units /\ reserve' = reserve
      /\ moved' = moved \cup {o \in Owners : /\ ResolveLimit(ps, os, o) # ResolveLimit(profile, owner, o)
                                             /\ units[o] > 0 \/ InFlight(o)}
  BY DEF Commit, loadVars
<1>2. ps \in [Profiles -> ProfileType] /\ os \in [Owners -> OwnerType]
  BY <1>1 DEF SharedTypeOK
<1>3. ASSUME NEW o \in Owners, o \notin moved'
      PROVE  /\ o \notin moved
             /\ \/ ResolveLimit(profile', owner', o) = ResolveLimit(profile, owner, o)
                \/ units[o] = 0 /\ ~InFlight(o)
  <2>1. units[o] \in Nat
    BY AdminAssumption DEF LoadInv, SharedTypeOK
  <2>. QED
    BY <1>1, <1>3, <2>1
<1>4. ReservesKnowLimits'
  <2>. SUFFICES ASSUME NEW v \in Reservers, reserve[v].owner \in Owners \ moved'
                PROVE  /\ reserve[v].limit # Nothing
                       /\ reserve[v].limit = ResolveLimit(profile', owner', reserve[v].owner)
    BY <1>1 DEF ReservesKnowLimits
  <2>1. InFlight(reserve[v].owner)
    BY DEF InFlight
  <2>. QED
    BY <1>3, <2>1 DEF LoadInv, ReservesKnowLimits
<1>5. LoadWithinLimit'
  <2>. SUFFICES ASSUME NEW o \in Owners, o \notin moved', ResolveLimit(profile', owner', o) # Nothing
                PROVE  units[o] <= ResolveLimit(profile', owner', o)
    BY <1>1 DEF LoadWithinLimit
  <2>1. CASE ResolveLimit(profile', owner', o) = ResolveLimit(profile, owner, o)
    BY <1>3, <2>1 DEF LoadInv, LoadWithinLimit
  <2>2. CASE units[o] = 0
    <3>1. ResolveLimit(profile', owner', o) \in LimitsOrNone
      BY <1>1, <1>2, LimitTyped
    <3>2. ResolveLimit(profile', owner', o) \in 0 .. MaxLimit
      BY <3>1 DEF LimitsOrNone
    <3>. QED
      BY <2>2, <3>2, AdminAssumption
  <2>. QED
    BY <1>3, <2>1, <2>2
<1>. QED
  BY <1>4, <1>5

LEMMA ReservesKeepLoads ==
    ASSUME LoadInv, Reserves
    PROVE  ReservesKnowLimits' /\ LoadWithinLimit'
<1>1. /\ profile' = profile /\ owner' = owner
      /\ reserve \in [Reservers -> ReserveType] /\ units \in [Owners -> 0 .. MaxLoad] /\ MaxLoad \in Nat
      /\ NoReserve.owner \notin Owners
  BY AdminAssumption DEF Reserves, Resolve, Reserve, Drop, tableVars, LoadInv, SharedTypeOK, NoReserve
<1>2. ASSUME NEW v \in Reservers, NEW o \in Owners, Resolve(v, o)
      PROVE  ReservesKnowLimits' /\ LoadWithinLimit'
  <2>1. /\ units' = units /\ moved' = moved /\ ResolveLimit(profile, owner, o) # Nothing
        /\ reserve' = [reserve EXCEPT ![v] = [owner |-> o, limit |-> ResolveLimit(profile, owner, o)]]
    BY <1>2 DEF Resolve
  <2>2. LoadWithinLimit'
    BY <1>1, <2>1 DEF LoadInv, LoadWithinLimit
  <2>3. ReservesKnowLimits'
    BY <1>1, <2>1 DEF LoadInv, ReservesKnowLimits
  <2>. QED
    BY <2>2, <2>3
<1>3. ASSUME NEW v \in Reservers, Reserve(v)
      PROVE  ReservesKnowLimits' /\ LoadWithinLimit'
  <2>. DEFINE o == reserve[v].owner
  <2>1. /\ moved' = moved /\ reserve' = [reserve EXCEPT ![v] = NoReserve] /\ reserve[v] # NoReserve
        /\ units' = IF Fits(units[o], reserve[v].limit) THEN [units EXCEPT ![o] = units[o] + 1] ELSE units
    BY <1>3 DEF Reserve
  <2>2. ReservesKnowLimits'
    BY <1>1, <2>1 DEF LoadInv, ReservesKnowLimits
  <2>3. LoadWithinLimit'
    <3>. SUFFICES ASSUME NEW q \in Owners, q \notin moved, ResolveLimit(profile, owner, q) # Nothing
                  PROVE  units'[q] <= ResolveLimit(profile, owner, q)
      BY <1>1, <2>1 DEF LoadWithinLimit
    <3>1. units[q] <= ResolveLimit(profile, owner, q)
      BY DEF LoadInv, LoadWithinLimit
    <3>2. CASE q = o /\ Fits(units[o], reserve[v].limit)
      <4>1. reserve[v].limit = ResolveLimit(profile, owner, q)
        BY <3>2 DEF LoadInv, ReservesKnowLimits
      <4>2. units'[q] = units[q] + 1
        BY <1>1, <2>1, <3>2
      <4>. QED
        BY <3>2, <4>1, <4>2 DEF Fits
    <3>3. CASE ~(q = o /\ Fits(units[o], reserve[v].limit))
      <4>1. units'[q] = units[q]
        BY <1>1, <2>1, <3>3
      <4>. QED
        BY <3>1, <4>1
    <3>. QED
      BY <3>2, <3>3
  <2>. QED
    BY <2>2, <2>3
<1>4. ASSUME NEW o \in Owners, NEW left \in 0 .. MaxLoad, Drop(o, left)
      PROVE  ReservesKnowLimits' /\ LoadWithinLimit'
  <2>1. /\ units' = [units EXCEPT ![o] = left] /\ left < units[o] /\ reserve' = reserve
        /\ moved' = IF left = 0 /\ ~InFlight(o) THEN moved \ {o} ELSE moved
    BY <1>4 DEF Drop
  <2>2. ReservesKnowLimits'
    <3>. SUFFICES ASSUME NEW v \in Reservers, reserve[v].owner \in Owners \ moved'
                  PROVE  /\ reserve[v].limit # Nothing
                         /\ reserve[v].limit = ResolveLimit(profile, owner, reserve[v].owner)
      BY <1>1, <2>1 DEF ReservesKnowLimits
    <3>1. reserve[v].owner \notin moved
      BY <2>1 DEF InFlight
    <3>. QED
      BY <3>1 DEF LoadInv, ReservesKnowLimits
  <2>3. LoadWithinLimit'
    <3>. SUFFICES ASSUME NEW q \in Owners, q \notin moved', ResolveLimit(profile, owner, q) # Nothing
                  PROVE  units'[q] <= ResolveLimit(profile, owner, q)
      BY <1>1, <2>1 DEF LoadWithinLimit
    <3>1. ResolveLimit(profile, owner, q) \in 0 .. MaxLimit /\ MaxLimit \in Nat
      <4>1. ResolveLimit(profile, owner, q) \in LimitsOrNone
        BY LimitTyped DEF LoadInv, SharedTypeOK
      <4>. QED
        BY <4>1, AdminAssumption DEF LimitsOrNone
    <3>2. CASE q \in moved
      <4>1. q = o /\ left = 0 /\ units'[q] = 0
        BY <1>1, <2>1, <3>2
      <4>. QED
        BY <3>1, <4>1
    <3>3. CASE q \notin moved
      <4>1. units[q] <= ResolveLimit(profile, owner, q)
        BY <3>3 DEF LoadInv, LoadWithinLimit
      <4>2. units[q] \in 0 .. MaxLoad /\ (q # o => units'[q] = units[q]) /\ (q = o => units'[q] = left)
        BY <1>1, <2>1
      <4>3. CASE q = o
        <5>1. units'[q] = left /\ left < units[q] /\ left \in Int /\ units[q] \in Int
          BY <2>1, <4>2, <4>3, <1>1
        <5>. QED
          BY <3>1, <4>1, <5>1
      <4>. QED
        BY <4>1, <4>2, <4>3
    <3>. QED
      BY <3>2, <3>3
  <2>. QED
    BY <2>2, <2>3
<1>. QED
  BY <1>2, <1>3, <1>4 DEF Reserves

LEMMA LoadsOrNot ==
    ASSUME AdminNext
    PROVE  \/ \E ps, os : Commit(ps, os)
           \/ UNCHANGED <<profile, owner, units, reserve, moved>>
           \/ Reserves
<1>. USE DEF NoCommit, tableVars, cacheVars, loadVars
<1>1. ASSUME NEW r \in Requests, NEW w \in Processes, Starts(r, w)
      PROVE  UNCHANGED <<profile, owner, units, reserve, moved>>
  BY <1>1 DEF Starts, StartCreate, StartUpdate, StartDelete, StartPut
<1>2. ASSUME NEW r \in Requests, ClearDefault(r) \/ SetDefault(r) \/ Reassign(r) \/ DeleteProfile(r)
      PROVE  (\E ps, os : Commit(ps, os)) \/ UNCHANGED <<profile, owner, units, reserve, moved>>
  BY <1>2 DEF ClearDefault, SetDefault, Reassign, DeleteProfile
<1>3. ASSUME NEW r \in Requests, NEW taken \in BOOLEAN, InsertProfile(r, taken)
      PROVE  (\E ps, os : Commit(ps, os)) \/ UNCHANGED <<profile, owner, units, reserve, moved>>
  BY <1>3 DEF InsertProfile
<1>4. ASSUME NEW p \in Profiles, NEW limit \in LimitsOrNone, ChangeLimit(p, limit)
      PROVE  \E ps, os : Commit(ps, os)
  BY <1>4 DEF ChangeLimit
<1>5. ASSUME NEW r \in Requests, PutOwner(r) \/ \E told \in SUBSET Owners : BulkAssign(r, told)
      PROVE  (\E ps, os : Commit(ps, os)) \/ UNCHANGED <<profile, owner, units, reserve, moved>>
  BY <1>5 DEF PutOwner, BulkAssign
<1>6. ASSUME NEW r \in Requests, NEW w \in Processes, NEW o \in Owners, RemoveOwner(r, w, o)
      PROVE  \E ps, os : Commit(ps, os)
  BY <1>6 DEF RemoveOwner
<1>7. ASSUME (\E r \in Requests : Finish(r) \/ RequestFails(r)) \/ \E w \in Processes : Looks(w)
      PROVE  UNCHANGED <<profile, owner, units, reserve, moved>>
  BY <1>7 DEF Finish, RequestFails, Looks, LookAtProfiles, LookAtOwners, SetFlag, FlagExpires
<1>. QED
  BY <1>1, <1>2, <1>3, <1>4, <1>5, <1>6, <1>7, NextSplit

\* Reserving against a limit read before the transaction exceeds the owner's limit
\* only if the limit changed while units were counted or being reserved.
THEOREM AdminLoadWithinLimit == AdminSpec => []LoadWithinLimit
<1>1. AdminInit => LoadInv
  <2>. SUFFICES ASSUME AdminInit PROVE ReservesKnowLimits /\ LoadWithinLimit
    BY TypesInit DEF LoadInv
  <2>1. ReservesKnowLimits
    BY AdminAssumption DEF AdminInit, ReservesKnowLimits, NoReserve
  <2>2. ASSUME NEW o \in Owners, ResolveLimit(profile, owner, o) # Nothing
        PROVE  units[o] <= ResolveLimit(profile, owner, o)
    <3>1. ResolveLimit(profile, owner, o) \in LimitsOrNone
      BY TypesInit, LimitTyped DEF SharedTypeOK
    <3>2. ResolveLimit(profile, owner, o) \in 0 .. MaxLimit /\ MaxLimit \in Nat
      BY <2>2, <3>1, AdminAssumption DEF LimitsOrNone
    <3>3. units[o] = 0
      BY DEF AdminInit
    <3>. QED
      BY <3>2, <3>3
  <2>. QED
    BY <2>1, <2>2 DEF LoadWithinLimit
<1>2. LoadInv /\ [AdminNext]_adminVars => LoadInv'
  <2>. SUFFICES ASSUME LoadInv, [AdminNext]_adminVars
                PROVE  ReservesKnowLimits' /\ LoadWithinLimit'
    BY TypesStep DEF LoadInv
  <2>0. SharedTypeOK'
    BY TypesStep DEF LoadInv
  <2>1. CASE UNCHANGED adminVars
    <3>1. UNCHANGED <<profile, owner, units, reserve, moved>>
      BY <2>1 DEF adminVars, tableVars, loadVars
    <3>. QED
      BY <3>1, LoadsStay
  <2>2. CASE AdminNext
    BY <2>0, <2>2, LoadsOrNot, CommitKeepsLoads, LoadsStay, ReservesKeepLoads
  <2>. QED
    BY <2>1, <2>2
<1>3. LoadInv => LoadWithinLimit
  BY DEF LoadInv
<1>. QED
  BY <1>1, <1>2, <1>3, PTL DEF AdminSpec

-----------------------------------------------------------------------------
(* The default profile *)

\* A default is a live profile, and there is one at most.
OneDefault ==
    \A p \in Profiles : profile[p].default =>
        /\ profile[p].status = "live"
        /\ \A q \in Profiles : profile[q].default => p = q

\* What one request knows of its profile.
KnowsProfile(q) ==
    /\ q.pc \in {"clear", "insert", "set", "reassign", "delete"} => q.profile \in Profiles
    /\ q.pc = "clear" => q.default
    /\ q.pc = "insert" => profile[q.profile].status = "new"
    /\ q.pc \in {"set", "reassign", "delete"} => profile[q.profile].status # "new"
    /\ q.pc \in {"reassign", "delete"} /\ profile[q.profile].default => q.raced

RequestsKnowProfiles == \A r \in Requests : KnowsProfile(req[r])

\* The one that is about to insert a profile has it for itself.
NewProfilesAreTheirs ==
    \A r, x \in Requests :
        r # x /\ req[r].pc \in {"clear", "insert"} /\ profile[req[r].profile].status = "new" =>
            req[x].profile # req[r].profile

\* A request that is about to set the default it has cleared.
Moving(q) == q.pc \in {"insert", "set"} /\ q.default

DefaultOrReason == HasDefault(profile) \/ undefaulted \/ \E r \in Requests : Moving(req[r])

DefaultInv == /\ SharedTypeOK /\ RequestsTypeOK
              /\ OneDefault /\ RequestsKnowProfiles /\ NewProfilesAreTheirs /\ DefaultOrReason

DefaultRest == OneDefault /\ RequestsKnowProfiles /\ NewProfilesAreTheirs /\ DefaultOrReason

\* Requests that are, as far as the default goes, where they were.
SameOf(x) == /\ req'[x].pc = req[x].pc /\ req'[x].profile = req[x].profile
             /\ req'[x].default = req[x].default /\ req'[x].raced = req[x].raced

\* .. or over, or past the statement that matters here.
OverOf(x) == /\ req'[x].pc \in {"none", "finish"}
             /\ req'[x].profile \in {Nothing, req[x].profile}

QuietProfiles == \A p \in Profiles : /\ profile'[p].default = profile[p].default
                                     /\ profile'[p].status = profile[p].status

LEMMA QuietProfilesSame ==
    ASSUME QuietProfiles
    PROVE  HasDefault(profile') <=> HasDefault(profile)
BY DEF QuietProfiles, HasDefault, Exists

LEMMA QuietStep ==
    ASSUME DefaultInv, QuietProfiles,
           \A x \in Requests :
               \/ SameOf(x)
               \/ OverOf(x) /\ (Moving(req[x]) => undefaulted' \/ HasDefault(profile))
               \/ /\ req[x].pc = "reassign" /\ req'[x].pc = "delete"
                  /\ req'[x].profile = req[x].profile /\ req'[x].raced = req[x].raced,
           undefaulted => undefaulted'
    PROVE  DefaultRest'
<1>1. OneDefault'
  BY DEF DefaultInv, OneDefault, QuietProfiles
<1>2. ASSUME NEW x \in Requests
      PROVE  /\ req'[x].pc \in {"clear", "insert", "set", "reassign", "delete"} =>
                    req'[x].profile \in Profiles
             /\ req'[x].pc = "clear" => req'[x].default
             /\ req'[x].pc = "insert" => profile'[req'[x].profile].status = "new"
             /\ req'[x].pc \in {"set", "reassign", "delete"} => profile'[req'[x].profile].status # "new"
             /\ req'[x].pc \in {"reassign", "delete"} /\ profile'[req'[x].profile].default => req'[x].raced
  <2>1. KnowsProfile(req[x])
    BY DEF DefaultInv, RequestsKnowProfiles
  <2>2. CASE SameOf(x)
    BY <2>1, <2>2 DEF SameOf, KnowsProfile, QuietProfiles
  <2>3. CASE OverOf(x)
    BY <2>3 DEF OverOf
  <2>4. CASE /\ req[x].pc = "reassign" /\ req'[x].pc = "delete"
             /\ req'[x].profile = req[x].profile /\ req'[x].raced = req[x].raced
    BY <2>1, <2>4 DEF KnowsProfile, QuietProfiles
  <2>. QED
    BY <2>2, <2>3, <2>4
<1>3. RequestsKnowProfiles'
  BY <1>2 DEF RequestsKnowProfiles, KnowsProfile
<1>4. NewProfilesAreTheirs'
  <2>. SUFFICES ASSUME NEW r \in Requests, NEW x \in Requests, r # x,
                       req'[r].pc \in {"clear", "insert"}, profile'[req'[r].profile].status = "new"
                PROVE  req'[x].profile # req'[r].profile
    BY DEF NewProfilesAreTheirs
  <2>1. SameOf(r)
    BY DEF OverOf
  <2>2. req[r].profile \in Profiles /\ req[r].profile # Nothing
    BY <2>1, AdminAssumption DEF SameOf, DefaultInv, RequestsKnowProfiles, KnowsProfile
  <2>3. req[x].profile # req[r].profile
    BY <2>1, <2>2 DEF SameOf, QuietProfiles, DefaultInv, NewProfilesAreTheirs
  <2>4. req'[x].profile \in {Nothing, req[x].profile}
    BY DEF SameOf, OverOf
  <2>. QED
    BY <2>1, <2>2, <2>3, <2>4 DEF SameOf
<1>5. DefaultOrReason'
  <2>1. HasDefault(profile) => HasDefault(profile')
    BY QuietProfilesSame
  <2>2. ASSUME NEW r \in Requests, Moving(req[r])
        PROVE  HasDefault(profile') \/ undefaulted' \/ (req'[r].pc \in {"insert", "set"} /\ req'[r].default)
    BY <2>1, <2>2 DEF SameOf, Moving
  <2>3. HasDefault(profile') \/ undefaulted' \/ \E r \in Requests : req'[r].pc \in {"insert", "set"} /\ req'[r].default
    BY <2>1, <2>2 DEF DefaultInv, DefaultOrReason
  <2>. QED
    BY <2>3 DEF DefaultOrReason, Moving
<1>. QED
  BY <1>1, <1>3, <1>4, <1>5 DEF DefaultRest

\* What Assigned and Promoted leave of a request.
LEMMA AssignedSame ==
    ASSUME NEW reqs \in [Requests -> RequestType], NEW p, NEW S \in SUBSET Owners, NEW x \in Requests
    PROVE  /\ Assigned(reqs, p, S)[x].pc = reqs[x].pc
           /\ Assigned(reqs, p, S)[x].profile = reqs[x].profile
           /\ Assigned(reqs, p, S)[x].default = reqs[x].default
           /\ Assigned(reqs, p, S)[x].raced = reqs[x].raced
           /\ Assigned(reqs, p, S)[x] \in RequestType
<1>1. reqs[x] \in RequestType
  OBVIOUS
<1>2. Assigned(reqs, p, S)[x] = IF reqs[x].pc \in {"reassign", "delete"} /\ reqs[x].profile = p
                                THEN [reqs[x] EXCEPT !.late = reqs[x].late \cup S] ELSE reqs[x]
  BY <1>1 DEF Assigned, RequestType
<1>3. /\ Assigned(reqs, p, S)[x].pc = reqs[x].pc
      /\ Assigned(reqs, p, S)[x].profile = reqs[x].profile
      /\ Assigned(reqs, p, S)[x].default = reqs[x].default
      /\ Assigned(reqs, p, S)[x].raced = reqs[x].raced
  BY <1>1, <1>2 DEF RequestType
<1>4. Assigned(reqs, p, S)[x] \in RequestType
  BY AssignedType
<1>. QED
  BY <1>3, <1>4

LEMMA PromotedSame ==
    ASSUME NEW reqs \in [Requests -> RequestType], NEW p, NEW x \in Requests
    PROVE  /\ Promoted(reqs, p)[x].pc = reqs[x].pc
           /\ Promoted(reqs, p)[x].profile = reqs[x].profile
           /\ Promoted(reqs, p)[x].default = reqs[x].default
           /\ Promoted(reqs, p)[x].raced =
                  (reqs[x].raced \/ (reqs[x].pc \in {"reassign", "delete"} /\ reqs[x].profile = p))
<1>1. reqs[x] \in RequestType
  OBVIOUS
<1>2. Promoted(reqs, p)[x] = IF reqs[x].pc \in {"reassign", "delete"} /\ reqs[x].profile = p
                             THEN [reqs[x] EXCEPT !.raced = TRUE] ELSE reqs[x]
  BY DEF Promoted
<1>3. reqs[x].raced \in BOOLEAN
  BY <1>1 DEF RequestType
<1>4. /\ Promoted(reqs, p)[x].pc = reqs[x].pc
      /\ Promoted(reqs, p)[x].profile = reqs[x].profile
      /\ Promoted(reqs, p)[x].default = reqs[x].default
  BY <1>1, <1>2 DEF RequestType
<1>5. Promoted(reqs, p)[x].raced =
          (reqs[x].raced \/ (reqs[x].pc \in {"reassign", "delete"} /\ reqs[x].profile = p))
  <2>1. CASE reqs[x].pc \in {"reassign", "delete"} /\ reqs[x].profile = p
    BY <1>1, <1>2, <1>3, <2>1 DEF RequestType
  <2>2. CASE ~(reqs[x].pc \in {"reassign", "delete"} /\ reqs[x].profile = p)
    BY <1>2, <1>3, <2>2
  <2>. QED
    BY <2>1, <2>2
<1>. QED
  BY <1>4, <1>5

LEMMA FinishedAt ==
    ASSUME RequestsTypeOK, NEW r \in Requests
    PROVE  /\ req \in [Requests -> RequestType]
           /\ Finished(r).pc = "finish" /\ Finished(r).profile = req[r].profile
           /\ Finished(r) \in RequestType
           /\ NoRequest.pc = "none" /\ NoRequest.profile = Nothing
           /\ req[r].default \in BOOLEAN
<1>1. req \in [Requests -> RequestType] /\ req[r] \in RequestType
  BY DEF RequestsTypeOK
<1>2. Finished(r).pc = "finish" /\ Finished(r).profile = req[r].profile
  BY <1>1 DEF Finished, RequestType
<1>3. Finished(r) \in RequestType
  BY Moved
<1>4. NoRequest.pc = "none" /\ NoRequest.profile = Nothing
  BY DEF NoRequest
<1>5. req[r].default \in BOOLEAN
  BY <1>1 DEF RequestType
<1>. QED
  BY <1>1, <1>2, <1>3, <1>4, <1>5

\* A request begins, knowing its profile.
LEMMA StartStep ==
    ASSUME DefaultInv, profile' = profile, undefaulted' = undefaulted, NEW r \in Requests,
           req[r] = NoRequest, NEW what, req' = [req EXCEPT ![r] = what], KnowsProfile(what),
           what.profile \in Profiles /\ profile[what.profile].status = "new" =>
               \A x \in Requests : req[x].profile # what.profile
    PROVE  DefaultRest'
<1>1. /\ req'[r] = what /\ \A x \in Requests \ {r} : req'[x] = req[x]
      /\ ~Moving(req[r])
  BY FinishedAt DEF DefaultInv, Moving
<1>2. OneDefault'
  BY DEF DefaultInv, OneDefault
<1>3. RequestsKnowProfiles'
  BY <1>1 DEF DefaultInv, RequestsKnowProfiles, KnowsProfile
<1>4. NewProfilesAreTheirs'
  <2>. SUFFICES ASSUME NEW x \in Requests, NEW y \in Requests, x # y,
                       req'[x].pc \in {"clear", "insert"}, profile[req'[x].profile].status = "new"
                PROVE  req'[y].profile # req'[x].profile
    BY DEF NewProfilesAreTheirs
  <2>1. req'[x].profile \in Profiles
    BY <1>1 DEF DefaultInv, RequestsKnowProfiles, KnowsProfile
  <2>2. CASE x = r
    BY <1>1, <2>1, <2>2
  <2>3. CASE y = r
    BY <1>1, <2>1, <2>3
  <2>4. CASE x # r /\ y # r
    BY <1>1, <2>4 DEF DefaultInv, NewProfilesAreTheirs
  <2>. QED
    BY <2>2, <2>3, <2>4
<1>5. DefaultOrReason'
  <2>1. HasDefault(profile') = HasDefault(profile)
    OBVIOUS
  <2>2. ASSUME NEW x \in Requests, Moving(req[x])
        PROVE  req'[x].pc \in {"insert", "set"} /\ req'[x].default
    BY <1>1, <2>2 DEF Moving
  <2>. QED
    BY <2>1, <2>2 DEF DefaultInv, DefaultOrReason, Moving
<1>. QED
  BY <1>2, <1>3, <1>4, <1>5 DEF DefaultRest

LEMMA StartsKeepDefault ==
    ASSUME DefaultInv, NEW r \in Requests, NEW w \in Processes, Starts(r, w)
    PROVE  DefaultRest'
<1>1. profile' = profile /\ undefaulted' = undefaulted
  BY DEF Starts, StartCreate, StartUpdate, StartDelete, StartPut, NoCommit, tableVars
<1>2. \A p \in Profiles : profile[p].default \in BOOLEAN
  BY DEF DefaultInv, SharedTypeOK, ProfileType
<1>3. ASSUME NEW p \in Profiles, NEW default \in BOOLEAN, StartCreate(r, w, p, default)
      PROVE  DefaultRest'
  <2>. DEFINE what == [NoRequest EXCEPT !.pc = IF default THEN "clear" ELSE "insert",
                          !.process = w, !.profile = p, !.default = default]
  <2>1. req' = [req EXCEPT ![r] = what] /\ req[r] = NoRequest
    BY <1>3 DEF StartCreate, Begin
  <2>2. what.profile = p /\ what.default = default /\ what.pc = IF default THEN "clear" ELSE "insert"
    BY DEF NoRequest
  <2>. HIDE DEF what
  <2>3. profile[p].status = "new" /\ \A x \in Requests : req[x].profile # p
    BY <1>3 DEF StartCreate
  <2>4. KnowsProfile(what)
    BY <2>2, <2>3 DEF KnowsProfile
  <2>. QED
    BY <1>1, <2>1, <2>2, <2>3, <2>4, StartStep
<1>4. ASSUME NEW p \in Profiles, NEW default \in BOOLEAN, StartUpdate(r, w, p, default)
      PROVE  DefaultRest'
  <2>. DEFINE what == [NoRequest EXCEPT !.pc = IF default THEN "clear" ELSE "set",
                          !.process = w, !.profile = p, !.default = default]
  <2>1. req' = [req EXCEPT ![r] = what] /\ req[r] = NoRequest
    BY <1>4 DEF StartUpdate, Begin
  <2>2. what.profile = p /\ what.default = default /\ what.pc = IF default THEN "clear" ELSE "set"
    BY DEF NoRequest
  <2>. HIDE DEF what
  <2>3. profile[p].status # "new"
    BY <1>4 DEF StartUpdate, Exists
  <2>4. KnowsProfile(what)
    BY <2>2, <2>3 DEF KnowsProfile
  <2>. QED
    BY <1>1, <2>1, <2>2, <2>3, <2>4, StartStep
<1>5. ASSUME NEW p \in Profiles, NEW target \in ProfilesOrNone, StartDelete(r, w, p, target)
      PROVE  DefaultRest'
  <2>. DEFINE what == [NoRequest EXCEPT !.pc = IF OwnersOf(owner, p) # {} THEN "reassign" ELSE "delete",
                          !.process = w, !.profile = p, !.target = target]
  <2>1. req' = [req EXCEPT ![r] = what] /\ req[r] = NoRequest
    BY <1>5 DEF StartDelete, Begin
  <2>2. what.profile = p /\ what.pc \in {"reassign", "delete"}
    BY DEF NoRequest
  <2>. HIDE DEF what
  <2>3. profile[p].status # "new" /\ ~profile[p].default
    BY <1>5 DEF StartDelete, Exists
  <2>4. KnowsProfile(what)
    BY <2>2, <2>3 DEF KnowsProfile
  <2>. QED
    BY <1>1, <2>1, <2>2, <2>3, <2>4, StartStep
<1>6. ASSUME NEW S \in SUBSET Owners, NEW p \in ProfilesOrNone, NEW override \in LimitsOrNone,
             NEW bulk \in BOOLEAN, StartPut(r, w, S, p, override, bulk)
      PROVE  DefaultRest'
  <2>. DEFINE what == [NoRequest EXCEPT !.pc = IF bulk THEN "bulk" ELSE "put", !.process = w,
                          !.profile = p, !.owners = S, !.override = override]
  <2>1. req' = [req EXCEPT ![r] = what] /\ req[r] = NoRequest
    BY <1>6 DEF StartPut, Begin
  <2>2. what.profile = p /\ what.pc \in {"put", "bulk"}
    BY DEF NoRequest
  <2>. HIDE DEF what
  <2>3. p \in Profiles => profile[p].status # "new"
    BY <1>6, AdminAssumption DEF StartPut, Exists
  <2>4. KnowsProfile(what)
    BY <2>2 DEF KnowsProfile
  <2>. QED
    BY <1>1, <2>1, <2>2, <2>3, <2>4, StartStep
<1>. QED
  BY <1>3, <1>4, <1>5, <1>6 DEF Starts

LEMMA ClearKeepsDefault ==
    ASSUME DefaultInv, NEW r \in Requests, ClearDefault(r)
    PROVE  DefaultRest'
<1>. DEFINE p == req[r].profile
            pc == IF profile[p].status = "new" THEN "insert" ELSE "set"
            what == [req[r] EXCEPT !.pc = pc]
<1>1. /\ req \in [Requests -> RequestType] /\ req[r] \in RequestType
      /\ profile \in [Profiles -> ProfileType]
  BY DEF DefaultInv, RequestsTypeOK, SharedTypeOK
<1>2. req[r].pc = "clear" /\ p \in Profiles /\ req[r].default
  BY DEF ClearDefault, DefaultInv, RequestsKnowProfiles, KnowsProfile
<1>3. \A q \in Profiles : ~profile'[q].default /\ profile'[q].status = profile[q].status
  BY <1>1 DEF ClearDefault, Commit, Cleared, ProfileType
<1>4. /\ req' = [req EXCEPT ![r] = what]
      /\ what.pc = pc /\ what.profile = p /\ what.default
  BY <1>1, <1>2 DEF ClearDefault, RequestType
<1>5. /\ req'[r].pc = pc /\ req'[r].profile = p /\ req'[r].default
      /\ \A x \in Requests \ {r} : req'[x] = req[x]
  <2>. HIDE DEF what, pc, p
  <2>. QED
    BY <1>1, <1>4
<1>6. OneDefault'
  BY <1>3 DEF OneDefault
<1>7. RequestsKnowProfiles'
  <2>1. ASSUME NEW x \in Requests
        PROVE  /\ req'[x].pc \in {"clear", "insert", "set", "reassign", "delete"} => req'[x].profile \in Profiles
               /\ req'[x].pc = "clear" => req'[x].default
               /\ req'[x].pc = "insert" => profile'[req'[x].profile].status = "new"
               /\ req'[x].pc \in {"set", "reassign", "delete"} => profile'[req'[x].profile].status # "new"
               /\ req'[x].pc \in {"reassign", "delete"} /\ profile'[req'[x].profile].default => req'[x].raced
    <3>1. CASE x = r
      BY <1>2, <1>3, <1>5, <3>1
    <3>2. CASE x # r
      BY <1>3, <1>5, <3>2 DEF DefaultInv, RequestsKnowProfiles, KnowsProfile
    <3>. QED
      BY <3>1, <3>2
  <2>. QED
    BY <2>1 DEF RequestsKnowProfiles, KnowsProfile
<1>8. NewProfilesAreTheirs'
  <2>. SUFFICES ASSUME NEW x \in Requests, NEW y \in Requests, x # y,
                       req'[x].pc \in {"clear", "insert"}, profile'[req'[x].profile].status = "new"
                PROVE  req'[y].profile # req'[x].profile
    BY DEF NewProfilesAreTheirs
  <2>1. \A z \in Requests : req'[z].profile = req[z].profile
    BY <1>5
  <2>2. req[x].pc \in {"clear", "insert"} /\ req[x].profile \in Profiles
    BY <1>2, <1>5 DEF DefaultInv, RequestsKnowProfiles, KnowsProfile
  <2>3. profile[req[x].profile].status = "new"
    BY <1>3, <2>1, <2>2
  <2>. QED
    BY <2>1, <2>2, <2>3 DEF DefaultInv, NewProfilesAreTheirs
<1>9. DefaultOrReason'
  <2>1. req'[r].pc \in {"insert", "set"} /\ req'[r].default
    BY <1>5
  <2>. QED
    BY <2>1 DEF DefaultOrReason, Moving
<1>. QED
  BY <1>6, <1>7, <1>8, <1>9 DEF DefaultRest

LEMMA InsertKeepsDefault ==
    ASSUME DefaultInv, NEW r \in Requests, NEW taken \in BOOLEAN, InsertProfile(r, taken)
    PROVE  DefaultRest'
<1>. DEFINE p == req[r].profile
            row == [NewProfile EXCEPT !.status = "live", !.default = req[r].default]
<1>1. /\ req \in [Requests -> RequestType] /\ req[r].default \in BOOLEAN
      /\ Finished(r).pc = "finish" /\ Finished(r).profile = p
      /\ NoRequest.pc = "none" /\ NoRequest.profile = Nothing
      /\ profile \in [Profiles -> ProfileType]
  BY FinishedAt DEF DefaultInv, SharedTypeOK
<1>2. /\ req[r].pc = "insert" /\ p \in Profiles /\ profile[p].status = "new"
  BY DEF InsertProfile, DefaultInv, RequestsKnowProfiles, KnowsProfile
<1>3. CASE taken \/ Refuses(r)
  <2>1. /\ req' = [req EXCEPT ![r] = NoRequest] /\ NoCommit
        /\ undefaulted' = (undefaulted \/ (req[r].default /\ ~HasDefault(profile)))
    BY <1>3 DEF InsertProfile
  <2>2. QuietProfiles
    BY <2>1 DEF NoCommit, tableVars, QuietProfiles
  <2>3. ASSUME NEW x \in Requests
        PROVE  SameOf(x) \/ (OverOf(x) /\ (Moving(req[x]) => undefaulted' \/ HasDefault(profile)))
    <3>1. CASE x = r
      BY <1>1, <2>1, <3>1 DEF OverOf, Moving
    <3>2. CASE x # r
      BY <1>1, <2>1, <3>2 DEF SameOf
    <3>. QED
      BY <3>1, <3>2
  <2>. QED
    BY <2>1, <2>2, <2>3, QuietStep
<1>4. CASE ~(taken \/ Refuses(r))
  <2>1. /\ profile' = [profile EXCEPT ![p] = row]
        /\ req' = [req EXCEPT ![r] = Finished(r)]
        /\ undefaulted' = (undefaulted /\ ~req[r].default)
    BY <1>4 DEF InsertProfile, Commit
  <2>2. /\ row.status = "live" /\ row.default = req[r].default
        /\ profile'[p] = row /\ \A q \in Profiles \ {p} : profile'[q] = profile[q]
    <3>1. row.status = "live" /\ row.default = req[r].default
      BY DEF NewProfile
    <3>. HIDE DEF row, p
    <3>. QED
      BY <1>1, <1>2, <2>1, <3>1
  <2>. HIDE DEF row
  <2>3. req'[r] = Finished(r) /\ \A x \in Requests \ {r} : req'[x] = req[x]
    BY <1>1, <2>1
  <2>4. req[r].default => \A q \in Profiles \ {p} : ~profile[q].default
    BY <1>4 DEF Refuses, Exists, DefaultInv, OneDefault
  <2>5. OneDefault'
    BY <2>2, <2>4 DEF DefaultInv, OneDefault
  <2>6. \A x \in Requests \ {r} : req[x].profile # p
    BY <1>2 DEF DefaultInv, NewProfilesAreTheirs
  <2>7. RequestsKnowProfiles'
    BY <1>1, <2>2, <2>3, <2>6 DEF DefaultInv, RequestsKnowProfiles, KnowsProfile
  <2>8. NewProfilesAreTheirs'
    <3>. SUFFICES ASSUME NEW x \in Requests, NEW y \in Requests, x # y,
                         req'[x].pc \in {"clear", "insert"}, profile'[req'[x].profile].status = "new"
                  PROVE  req'[y].profile # req'[x].profile
      BY DEF NewProfilesAreTheirs
    <3>1. x # r /\ req'[x] = req[x] /\ req'[y].profile = req[y].profile
      BY <1>1, <2>3
    <3>2. req[x].profile \in Profiles \ {p}
      BY <2>6, <3>1 DEF DefaultInv, RequestsKnowProfiles, KnowsProfile
    <3>. QED
      BY <2>2, <3>1, <3>2 DEF DefaultInv, NewProfilesAreTheirs
  <2>9. DefaultOrReason'
    <3>1. CASE req[r].default
      <4>1. profile'[p].default /\ profile'[p].status = "live"
        BY <2>2, <3>1
      <4>. QED
        BY <1>2, <4>1 DEF DefaultOrReason, HasDefault, Exists
    <3>2. CASE ~req[r].default
      <4>1. HasDefault(profile) => HasDefault(profile')
        BY <1>2, <2>2 DEF HasDefault, Exists
      <4>2. \A x \in Requests : Moving(req[x]) => req'[x].pc \in {"insert", "set"} /\ req'[x].default
        BY <2>3, <3>2 DEF Moving
      <4>3. HasDefault(profile') \/ undefaulted' \/ \E x \in Requests : req'[x].pc \in {"insert", "set"} /\ req'[x].default
        BY <2>1, <3>2, <4>1, <4>2 DEF DefaultInv, DefaultOrReason
      <4>. QED
        BY <4>3 DEF DefaultOrReason, Moving
    <3>. QED
      BY <3>1, <3>2
  <2>. QED
    BY <2>5, <2>7, <2>8, <2>9 DEF DefaultRest
<1>. QED
  BY <1>3, <1>4

LEMMA SetKeepsDefault ==
    ASSUME DefaultInv, NEW r \in Requests, SetDefault(r)
    PROVE  DefaultRest'
<1>. DEFINE p == req[r].profile
            reqs == IF req[r].default THEN Promoted(req, p) ELSE req
<1>1. /\ req \in [Requests -> RequestType] /\ req[r].default \in BOOLEAN
      /\ Finished(r).pc = "finish" /\ Finished(r).profile = p
      /\ NoRequest.pc = "none" /\ NoRequest.profile = Nothing
      /\ profile \in [Profiles -> ProfileType]
  BY FinishedAt DEF DefaultInv, SharedTypeOK
<1>2. req[r].pc = "set" /\ p \in Profiles /\ profile[p].status # "new" /\ profile[p] \in ProfileType
  BY <1>1 DEF SetDefault, DefaultInv, RequestsKnowProfiles, KnowsProfile
<1>3. CASE Refuses(r)
  <2>1. req' = [req EXCEPT ![r] = NoRequest] /\ NoCommit /\ undefaulted' = undefaulted
    BY <1>3 DEF SetDefault
  <2>2. QuietProfiles /\ HasDefault(profile)
    BY <1>3, <2>1 DEF NoCommit, tableVars, QuietProfiles, Refuses, HasDefault
  <2>3. ASSUME NEW x \in Requests
        PROVE  SameOf(x) \/ (OverOf(x) /\ (Moving(req[x]) => undefaulted' \/ HasDefault(profile)))
    <3>1. CASE x = r
      BY <1>1, <2>1, <2>2, <3>1 DEF OverOf
    <3>2. CASE x # r
      BY <1>1, <2>1, <3>2 DEF SameOf
    <3>. QED
      BY <3>1, <3>2
  <2>. QED
    BY <2>1, <2>2, <2>3, QuietStep
<1>4. CASE ~Refuses(r)
  <2>1. /\ profile' = IF Exists(profile, p) THEN [profile EXCEPT ![p].default = req[r].default] ELSE profile
        /\ req' = [reqs EXCEPT ![r] = Finished(r)]
        /\ undefaulted' = IF Exists(profile, p) /\ req[r].default THEN FALSE
                          ELSE undefaulted \/ ~Exists(profile, p) \/ profile[p].default
    BY <1>4 DEF SetDefault, Commit
  <2>2. \A q \in Profiles :
            /\ profile'[q].status = profile[q].status
            /\ profile'[q].default = IF q = p /\ Exists(profile, p) THEN req[r].default ELSE profile[q].default
    BY <1>1, <1>2, <2>1 DEF ProfileType
  <2>3. \A x \in Requests : /\ reqs[x].pc = req[x].pc /\ reqs[x].profile = req[x].profile
                            /\ reqs[x].default = req[x].default
                            /\ req[x].raced => reqs[x].raced
                            /\ req[r].default /\ req[x].pc \in {"reassign", "delete"} /\ req[x].profile = p =>
                                   reqs[x].raced
    <3>. SUFFICES ASSUME NEW x \in Requests
                  PROVE  /\ reqs[x].pc = req[x].pc /\ reqs[x].profile = req[x].profile
                         /\ reqs[x].default = req[x].default
                         /\ (req[x].raced => reqs[x].raced)
                         /\ (req[r].default /\ req[x].pc \in {"reassign", "delete"} /\ req[x].profile = p =>
                                reqs[x].raced)
      OBVIOUS
    <3>2. CASE req[r].default
      <4>1. reqs = Promoted(req, p)
        BY <3>2
      <4>2. /\ Promoted(req, p)[x].pc = req[x].pc /\ Promoted(req, p)[x].profile = req[x].profile
            /\ Promoted(req, p)[x].default = req[x].default
            /\ Promoted(req, p)[x].raced =
                  (req[x].raced \/ (req[x].pc \in {"reassign", "delete"} /\ req[x].profile = p))
        BY <1>1, PromotedSame
      <4>. HIDE DEF reqs, p
      <4>. QED
        BY <4>1, <4>2
    <3>3. CASE ~req[r].default
      <4>1. reqs = req
        BY <3>3
      <4>. HIDE DEF reqs
      <4>. QED
        BY <3>3, <4>1
    <3>. QED
      BY <3>2, <3>3
  <2>4. DOMAIN reqs = Requests
    BY <1>1 DEF Promoted
  <2>. HIDE DEF reqs
  <2>5. /\ req'[r] = Finished(r) /\ \A x \in Requests \ {r} : req'[x] = reqs[x]
    BY <2>1, <2>4
  <2>6. req[r].default => \A q \in Profiles \ {p} : ~profile[q].default
    BY <1>4 DEF Refuses, Exists, DefaultInv, OneDefault
  <2>7. OneDefault'
    BY <2>2, <2>6 DEF DefaultInv, OneDefault, Exists
  <2>8. RequestsKnowProfiles'
    <3>1. ASSUME NEW x \in Requests
          PROVE  /\ req'[x].pc \in {"clear", "insert", "set", "reassign", "delete"} => req'[x].profile \in Profiles
                 /\ req'[x].pc = "clear" => req'[x].default
                 /\ req'[x].pc = "insert" => profile'[req'[x].profile].status = "new"
                 /\ req'[x].pc \in {"set", "reassign", "delete"} => profile'[req'[x].profile].status # "new"
                 /\ req'[x].pc \in {"reassign", "delete"} /\ profile'[req'[x].profile].default => req'[x].raced
      <4>1. CASE x = r
        BY <1>1, <2>5, <4>1
      <4>2. CASE x # r
        <5>1. KnowsProfile(req[x])
          BY DEF DefaultInv, RequestsKnowProfiles
        <5>2. /\ req'[x].pc = req[x].pc /\ req'[x].profile = req[x].profile
              /\ req'[x].default = req[x].default /\ (req[x].raced => req'[x].raced)
              /\ (req[r].default /\ req[x].pc \in {"reassign", "delete"} /\ req[x].profile = p => req'[x].raced)
          BY <2>3, <2>5, <4>2
        <5>3. req[x].pc \in {"clear", "insert", "set", "reassign", "delete"} =>
                 /\ req[x].profile \in Profiles
                 /\ profile'[req[x].profile].status = profile[req[x].profile].status
                 /\ profile'[req[x].profile].default =>
                       profile[req[x].profile].default \/ (req[x].profile = p /\ req[r].default)
          BY <2>2, <5>1 DEF KnowsProfile
        <5>. QED
          BY <5>1, <5>2, <5>3 DEF KnowsProfile
      <4>. QED
        BY <4>1, <4>2
    <3>. QED
      BY <3>1 DEF RequestsKnowProfiles, KnowsProfile
  <2>9. NewProfilesAreTheirs'
    <3>. SUFFICES ASSUME NEW x \in Requests, NEW y \in Requests, x # y,
                         req'[x].pc \in {"clear", "insert"}, profile'[req'[x].profile].status = "new"
                  PROVE  req'[y].profile # req'[x].profile
      BY DEF NewProfilesAreTheirs
    <3>1. x # r /\ req'[x].pc = req[x].pc /\ req'[x].profile = req[x].profile
          /\ req'[y].profile = req[y].profile
      BY <1>1, <2>3, <2>5
    <3>2. req[x].profile \in Profiles
      BY <3>1 DEF DefaultInv, RequestsKnowProfiles, KnowsProfile
    <3>. QED
      BY <2>2, <3>1, <3>2 DEF DefaultInv, NewProfilesAreTheirs
  <2>10. DefaultOrReason'
    <3>1. CASE Exists(profile, p) /\ req[r].default
      <4>1. profile'[p].default /\ profile'[p].status = "live"
        BY <1>2, <2>2, <3>1 DEF Exists
      <4>. QED
        BY <1>2, <4>1 DEF DefaultOrReason, HasDefault, Exists
    <3>2. CASE ~Exists(profile, p) \/ profile[p].default
      <4>1. undefaulted' \/ (Exists(profile, p) /\ req[r].default)
        BY <2>1, <3>2
      <4>. QED
        BY <3>1, <4>1 DEF DefaultOrReason
    <3>3. CASE Exists(profile, p) /\ ~req[r].default /\ ~profile[p].default
      <4>1. HasDefault(profile) => HasDefault(profile')
        BY <2>2, <3>3 DEF HasDefault, Exists
      <4>2. \A x \in Requests : Moving(req[x]) => req'[x].pc \in {"insert", "set"} /\ req'[x].default
        BY <2>3, <2>5, <3>3 DEF Moving
      <4>3. HasDefault(profile') \/ undefaulted' \/ \E x \in Requests : req'[x].pc \in {"insert", "set"} /\ req'[x].default
        BY <2>1, <3>3, <4>1, <4>2 DEF DefaultInv, DefaultOrReason
      <4>. QED
        BY <4>3 DEF DefaultOrReason, Moving
    <3>. QED
      BY <3>1, <3>2, <3>3
  <2>. QED
    BY <2>7, <2>8, <2>9, <2>10 DEF DefaultRest
<1>. QED
  BY <1>3, <1>4

\* The profile goes, and if it had become the default meanwhile, so does the default.
LEMMA DeleteKeepsDefault ==
    ASSUME DefaultInv, NEW r \in Requests, DeleteProfile(r)
    PROVE  DefaultRest'
<1>. DEFINE p == req[r].profile
            row == [NewProfile EXCEPT !.status = "deleted"]
<1>1. /\ req \in [Requests -> RequestType]
      /\ Finished(r).pc = "finish" /\ Finished(r).profile = p
      /\ profile \in [Profiles -> ProfileType]
  BY FinishedAt DEF DefaultInv, SharedTypeOK
<1>2. /\ req[r].pc = "delete" /\ p \in Profiles /\ (profile[p].default => req[r].raced)
  BY DEF DeleteProfile, DefaultInv, RequestsKnowProfiles, KnowsProfile
<1>3. /\ profile' = [profile EXCEPT ![p] = row]
      /\ req' = [req EXCEPT ![r] = Finished(r)]
      /\ undefaulted' = (undefaulted \/ (profile[p].default /\ req[r].raced))
  BY DEF DeleteProfile, Commit
<1>4. /\ row.status = "deleted" /\ row.default = FALSE
      /\ profile'[p] = row /\ \A q \in Profiles \ {p} : profile'[q] = profile[q]
  <2>1. row.status = "deleted" /\ row.default = FALSE
    BY DEF NewProfile
  <2>. HIDE DEF row, p
  <2>. QED
    BY <1>1, <1>2, <1>3, <2>1
<1>. HIDE DEF row
<1>5. req'[r] = Finished(r) /\ \A x \in Requests \ {r} : req'[x] = req[x]
  BY <1>1, <1>3
<1>6. OneDefault'
  BY <1>4 DEF DefaultInv, OneDefault
<1>7. RequestsKnowProfiles'
  <2>1. ASSUME NEW x \in Requests
        PROVE  /\ req'[x].pc \in {"clear", "insert", "set", "reassign", "delete"} => req'[x].profile \in Profiles
               /\ req'[x].pc = "clear" => req'[x].default
               /\ req'[x].pc = "insert" => profile'[req'[x].profile].status = "new"
               /\ req'[x].pc \in {"set", "reassign", "delete"} => profile'[req'[x].profile].status # "new"
               /\ req'[x].pc \in {"reassign", "delete"} /\ profile'[req'[x].profile].default => req'[x].raced
    <3>1. CASE x = r
      BY <1>1, <1>5, <3>1
    <3>2. CASE x # r
      <4>1. KnowsProfile(req[x]) /\ req'[x] = req[x]
        BY <1>5, <3>2 DEF DefaultInv, RequestsKnowProfiles
      <4>2. req[x].pc = "insert" => req[x].profile # p
        BY <1>2, <3>2, <4>1 DEF DefaultInv, NewProfilesAreTheirs, KnowsProfile
      <4>. QED
        BY <1>4, <4>1, <4>2 DEF KnowsProfile
    <3>. QED
      BY <3>1, <3>2
  <2>. QED
    BY <2>1 DEF RequestsKnowProfiles, KnowsProfile
<1>8. NewProfilesAreTheirs'
  <2>. SUFFICES ASSUME NEW x \in Requests, NEW y \in Requests, x # y,
                       req'[x].pc \in {"clear", "insert"}, profile'[req'[x].profile].status = "new"
                PROVE  req'[y].profile # req'[x].profile
    BY DEF NewProfilesAreTheirs
  <2>1. x # r /\ req'[x] = req[x] /\ req'[y].profile = req[y].profile
    BY <1>1, <1>5
  <2>2. req[x].profile \in Profiles \ {p}
    BY <1>4, <2>1 DEF DefaultInv, RequestsKnowProfiles, KnowsProfile
  <2>. QED
    BY <1>4, <2>1, <2>2 DEF DefaultInv, NewProfilesAreTheirs
<1>9. DefaultOrReason'
  <2>1. CASE profile[p].default
    BY <1>2, <1>3, <2>1 DEF DefaultOrReason
  <2>2. CASE ~profile[p].default
    <3>1. HasDefault(profile) => HasDefault(profile')
      BY <1>4, <2>2 DEF HasDefault, Exists
    <3>2. \A x \in Requests : Moving(req[x]) => req'[x].pc \in {"insert", "set"} /\ req'[x].default
      BY <1>2, <1>5 DEF Moving
    <3>3. HasDefault(profile') \/ undefaulted' \/ \E x \in Requests : req'[x].pc \in {"insert", "set"} /\ req'[x].default
      BY <1>3, <3>1, <3>2 DEF DefaultInv, DefaultOrReason
    <3>. QED
      BY <3>3 DEF DefaultOrReason, Moving
  <2>. QED
    BY <2>1, <2>2
<1>. QED
  BY <1>6, <1>7, <1>8, <1>9 DEF DefaultRest

\* Owners move to another profile: no profile changes its mark.
LEMMA ReassignKeepsDefault ==
    ASSUME DefaultInv, NEW r \in Requests, Reassign(r)
    PROVE  DefaultRest'
<1>. DEFINE t == req[r].target
            all == OwnersOf(owner, req[r].profile)
<1>1. /\ req \in [Requests -> RequestType] /\ req[r] \in RequestType
      /\ NoRequest.pc = "none" /\ NoRequest.profile = Nothing
      /\ req[r].pc = "reassign" /\ undefaulted' = undefaulted
  BY FinishedAt DEF DefaultInv, RequestsTypeOK, Reassign
<1>2. QuietProfiles
  BY DEF Reassign, NoCommit, Commit, tableVars, QuietProfiles
<1>3. CASE ~Exists(profile, t) /\ all # {}
  <2>1. req' = [req EXCEPT ![r] = NoRequest]
    BY <1>3 DEF Reassign
  <2>2. ASSUME NEW x \in Requests
        PROVE  SameOf(x) \/ (OverOf(x) /\ ~Moving(req[x]))
    <3>1. CASE x = r
      BY <1>1, <2>1, <3>1 DEF OverOf, Moving
    <3>2. CASE x # r
      BY <1>1, <2>1, <3>2 DEF SameOf
    <3>. QED
      BY <3>1, <3>2
  <2>. QED
    BY <1>1, <1>2, <2>2, QuietStep
<1>4. CASE ~(~Exists(profile, t) /\ all # {})
  <2>. DEFINE reqs == Assigned(req, t, all)
              late == IF t = req[r].profile THEN all ELSE {}
              what == [reqs[r] EXCEPT !.pc = "delete", !.late = late]
  <2>1. req' = [reqs EXCEPT ![r] = what]
    BY <1>4 DEF Reassign
  <2>2. all \in SUBSET Owners
    BY DEF OwnersOf
  <2>3. /\ DOMAIN reqs = Requests
        /\ \A x \in Requests : /\ reqs[x].pc = req[x].pc /\ reqs[x].profile = req[x].profile
                               /\ reqs[x].default = req[x].default /\ reqs[x].raced = req[x].raced
                               /\ reqs[x] \in RequestType
    <3>1. DOMAIN reqs = Requests
      BY DEF Assigned
    <3>. HIDE DEF all, t
    <3>2. ASSUME NEW x \in Requests
          PROVE  /\ reqs[x].pc = req[x].pc /\ reqs[x].profile = req[x].profile
                 /\ reqs[x].default = req[x].default /\ reqs[x].raced = req[x].raced
                 /\ reqs[x] \in RequestType
      BY <1>1, <2>2, AssignedSame
    <3>. QED
      BY <3>1, <3>2
  <2>. HIDE DEF reqs, late
  <2>4. /\ what.pc = "delete" /\ what.profile = reqs[r].profile /\ what.raced = reqs[r].raced
    BY <2>3 DEF RequestType
  <2>. HIDE DEF what
  <2>5. ASSUME NEW x \in Requests
        PROVE  \/ SameOf(x)
               \/ /\ req[x].pc = "reassign" /\ req'[x].pc = "delete"
                  /\ req'[x].profile = req[x].profile /\ req'[x].raced = req[x].raced
    <3>1. CASE x = r
      BY <1>1, <2>1, <2>3, <2>4, <3>1
    <3>2. CASE x # r
      BY <2>1, <2>3, <3>2 DEF SameOf
    <3>. QED
      BY <3>1, <3>2
  <2>. QED
    BY <1>1, <1>2, <2>5, QuietStep
<1>. QED
  BY <1>3, <1>4

\* A request ends, or reports, and no profile changes its mark.
LEMMA EndQuiet ==
    ASSUME DefaultInv, QuietProfiles, undefaulted => undefaulted', NEW r \in Requests,
           Moving(req[r]) => undefaulted' \/ HasDefault(profile),
           OverOf(r), \A x \in Requests \ {r} : SameOf(x)
    PROVE  DefaultRest'
<1>1. ASSUME NEW x \in Requests
      PROVE  SameOf(x) \/ (OverOf(x) /\ (Moving(req[x]) => undefaulted' \/ HasDefault(profile)))
  OBVIOUS
<1>. QED
  BY <1>1, QuietStep

LEMMA PutsKeepDefault ==
    ASSUME DefaultInv, NEW r \in Requests,
           PutOwner(r) \/ \E told \in SUBSET Owners : BulkAssign(r, told)
    PROVE  DefaultRest'
<1>. DEFINE p == req[r].profile
            S == req[r].owners
            reqs == Assigned(req, p, S)
<1>1. /\ req \in [Requests -> RequestType] /\ req[r] \in RequestType
      /\ Finished(r).pc = "finish" /\ Finished(r).profile = p /\ Finished(r) \in RequestType
      /\ NoRequest.pc = "none" /\ NoRequest.profile = Nothing /\ DOMAIN req = Requests
  BY FinishedAt DEF DefaultInv, RequestsTypeOK
<1>2. QuietProfiles /\ undefaulted' = undefaulted /\ ~Moving(req[r])
  BY DEF PutOwner, BulkAssign, NoCommit, Commit, tableVars, QuietProfiles, Moving
<1>3. S \in SUBSET Owners
  BY <1>1 DEF RequestType
<1>4. DOMAIN reqs = Requests
  BY DEF Assigned
<1>5. \A x \in Requests : /\ reqs[x].pc = req[x].pc /\ reqs[x].profile = req[x].profile
                          /\ reqs[x].default = req[x].default /\ reqs[x].raced = req[x].raced
  <2>. HIDE DEF p, S
  <2>1. ASSUME NEW x \in Requests
        PROVE  /\ reqs[x].pc = req[x].pc /\ reqs[x].profile = req[x].profile
               /\ reqs[x].default = req[x].default /\ reqs[x].raced = req[x].raced
    BY <1>1, <1>3, AssignedSame
  <2>. QED
    BY <2>1
<1>6. CASE PutOwner(r)
  <2>1. req' = [reqs EXCEPT ![r] = Finished(r)] \/ req' = [req EXCEPT ![r] = NoRequest]
    BY <1>6 DEF PutOwner
  <2>. HIDE DEF reqs, p
  <2>2. CASE req' = [reqs EXCEPT ![r] = Finished(r)]
    <3>1. OverOf(r) /\ \A x \in Requests \ {r} : SameOf(x)
      BY <1>1, <1>4, <1>5, <2>2 DEF OverOf, SameOf, p
    <3>. QED
      BY <1>2, <3>1, EndQuiet
  <2>3. CASE req' = [req EXCEPT ![r] = NoRequest]
    <3>1. OverOf(r) /\ \A x \in Requests \ {r} : SameOf(x)
      BY <1>1, <2>3 DEF OverOf, SameOf
    <3>. QED
      BY <1>2, <3>1, EndQuiet
  <2>. QED
    BY <2>1, <2>2, <2>3
<1>7. ASSUME NEW told \in SUBSET Owners, BulkAssign(r, told)
      PROVE  DefaultRest'
  <2>. DEFINE what == [Finished(r) EXCEPT !.told = told]
  <2>1. req' = [reqs EXCEPT ![r] = what] \/ req' = [req EXCEPT ![r] = what]
    BY <1>7 DEF BulkAssign
  <2>2. what.pc = "finish" /\ what.profile = req[r].profile
    BY <1>1 DEF RequestType
  <2>. HIDE DEF reqs, what
  <2>3. CASE req' = [reqs EXCEPT ![r] = what]
    <3>1. OverOf(r) /\ \A x \in Requests \ {r} : SameOf(x)
      BY <1>4, <1>5, <2>2, <2>3 DEF OverOf, SameOf
    <3>. QED
      BY <1>2, <3>1, EndQuiet
  <2>4. CASE req' = [req EXCEPT ![r] = what]
    <3>1. OverOf(r) /\ \A x \in Requests \ {r} : SameOf(x)
      BY <1>1, <2>2, <2>4 DEF OverOf, SameOf
    <3>. QED
      BY <1>2, <3>1, EndQuiet
  <2>. QED
    BY <2>1, <2>3, <2>4
<1>. QED
  BY <1>6, <1>7

LEMMA EndsKeepDefault ==
    ASSUME DefaultInv, NEW r \in Requests, Finish(r) \/ RequestFails(r)
    PROVE  DefaultRest'
<1>1. /\ req \in [Requests -> RequestType] /\ DOMAIN req = Requests
      /\ NoRequest.pc = "none" /\ NoRequest.profile = Nothing
      /\ req' = [req EXCEPT ![r] = NoRequest]
  BY FinishedAt DEF DefaultInv, Finish, RequestFails
<1>2. QuietProfiles /\ (undefaulted => undefaulted')
  <2>1. QuietProfiles
    BY DEF Finish, RequestFails, tableVars, QuietProfiles
  <2>2. CASE Finish(r)
    BY <2>1, <2>2 DEF Finish
  <2>3. CASE RequestFails(r)
    <3>1. undefaulted => undefaulted'
      BY <2>3, Zenon DEF RequestFails
    <3>. QED
      BY <2>1, <3>1
  <2>. QED
    BY <2>2, <2>3
<1>3. Moving(req[r]) => undefaulted' \/ HasDefault(profile)
  <2>1. CASE Finish(r)
    BY <2>1 DEF Finish, Moving
  <2>2. CASE RequestFails(r)
    BY <2>2, Zenon DEF RequestFails, Moving
  <2>. QED
    BY <2>1, <2>2
<1>4. OverOf(r) /\ \A x \in Requests \ {r} : SameOf(x)
  BY <1>1 DEF OverOf, SameOf
<1>. QED
  BY <1>2, <1>3, <1>4, EndQuiet

LEMMA OthersKeepDefault ==
    ASSUME DefaultInv, QuietProfiles, UNCHANGED <<req, undefaulted>>
    PROVE  DefaultRest'
<1>1. \A x \in Requests : SameOf(x)
  BY DEF SameOf
<1>. QED
  BY <1>1, QuietStep

LEMMA RestKeepsDefault ==
    ASSUME DefaultInv,
           \/ \E p \in Profiles, limit \in LimitsOrNone : ChangeLimit(p, limit)
           \/ \E r \in Requests, w \in Processes, o \in Owners : RemoveOwner(r, w, o)
           \/ \E w \in Processes : Looks(w)
           \/ Reserves
    PROVE  DefaultRest'
<1>1. ASSUME NEW p \in Profiles, NEW limit \in LimitsOrNone, ChangeLimit(p, limit)
      PROVE  DefaultRest'
  <2>1. profile \in [Profiles -> ProfileType]
    BY DEF DefaultInv, SharedTypeOK
  <2>2. QuietProfiles /\ UNCHANGED <<req, undefaulted>>
    BY <1>1, <2>1 DEF ChangeLimit, Commit, QuietProfiles, ProfileType
  <2>. QED
    BY <2>2, OthersKeepDefault
<1>2. ASSUME NEW r \in Requests, NEW w \in Processes, NEW o \in Owners, RemoveOwner(r, w, o)
      PROVE  DefaultRest'
  <2>. DEFINE what == [NoRequest EXCEPT !.pc = "finish", !.process = w]
  <2>1. req' = [req EXCEPT ![r] = what] /\ req[r] = NoRequest
    BY <1>2 DEF RemoveOwner, Begin
  <2>2. what.profile = Nothing /\ what.pc = "finish"
    BY DEF NoRequest
  <2>3. NoRequest.pc = "none" /\ req \in [Requests -> RequestType] /\ DOMAIN req = Requests
    BY FinishedAt DEF DefaultInv
  <2>. HIDE DEF what
  <2>4. QuietProfiles /\ undefaulted' = undefaulted
    BY <1>2 DEF RemoveOwner, Commit, QuietProfiles
  <2>5. ~Moving(req[r])
    BY <2>1, <2>3 DEF Moving
  <2>6. OverOf(r) /\ \A x \in Requests \ {r} : SameOf(x)
    BY <2>1, <2>2, <2>3 DEF OverOf, SameOf
  <2>. QED
    BY <2>4, <2>5, <2>6, EndQuiet
<1>3. ASSUME NEW w \in Processes, Looks(w)
      PROVE  DefaultRest'
  <2>1. QuietProfiles /\ UNCHANGED <<req, undefaulted>>
    BY <1>3 DEF Looks, LookAtProfiles, LookAtOwners, SetFlag, FlagExpires, tableVars, QuietProfiles
  <2>. QED
    BY <2>1, OthersKeepDefault
<1>4. CASE Reserves
  <2>1. QuietProfiles /\ UNCHANGED <<req, undefaulted>>
    BY <1>4 DEF Reserves, Resolve, Reserve, Drop, tableVars, QuietProfiles
  <2>. QED
    BY <2>1, OthersKeepDefault
<1>. QED
  BY <1>1, <1>2, <1>3, <1>4

\* An app has one default profile at most, and is without one only for a reason,
\* for any number of requests that create, mark and delete profiles at once.
THEOREM AdminDefaultLossIsExplained == AdminSpec => []DefaultLossIsExplained
<1>1. AdminInit => DefaultInv
  <2>. SUFFICES ASSUME AdminInit PROVE DefaultRest
    BY TypesInit DEF DefaultInv, DefaultRest
  <2>1. /\ \A p \in Profiles : profile[p].default = FALSE
        /\ \A r \in Requests : req[r].pc = "none"
        /\ undefaulted
    BY DEF AdminInit, NewProfile, NoRequest
  <2>. QED
    BY <2>1 DEF DefaultRest, OneDefault, RequestsKnowProfiles, KnowsProfile, NewProfilesAreTheirs,
                DefaultOrReason
<1>2. DefaultInv /\ [AdminNext]_adminVars => DefaultInv'
  <2>. SUFFICES ASSUME DefaultInv, [AdminNext]_adminVars PROVE DefaultRest'
    BY TypesStep DEF DefaultInv, DefaultRest
  <2>1. CASE UNCHANGED adminVars
    <3>1. QuietProfiles /\ UNCHANGED <<req, undefaulted>>
      BY <2>1 DEF adminVars, tableVars, QuietProfiles
    <3>. QED
      BY <3>1, OthersKeepDefault
  <2>2. CASE AdminNext
    BY <2>2, NextSplit, StartsKeepDefault, ClearKeepsDefault, SetKeepsDefault, ReassignKeepsDefault,
       DeleteKeepsDefault, InsertKeepsDefault, PutsKeepDefault, EndsKeepDefault, RestKeepsDefault
  <2>. QED
    BY <2>1, <2>2
<1>3. DefaultInv => DefaultLossIsExplained
  BY DEF DefaultInv, OneDefault, DefaultOrReason, Moving, DefaultLossIsExplained
<1>. QED
  BY <1>1, <1>2, <1>3, PTL DEF AdminSpec
=============================================================================
