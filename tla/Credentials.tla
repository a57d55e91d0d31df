--------------------------- MODULE Credentials ---------------------------
(***************************************************************************)
(* The provider credentials of one app: PUT /settings/credentials writes   *)
(* them, and the workers of every process read them through the caches of  *)
(* per-app-factory.js, one per process: the row for five minutes, and the  *)
(* Firebase app for as long as the process lives or until it is cleared.   *)
(*                                                                         *)
(* The row is its version, the provider chosen for a channel, and which    *)
(* providers have all the fields they need.                                *)
(***************************************************************************)
EXTENDS Naturals, FiniteSets

CONSTANTS
  Processes,   \* processes that serve requests and run workers
  Workers,     \* jobs of a channel worker under way in each process
  Channels,
  Allowed,     \* [Channels -> providers an app may choose]  (PROVIDER_OPTIONS)
  Changes,     \* what a PUT asks: choices, providers it completes, providers it empties
  MaxVersions, \* bound: writes of the row
  MaxTimeouts  \* bound: cached rows that run out

Providers == UNION {Allowed[c] : c \in Channels}
Default   == "default"

ASSUME CredentialsAssumption ==
  /\ {MaxVersions, MaxTimeouts} \subseteq Nat
  /\ Default \notin Providers
  /\ \A c \in Changes :
       /\ DOMAIN c.choice \subseteq Channels /\ c.filled \cup c.emptied \subseteq Providers
       /\ \A ch \in DOMAIN c.choice : c.choice[ch] \in Allowed[ch] \cup {Default}
       /\ DOMAIN c.choice # {} \/ c.filled \cup c.emptied # {}

VARIABLES
  row,      \* the row of app_provider_credentials; version 0 when there is none
  cached,   \* [Processes -> credentialsCache: a row or nothing]
  firebase, \* [Processes -> version of the row the Firebase app was made from, 0 for none]
  put,      \* [Processes -> PUT under way]
  job,      \* [Processes \X Workers -> lookup under way]
  used,     \* the last provider built: process, provider, version of the row
  floor,    \* history: [Processes -> version the process must know]
  ranOut    \* cached rows that ran out

credentialsVars == <<row, cached, firebase, put, job, used, floor, ranOut>>

NoChoice == [c \in Channels |-> Default]
NoRow    == [version |-> 0, choice |-> NoChoice, complete |-> {}]
Nothing  == [version |-> 0, choice |-> NoChoice, complete |-> {}, miss |-> TRUE]
NoPut    == [pc |-> "idle"]
NoJob    == [pc |-> "idle"]

CredentialsInit ==
  /\ row = NoRow
  /\ cached = [p \in Processes |-> Nothing]
  /\ firebase = [p \in Processes |-> 0]
  /\ put = [p \in Processes |-> NoPut]
  /\ job = [x \in Processes \X Workers |-> NoJob]
  /\ used = {} /\ floor = [p \in Processes |-> 0] /\ ranOut = 0

----------------------------------------------------------------------------
\* The request: for some channels a choice, for some providers fields that
\* complete them or empty a field they need.  ensureFields looks at the stored
\* row with the request's fields over it, for the providers the request names.
Merged(complete, filled, emptied) == (complete \cup filled) \ emptied
Named(choice) == {choice[c] : c \in DOMAIN choice} \ {Default}

ReadExisting(p, c) ==
  /\ put[p] = NoPut /\ row.version < MaxVersions
  /\ Named(c.choice) \subseteq Merged(row.complete, c.filled, c.emptied)
  /\ put' = [put EXCEPT ![p] = [pc |-> "upsert", choice |-> c.choice, filled |-> c.filled, emptied |-> c.emptied]]
  /\ UNCHANGED <<row, cached, firebase, job, used, floor, ranOut>>

\* INSERT .. ON CONFLICT DO UPDATE of the columns the request named.
Upsert(p) ==
  /\ put[p].pc = "upsert" /\ row.version < MaxVersions
  /\ row' = [version  |-> row.version + 1,
             choice   |-> [c \in Channels |-> IF c \in DOMAIN put[p].choice THEN put[p].choice[c] ELSE row.choice[c]],
             complete |-> Merged(row.complete, put[p].filled, put[p].emptied)]
  /\ put' = [put EXCEPT ![p].pc = "clear"]
  /\ UNCHANGED <<cached, firebase, job, used, floor, ranOut>>

LookingUp(p) == \E w \in Workers : job[<<p, w>>].pc = "read"

\* clearAppProviderCache, in the process that served the request.
ForgetRowOnly(p) == cached' = [cached EXCEPT ![p] = Nothing] /\ UNCHANGED firebase
Forget(p) ==
  /\ cached' = [cached EXCEPT ![p] = Nothing]
  /\ firebase' = [firebase EXCEPT ![p] = 0]

ClearCache(p) ==
  /\ put[p].pc = "clear"
  /\ Forget(p)
  /\ floor' = IF LookingUp(p) THEN floor ELSE [floor EXCEPT ![p] = row.version]
  /\ put' = [put EXCEPT ![p] = NoPut]
  /\ UNCHANGED <<row, job, used, ranOut>>

\* The query or the process fails: nothing is cleared.
PutFails(p) ==
  /\ put[p] # NoPut
  /\ put' = [put EXCEPT ![p] = NoPut]
  /\ UNCHANGED <<row, cached, firebase, job, used, floor, ranOut>>

----------------------------------------------------------------------------
\* getAppProvider: the provider chosen, or the server's own when there is no
\* choice or the choice is incomplete.
Choose(r, c) == IF r.choice[c] \in r.complete THEN r.choice[c] ELSE Default

\* PerAppFirebaseProvider keeps the app it made first; the others are made anew
\* from the row.
VersionUsed(p, r, provider) == IF provider = "firebase" /\ firebase[p] # 0 THEN firebase[p] ELSE r.version

\* A constructor that throws is caught: the server's provider again.
Build(p, r, c) ==
  \E provider \in {Choose(r, c), Default} :
     LET version == VersionUsed(p, r, provider)
     IN
     /\ used' = {[at |-> p, provider |-> provider, version |-> version, floor |-> floor[p]]}
     /\ firebase' = IF provider = "firebase" THEN [firebase EXCEPT ![p] = version] ELSE firebase

\* A job whose app is cached goes on without waiting.
BuildFromCache(p, c) ==
  /\ "miss" \notin DOMAIN cached[p]
  /\ Build(p, cached[p], c)
  /\ UNCHANGED <<row, cached, put, job, floor, ranOut>>

\* A query that reads the row later is one that was sent later.
LookUp(p, w, c) ==
  /\ job[<<p, w>>] = NoJob /\ "miss" \in DOMAIN cached[p]
  /\ job' = [job EXCEPT ![<<p, w>>] = [pc |-> "read", channel |-> c, row |-> row]]
  /\ UNCHANGED <<row, cached, firebase, put, used, floor, ranOut>>

\* The answer arrives: it is cached whatever happened meanwhile.
Receive(p, w) ==
  /\ job[<<p, w>>].pc = "read"
  /\ cached' = [cached EXCEPT ![p] = job[<<p, w>>].row]
  /\ Build(p, job[<<p, w>>].row, job[<<p, w>>].channel)
  /\ job' = [job EXCEPT ![<<p, w>>] = NoJob]
  /\ UNCHANGED <<row, put, floor, ranOut>>

\* The lookup throws: the worker falls back to the server's provider.
LookUpFails(p, w) ==
  /\ job[<<p, w>>].pc = "read"
  /\ used' = {[at |-> p, provider |-> Default, version |-> 0, floor |-> floor[p]]}
  /\ job' = [job EXCEPT ![<<p, w>>] = NoJob]
  /\ UNCHANGED <<row, cached, firebase, put, floor, ranOut>>

RunOut(p) ==
  /\ "miss" \notin DOMAIN cached[p] /\ ranOut < MaxTimeouts
  /\ cached' = [cached EXCEPT ![p] = Nothing]
  /\ ranOut' = ranOut + 1
  /\ UNCHANGED <<row, firebase, put, job, used, floor>>

Restart(p) ==
  /\ ranOut < MaxTimeouts
  /\ cached' = [cached EXCEPT ![p] = Nothing]
  /\ firebase' = [firebase EXCEPT ![p] = 0]
  /\ job' = [x \in DOMAIN job |-> IF x[1] = p THEN NoJob ELSE job[x]]
  /\ put' = [put EXCEPT ![p] = NoPut]
  /\ ranOut' = ranOut + 1
  /\ UNCHANGED <<row, used, floor>>

CredentialsNext ==
  \/ \E p \in Processes, c \in Changes : ReadExisting(p, c)
  \/ \E p \in Processes : Upsert(p) \/ ClearCache(p) \/ PutFails(p)
  \/ \E p \in Processes, c \in Channels : BuildFromCache(p, c)
  \/ \E p \in Processes, w \in Workers : (\E c \in Channels : LookUp(p, w, c)) \/ Receive(p, w) \/ LookUpFails(p, w)
  \/ \E p \in Processes : RunOut(p) \/ Restart(p)

CredentialsSpec == CredentialsInit /\ [][CredentialsNext]_credentialsVars

----------------------------------------------------------------------------
(* Properties *)

\* After a PUT has cleared the caches of its process, that process never again
\* builds a provider from an older version of the row, not even the cached
\* Firebase app, unless a lookup was under way when they were cleared
\* (clearAppProviderCache "called when credentials are updated").
OwnProcessIsCurrent == \A u \in used : u.provider = Default \/ u.version >= u.floor
========================================================================
