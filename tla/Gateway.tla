---------------------------- MODULE Gateway ----------------------------
(***************************************************************************)
(* The way of a request through the middleware of index.js, with every     *)
(* Redis command a step of its own: access list, request filter, global    *)
(* limiter, cooldown, API key, endpoint limiter, handler.  All requests    *)
(* come from one client address and use one API key the apps table has,    *)
(* since every key of redis-security.js is one per address or, for the     *)
(* limiter of /notify, per API key.  The switches of security.config.js    *)
(* are on, and the client is not on the white list.  Of the endpoint       *)
(* limiters that of the manual trigger is left out: it counts like that of *)
(* /notify, in a counter of its own.                                       *)
(*                                                                         *)
(* A threat record (incrementThreatScore) runs beside its request where    *)
(* the code does not await it and within it where it does.                 *)
(***************************************************************************)
EXTENDS Integers, FiniteSets, Sequences

CONSTANTS
  Requests,        \* requests under way at the same time
  BadKeys,         \* API keys the apps table does not have
  Clients,         \* what clients ask: route, key and what the filter sees
  Max,             \* [Limiters -> Nat], requests per window
  Thresholds,      \* failures that start a cooldown
  MaxAttempts,     \* failures that ban the client
  ManyKeys,        \* different keys tried that make a pattern
  ThreatThreshold, \* score that bans the client
  Points,          \* [kind of threat -> points], which may be 0
  MaxWindow,       \* bound: windows of a limiter that pass
  MaxArrivals,     \* bound: requests in all
  MaxFaults,       \* bound: Redis commands that fail
  MaxExpiries      \* bound: keys that expire

Limiters == {"global", "auth", "notify"}
Kinds    == {"pattern", "agent", "failed_auth", "suspicious", "probe"}
NoKey    == "missing"
Routes   == {"auth", "notify", "protected", "authprobe", "probe"}
Flags    == {"clean", "pattern", "agent"}
Records  == Requests \X {"beside", "within"}   \* the threat records of a request

ASSUME GatewayAssumption ==
  /\ IsFiniteSet(Requests) /\ IsFiniteSet(BadKeys) /\ {"good", NoKey} \cap BadKeys = {}
  /\ Clients \subseteq [route : Routes, key : BadKeys \cup {"good", NoKey}, flag : Flags]
  /\ Max \in [Limiters -> Nat \ {0}]
  /\ Thresholds \subseteq Nat \ {0}
  /\ {MaxAttempts, ManyKeys, ThreatThreshold} \subseteq Nat \ {0}
  /\ Points \in [Kinds -> Nat]
  /\ {MaxWindow, MaxArrivals, MaxFaults, MaxExpiries} \subseteq Nat

VARIABLES
  hits,      \* [Limiters -> [windows -> counter]]
  failures,  \* counter security:auth:failures
  tried,     \* keys in the list security:auth:attempts
  cooldown,  \* seconds class of security:auth:cooldown: 0 or a threshold
  score,     \* counter security:threat
  banned,    \* security:blacklist exists
  window,    \* [Limiters -> the current window], each of its own length
  req,       \* [Requests -> request]
  threat,    \* [Records -> threat record under way]
  arrivals, faults, expiries,
  admitted,  \* history: counted requests let through, per limiter and window
  recorded,  \* history: points of all threat records begun
  lent,      \* history: points INCR added for records of 0 points, not taken back
  worst      \* history: the largest failure count a handler was given

store  == <<hits, failures, tried, cooldown, score, banned>>
ghosts == <<admitted, recorded, lent, worst>>
gatewayVars == <<store, window, req, threat, arrivals, faults, expiries, ghosts>>

----------------------------------------------------------------------------
\* A counter of Redis: its value, and whether its key is missing, lasts, or has
\* a time to live.
None    == [n |-> 0, key |-> "missing"]
Counter == [n : Int, key : {"missing", "lasting", "timed"}]
Add(c, k) == [n |-> c.n + k, key |-> IF c.key = "missing" THEN "lasting" ELSE c.key]
Timed(c)  == IF c.key = "missing" THEN c ELSE [c EXCEPT !.key = "timed"]  \* EXPIRE

Idle  == [pc |-> "idle", key |-> NoKey, flag |-> "clean", rest |-> << >>, n |-> 0, w |-> 0]
Quiet == [pc |-> "none", kind |-> "probe", judge |-> FALSE, lent |-> FALSE]

\* The middleware a request of a route passes, in the order it is mounted.
Stages(route) ==
  <<"access", "filter", "global">> \o
  CASE route = "auth"      -> <<"cooldown", "auth", "handler">>
    [] route = "notify"    -> <<"key", "notify", "handler">>
    [] route = "protected" -> <<"cooldown", "key", "handler">>
    [] route = "authprobe" -> <<"cooldown", "auth", "notfound">>
    [] route = "probe"     -> <<"notfound">>

GatewayInit ==
  /\ hits = [l \in Limiters |-> [w \in 0 .. MaxWindow |-> None]]
  /\ failures = None /\ tried = {} /\ cooldown = 0 /\ score = None /\ banned = FALSE
  /\ window = [l \in Limiters |-> 0]
  /\ req = [r \in Requests |-> Idle]
  /\ threat = [x \in Records |-> Quiet]
  /\ arrivals = 0 /\ faults = 0 /\ expiries = 0
  /\ admitted = [l \in Limiters |-> [w \in 0 .. MaxWindow |-> 0]]
  /\ recorded = 0 /\ lent = 0 /\ worst = 0

Goto(r, pc) == req' = [req EXCEPT ![r].pc = pc]
\* next(): on to the next middleware.  A limiter reads the clock when it is entered.
WindowOf(pc) == IF pc \in Limiters THEN window[pc] ELSE 0
Onward(r) == req' = [req EXCEPT ![r].pc = Head(req[r].rest), ![r].rest = Tail(@), ![r].n = 0,
                                ![r].w = WindowOf(Head(req[r].rest))]
Answer(r) == req' = [req EXCEPT ![r] = Idle]
Record(x, kind, judge) ==
  /\ threat' = [threat EXCEPT ![x] = [pc |-> "incr", kind |-> kind, judge |-> judge, lent |-> FALSE]]
  /\ recorded' = recorded + Points[kind]
Unrecorded == UNCHANGED <<threat, recorded>>

\* Whether the handler of a request goes on: not while a record it awaits runs.
Resumes(r) == threat[<<r, "within">>] = Quiet

\* A place for a request is free when the records of the last one have ended.
Arrive(r, c) ==
  /\ req[r].pc = "idle" /\ Resumes(r) /\ threat[<<r, "beside">>] = Quiet
  /\ arrivals < MaxArrivals
  /\ LET s == Stages(c.route)
     IN req' = [req EXCEPT ![r] = [pc |-> Head(s), key |-> c.key, flag |-> c.flag,
                                   rest |-> Tail(s), n |-> 0, w |-> 0]]
  /\ arrivals' = arrivals + 1
  /\ UNCHANGED <<store, window, threat, faults, expiries, ghosts>>

\* ipAccessControlMiddleware: a banned client is answered 403.
CheckAccess(r) ==
  /\ req[r].pc = "access"
  /\ IF banned THEN Answer(r) ELSE Onward(r)
  /\ UNCHANGED <<store, window, threat, arrivals, faults, expiries, ghosts>>

\* requestValidationMiddleware: a pattern is answered at once, a known tool let
\* through; the threat record of either is not awaited.
Filter(r) ==
  /\ req[r].pc = "filter"
  /\ IF req[r].flag = "pattern" THEN Answer(r) ELSE Onward(r)
  /\ IF req[r].flag = "clean" THEN Unrecorded ELSE Record(<<r, "beside">>, req[r].flag, TRUE)
  /\ UNCHANGED <<store, window, arrivals, faults, expiries, admitted, lent, worst>>

\* Where a counted request is: its counter has yet to get a time to live, or has one.
Timing(l)  == CASE l = "global" -> "time global" [] l = "auth" -> "time auth" [] OTHER -> "time notify"
Judging(l) == CASE l = "global" -> "judge global" [] l = "auth" -> "judge auth" [] OTHER -> "judge notify"

\* A limiter counts the request in the window it read.
CountHit(r, l) ==
  /\ req[r].pc = l
  /\ LET c == Add(hits[l][req[r].w], 1)
     IN /\ hits' = [hits EXCEPT ![l][req[r].w] = c]
        /\ req' = [req EXCEPT ![r].n = c.n, ![r].pc = IF c.key = "timed" THEN Judging(l) ELSE Timing(l)]
  /\ UNCHANGED <<failures, tried, cooldown, score, banned, window, threat, arrivals, faults, expiries, ghosts>>

TimeHit(r, l) ==
  /\ req[r].pc = Timing(l)
  /\ hits' = [hits EXCEPT ![l][req[r].w] = Timed(@)]
  /\ Goto(r, Judging(l))
  /\ UNCHANGED <<failures, tried, cooldown, score, banned, window, threat, arrivals, faults, expiries, ghosts>>

TooMany(n, l) == n > Max[l]

Judge(r, l) ==
  /\ req[r].pc = Judging(l)
  /\ IF TooMany(req[r].n, l)
       THEN Answer(r) /\ UNCHANGED admitted
       ELSE Onward(r) /\ admitted' = [admitted EXCEPT ![l][req[r].w] = @ + 1]
  /\ UNCHANGED <<store, window, threat, arrivals, faults, recorded, lent, expiries, worst>>

\* incrementWithTTL answers 0 when a command fails: the request goes on uncounted.
LimiterFails(r, l) ==
  /\ req[r].pc \in {l, Timing(l)} /\ faults < MaxFaults
  /\ Onward(r)
  /\ faults' = faults + 1
  /\ UNCHANGED <<store, window, threat, arrivals, expiries, ghosts>>

\* bruteForceProtectionMiddleware
CheckCooldown(r) ==
  /\ req[r].pc = "cooldown"
  /\ IF cooldown > 0 THEN Answer(r) ELSE Onward(r)
  /\ UNCHANGED <<store, window, threat, arrivals, faults, expiries, ghosts>>

\* authMiddleware: the key is looked up, then the failure or success is recorded.
CheckKey(r) ==
  /\ req[r].pc = "key"
  /\ Goto(r, IF req[r].key = "good" THEN "clear failures" ELSE "fail")
  /\ UNCHANGED <<store, window, threat, arrivals, faults, expiries, ghosts>>

\* The lookup fails: answered 500, and no failure is counted.
KeyLookupFails(r) ==
  /\ req[r].pc = "key" /\ req[r].key # NoKey /\ faults < MaxFaults
  /\ Answer(r)
  /\ faults' = faults + 1
  /\ UNCHANGED <<store, window, threat, arrivals, expiries, ghosts>>

\* resetFailureCount: three deletions one after the other.
Clear(r) ==
  /\ \/ req[r].pc = "clear failures" /\ failures' = None /\ Goto(r, "clear tried") /\ UNCHANGED <<tried, cooldown>>
     \/ req[r].pc = "clear tried" /\ tried' = {} /\ Goto(r, "clear cooldown") /\ UNCHANGED <<failures, cooldown>>
     \/ req[r].pc = "clear cooldown" /\ cooldown' = 0 /\ Onward(r) /\ UNCHANGED <<failures, tried>>
  /\ UNCHANGED <<hits, score, banned, window, threat, arrivals, faults, expiries, ghosts>>

----------------------------------------------------------------------------
\* handleAuthFailure
CountFailure(r) ==
  /\ req[r].pc = "fail"
  /\ LET c == Add(failures, 1)
     IN /\ failures' = c
        /\ req' = [req EXCEPT ![r].n = c.n, ![r].pc = IF c.key = "timed" THEN "try" ELSE "fail!"]
        /\ worst' = IF c.n > worst THEN c.n ELSE worst
  /\ UNCHANGED <<hits, tried, cooldown, score, banned, window, threat, arrivals, faults, admitted, expiries, recorded, lent>>

TimeFailure(r) ==
  /\ req[r].pc = "fail!"
  /\ failures' = Timed(failures)
  /\ Goto(r, "try")
  /\ UNCHANGED <<hits, tried, cooldown, score, banned, window, threat, arrivals, faults, expiries, ghosts>>

CountFails(r) ==
  /\ req[r].pc \in {"fail", "fail!"} /\ faults < MaxFaults
  /\ req' = [req EXCEPT ![r].n = 0, ![r].pc = "try"]
  /\ faults' = faults + 1
  /\ UNCHANGED <<store, window, threat, arrivals, expiries, ghosts>>

\* addToList, whose failure only loses the key, then the threat record, awaited.
TryKey(r) ==
  /\ req[r].pc = "try"
  /\ \/ /\ tried' = IF req[r].key = NoKey THEN tried ELSE tried \cup {req[r].key}
        /\ UNCHANGED faults
     \/ /\ req[r].key # NoKey /\ faults < MaxFaults
        /\ faults' = faults + 1
        /\ UNCHANGED tried
  /\ Record(<<r, "within">>, "failed_auth", FALSE)
  /\ Goto(r, "cool down")
  /\ UNCHANGED <<hits, failures, cooldown, score, banned, window, arrivals, admitted, expiries, lent, worst>>

Largest(n) == LET s == {t \in Thresholds : t <= n}
              IN IF s = {} THEN 0 ELSE CHOOSE t \in s : \A u \in s : u <= t

\* applyCooldown: SETEX replaces a cooldown that is already there.
ApplyCooldown(r) ==
  /\ req[r].pc = "cool down" /\ Resumes(r)
  /\ cooldown' = IF Largest(req[r].n) > 0 THEN Largest(req[r].n) ELSE cooldown
  /\ Goto(r, "pattern")
  /\ UNCHANGED <<hits, failures, tried, score, banned, window, threat, arrivals, faults, expiries, ghosts>>

DetectPattern(r) ==
  /\ req[r].pc = "pattern"
  /\ IF Cardinality(tried) > ManyKeys THEN Record(<<r, "within">>, "suspicious", FALSE) ELSE Unrecorded
  /\ Goto(r, "ban")
  /\ UNCHANGED <<store, window, arrivals, faults, expiries, admitted, lent, worst>>

\* checkAndBan, and the answer 401
BanForFailures(r) ==
  /\ req[r].pc = "ban" /\ Resumes(r)
  /\ banned' = (banned \/ req[r].n >= MaxAttempts)
  /\ Answer(r)
  /\ UNCHANGED <<hits, failures, tried, cooldown, score, window, threat, arrivals, faults, expiries, ghosts>>

Handle(r) ==
  /\ req[r].pc = "handler"
  /\ Answer(r)
  /\ UNCHANGED <<store, window, threat, arrivals, faults, expiries, ghosts>>

\* The last handler: a sensitive path is recorded and judged before the 404.
NotFound(r) ==
  /\ req[r].pc = "notfound"
  /\ Record(<<r, "within">>, "probe", TRUE)
  /\ Answer(r)
  /\ UNCHANGED <<store, window, arrivals, faults, expiries, admitted, lent, worst>>

----------------------------------------------------------------------------
\* incrementThreatScore: INCR, EXPIRE when the key has no time to live, then
\* INCRBY of the points less the one already added, -1 for a threat of 0 points.
IncrScore(x) ==
  /\ threat[x].pc = "incr"
  /\ score' = Add(score, 1)
  /\ LET lends == Points[threat[x].kind] = 0
     IN /\ threat' = [threat EXCEPT ![x].pc = IF score.key = "timed" THEN "add" ELSE "expire",
                                    ![x].lent = lends]
        /\ lent' = IF lends THEN lent + 1 ELSE lent
  /\ UNCHANGED <<hits, failures, tried, cooldown, banned, window, req, arrivals, faults, expiries,
                 admitted, recorded, worst>>

TimeScore(x) ==
  /\ threat[x].pc = "expire"
  /\ score' = Timed(score)
  /\ threat' = [threat EXCEPT ![x].pc = "add"]
  /\ UNCHANGED <<hits, failures, tried, cooldown, banned, window, req, arrivals, faults, expiries, ghosts>>

IncrFails(x) ==
  /\ threat[x].pc \in {"incr", "expire"} /\ faults < MaxFaults
  /\ threat' = [threat EXCEPT ![x].pc = "add"]
  /\ faults' = faults + 1
  /\ UNCHANGED <<store, window, req, arrivals, expiries, ghosts>>

\* INCR added one of the points already.
AddedAll(kind) == Points[kind]
Added(kind) == Points[kind] - 1

\* INCRBY also creates a key that expired in between, without time to live.
AddScore(x) ==
  /\ threat[x].pc = "add"
  /\ score' = Add(score, Added(threat[x].kind))
  /\ threat' = [threat EXCEPT ![x] = IF @.judge THEN [@ EXCEPT !.pc = "judge", !.lent = FALSE] ELSE Quiet]
  /\ lent' = IF threat[x].lent THEN lent - 1 ELSE lent
  /\ UNCHANGED <<hits, failures, tried, cooldown, banned, window, req, arrivals, faults, expiries,
                 admitted, recorded, worst>>

\* INCRBY is not caught: the record ends, and with it the request that awaits
\* it, answered 500.
AddFails(x) ==
  /\ threat[x].pc = "add" /\ faults < MaxFaults
  /\ threat' = [threat EXCEPT ![x] = Quiet]
  /\ IF x[2] = "within" /\ ~threat[x].judge THEN Answer(x[1]) ELSE UNCHANGED req
  /\ faults' = faults + 1
  /\ UNCHANGED <<store, window, arrivals, expiries, ghosts>>

\* checkAndBanIfHighThreat
BanForThreat(x) ==
  /\ threat[x].pc = "judge"
  /\ banned' = (banned \/ score.n >= ThreatThreshold)
  /\ threat' = [threat EXCEPT ![x] = Quiet]
  /\ UNCHANGED <<hits, failures, tried, cooldown, score, window, req, arrivals, faults, expiries, ghosts>>

\* Every other command that fails is caught: nothing is written, a reader takes
\* the key for missing, and the request or the record goes on.
After(r) == CASE req[r].pc = "clear failures" -> Goto(r, "clear tried")
              [] req[r].pc = "clear tried"    -> Goto(r, "clear cooldown")
              [] req[r].pc = "cool down"      -> Goto(r, "pattern")
              [] req[r].pc = "pattern"        -> Goto(r, "ban")
              [] req[r].pc = "ban"            -> Answer(r)
              [] OTHER                        -> Onward(r)

CommandFails(r) ==
  /\ req[r].pc \in {"access", "cooldown", "clear failures", "clear tried", "clear cooldown",
                     "cool down", "pattern", "ban"}
  /\ Resumes(r) /\ faults < MaxFaults
  /\ After(r)
  /\ faults' = faults + 1
  /\ UNCHANGED <<store, window, threat, arrivals, expiries, ghosts>>

JudgeFails(x) ==
  /\ threat[x].pc = "judge" /\ faults < MaxFaults
  /\ threat' = [threat EXCEPT ![x] = Quiet]
  /\ faults' = faults + 1
  /\ UNCHANGED <<store, window, req, arrivals, expiries, ghosts>>

----------------------------------------------------------------------------
\* Keys with a time to live expire.  A counter of a window lives a whole
\* window from its first hit, so never before the window is over.
Expire ==
  /\ expiries < MaxExpiries
  /\ \/ \E l \in Limiters : \E w \in 0 .. window[l] - 1 :
          /\ hits[l][w].key = "timed"
          /\ hits' = [hits EXCEPT ![l][w] = None]
          /\ UNCHANGED <<failures, tried, cooldown, score, banned>>
     \/ failures.key = "timed" /\ failures' = None /\ UNCHANGED <<hits, tried, cooldown, score, banned>>
     \/ tried # {} /\ tried' = {} /\ UNCHANGED <<hits, failures, cooldown, score, banned>>
     \/ cooldown > 0 /\ cooldown' = 0 /\ UNCHANGED <<hits, failures, tried, score, banned>>
     \/ score.key = "timed" /\ score' = None /\ UNCHANGED <<hits, failures, tried, cooldown, banned>>
     \/ banned /\ banned' = FALSE /\ UNCHANGED <<hits, failures, tried, cooldown, score>>
  /\ expiries' = expiries + 1
  /\ UNCHANGED <<window, req, threat, arrivals, faults, ghosts>>

PassWindow(l) ==
  /\ window[l] < MaxWindow
  /\ window' = [window EXCEPT ![l] = @ + 1]
  /\ UNCHANGED <<store, req, threat, arrivals, faults, expiries, ghosts>>

Limit(r) == \E l \in Limiters : CountHit(r, l) \/ TimeHit(r, l) \/ Judge(r, l) \/ LimiterFails(r, l)
Fail(r) == \/ CountFailure(r) \/ TimeFailure(r) \/ CountFails(r) \/ TryKey(r)
           \/ ApplyCooldown(r) \/ DetectPattern(r) \/ BanForFailures(r)
Score(x) == \/ IncrScore(x) \/ TimeScore(x) \/ IncrFails(x) \/ AddScore(x) \/ AddFails(x)
            \/ BanForThreat(x) \/ JudgeFails(x)

GatewayNext ==
  \/ \E r \in Requests :
       \/ \E c \in Clients : Arrive(r, c)
       \/ CheckAccess(r) \/ Filter(r) \/ Limit(r) \/ CheckCooldown(r) \/ CheckKey(r) \/ KeyLookupFails(r)
       \/ Clear(r) \/ Fail(r) \/ CommandFails(r) \/ Handle(r) \/ NotFound(r)
  \/ \E x \in Records : Score(x)
  \/ Expire
  \/ \E l \in Limiters : PassWindow(l)

GatewaySpec == GatewayInit /\ [][GatewayNext]_gatewayVars

----------------------------------------------------------------------------
(* Properties *)

\* Of the requests a limiter counted it lets no more through in the current
\* window than its maximum, however many count at once (incrementWithTTL).  Those
\* that went on uncounted because Redis failed come on top.
AdmittedWithinMax == \A l \in Limiters : admitted[l][window[l]] <= Max[l]

\* A client is banned only when some failure was its MaxAttempts-th, or when the
\* points of its threat records reach the threshold: half-written scores, expired
\* keys and failed commands ban nobody.  The one point too many is that of a
\* threat set to 0 points, which counts between its INCR and its INCRBY of -1,
\* and for good when the INCRBY fails (incrementThreatScore,
\* checkAndBanIfHighThreat, checkAndBan).
BansAreEarned ==
  [][~banned /\ banned' => worst >= MaxAttempts \/ recorded + lent >= ThreatThreshold]_gatewayVars
========================================================================
