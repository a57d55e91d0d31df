-------------------------------- MODULE DbPool --------------------------------
(***************************************************************************)
(* The database access of one process (src/db/index.js): a connection pool *)
(* that is replaced after network errors, statements that are tried up to  *)
(* three times, and a shutdown that closes the pool while statements and   *)
(* the replacement timer are still under way.                              *)
(*                                                                         *)
(* The server and the network are external: an attempt may be executed or  *)
(* not before it breaks, and the one who asked cannot tell which.          *)
(***************************************************************************)
EXTENDS Naturals, FiniteSets

CONSTANTS Callers,       \* the statements, one per caller
          MaxTries,      \* config.database.maxRetries
          MaxPools,      \* bound: pools ever created
          MaxPoolErrors  \* bound: errors of idle clients

ASSUME DbPoolAssumption == /\ MaxTries \in Nat \ {0}
                           /\ MaxPools \in Nat \ {0}
                           /\ MaxPoolErrors \in Nat

NoPool == 0
CONNECTION == "CONNECTION_ERROR"
TIMEOUT == "TIMEOUT_ERROR"
UNKNOWN == "UNKNOWN_ERROR"
QUERY == "QUERY_ERROR"

\* classifyError: what an attempt may break with.
ErrorTypes == {CONNECTION, TIMEOUT, UNKNOWN, QUERY}

VARIABLES poolClosed,       \* _poolClosed
          pool,             \* _pool: the number of the current pool, or NoPool
          created,          \* how many pools were created
          openPools,        \* the pools whose end() has not finished
          recreationTimer,  \* _recreationTimer is set
          calls,            \* what each caller's statement is at
          poolErrors        \* errors of idle clients so far

poolVars == <<poolClosed, pool, created, openPools, recreationTimer, calls, poolErrors>>

NoCall == [at |-> "idle", attempt |-> 0, on |-> NoPool, error |-> "none",
         executed |-> 0, lost |-> 0]

PoolInit ==
    /\ poolClosed = FALSE
    /\ pool = NoPool
    /\ created = 0
    /\ openPools = {}
    /\ recreationTimer = FALSE
    /\ calls = [c \in Callers |-> NoCall]
    /\ poolErrors = 0

-----------------------------------------------------------------------------

\* isRetryable
Retryable(type) == type \in {CONNECTION, TIMEOUT, UNKNOWN}

\* createPool
CreatePool == /\ created < MaxPools
              /\ created' = created + 1
              /\ pool' = created + 1
              /\ openPools' = openPools \cup {created + 1}

\* getDb and getCurrentPool: the current pool, created when there is none.
EnsurePool == IF pool = NoPool THEN CreatePool ELSE UNCHANGED <<pool, created, openPools>>

\* schedulePoolRecreation: one timer collects all errors of two seconds.
SchedulePoolRecreation == recreationTimer' = TRUE

\* Where a statement stands, keeping what is known of its earlier attempts.
At(c, where) == calls' = [calls EXCEPT ![c].at = where]

\* A caller asks for the client and issues its first attempt in one go.
CallDb(c) ==
    /\ calls[c].at = "idle"
    /\ ~poolClosed
    /\ EnsurePool
    /\ calls' = [calls EXCEPT ![c].at = "sent", ![c].attempt = 1, ![c].on = pool']
    /\ UNCHANGED <<poolClosed, recreationTimer, poolErrors>>

\* getDb throws PoolClosedError once the process is shutting down.
CallRefused(c) ==
    /\ calls[c].at = "idle"
    /\ poolClosed
    /\ At(c, "refused")
    /\ UNCHANGED <<poolClosed, pool, created, openPools, recreationTimer, poolErrors>>

\* The server executes the statement of an attempt.
Execute(c) ==
    /\ calls[c].at = "sent"
    /\ calls' = [calls EXCEPT ![c].at = "executed", ![c].executed = @ + 1]
    /\ UNCHANGED <<poolClosed, pool, created, openPools, recreationTimer, poolErrors>>

\* The answer arrives.
AnswerArrives(c) ==
    /\ calls[c].at = "executed"
    /\ At(c, "done")
    /\ UNCHANGED <<poolClosed, pool, created, openPools, recreationTimer, poolErrors>>

\* An attempt breaks, before or after the server executed it: it sleeps before
\* the next one, or the caller gets a DbError.
Break(c, type) ==
    /\ \/ calls[c].at = "sent"
       \/ calls[c].at = "executed" /\ type # QUERY
    /\ LET again == Retryable(type) /\ calls[c].attempt < MaxTries
       IN calls' = [calls EXCEPT ![c].at = IF again THEN "sleeping" ELSE "failed",
                                 ![c].error = type,
                                 ![c].lost = IF calls[c].at = "executed" THEN @ + 1 ELSE @]
    /\ UNCHANGED <<poolClosed, pool, created, openPools, recreationTimer, poolErrors>>

\* The backoff ends: the pool is to be replaced after a network error, and the
\* statement is tried again on whatever pool is current now, unless the pool was
\* closed meanwhile: that ends the retries.
Wake(c) ==
    /\ calls[c].at = "sleeping"
    /\ recreationTimer' = (recreationTimer \/ calls[c].error \in {CONNECTION, TIMEOUT})
    /\ \/ /\ poolClosed
          /\ At(c, "refused")
          /\ UNCHANGED <<pool, created, openPools>>
       \/ /\ ~poolClosed
          /\ EnsurePool
          /\ calls' = [calls EXCEPT ![c].at = "sent", ![c].attempt = @ + 1,
                                    ![c].on = pool']
    /\ UNCHANGED <<poolClosed, poolErrors>>

\* pool.on("error"): an idle client of any open pool breaks.
PoolError ==
    /\ openPools # {}
    /\ poolErrors < MaxPoolErrors
    /\ poolErrors' = poolErrors + 1
    /\ IF poolClosed THEN UNCHANGED recreationTimer ELSE SchedulePoolRecreation
    /\ UNCHANGED <<poolClosed, pool, created, openPools, calls>>

RecreatePoolAnyway ==
    /\ recreationTimer
    /\ recreationTimer' = FALSE
    /\ CreatePool
    /\ UNCHANGED <<poolClosed, calls, poolErrors>>

\* The timer of schedulePoolRecreation: a new pool takes the old one's place.
RecreatePool ==
    /\ recreationTimer
    /\ recreationTimer' = FALSE
    /\ IF poolClosed THEN UNCHANGED <<pool, created, openPools>> ELSE CreatePool
    /\ UNCHANGED <<poolClosed, calls, poolErrors>>

\* end() of a pool that was replaced, or that closePool waits for, finishes once
\* no attempt holds one of its clients. (The caps of 5 and 8 seconds end the
\* wait for it, not the pool.)
Drain(p) ==
    /\ p \in openPools
    /\ p # pool
    /\ \A c \in Callers : calls[c].on = p => calls[c].at \notin {"sent", "executed"}
    /\ openPools' = openPools \ {p}
    /\ UNCHANGED <<poolClosed, pool, created, recreationTimer, calls, poolErrors>>

\* closePool: the flag first, then the timer, then the pool.
ClosePool ==
    /\ ~poolClosed
    /\ poolClosed' = TRUE
    /\ recreationTimer' = FALSE
    /\ pool' = NoPool
    /\ UNCHANGED <<created, openPools, calls, poolErrors>>

PoolNext ==
    \/ \E c \in Callers : \/ CallDb(c)
                          \/ CallRefused(c)
                          \/ Execute(c)
                          \/ AnswerArrives(c)
                          \/ \E type \in ErrorTypes : Break(c, type)
                          \/ Wake(c)
    \/ PoolError
    \/ RecreatePool
    \/ \E p \in 1..MaxPools : Drain(p)
    \/ ClosePool

PoolSpec == PoolInit /\ [][PoolNext]_poolVars

-----------------------------------------------------------------------------

\* The values the variables take (src/db/index.js, "State").
DbPoolTypeOK ==
    /\ poolClosed \in BOOLEAN
    /\ pool \in 0..MaxPools
    /\ created \in 0..MaxPools
    /\ openPools \subseteq 1..MaxPools
    /\ recreationTimer \in BOOLEAN
    /\ poolErrors \in 0..MaxPoolErrors
    /\ calls \in [Callers -> [at : {"idle", "sent", "executed", "sleeping",
                                    "done", "failed", "refused"},
                              attempt : 0..MaxTries, on : 0..MaxPools,
                              error : ErrorTypes \cup {"none"},
                              executed : 0..MaxTries, lost : 0..MaxTries]]

\* Once closePool has run no pool is current and none is ever created again,
\* whatever timers and sleeping statements were left behind: what the comment of
\* closePool calls a zombie pool (src/db/index.js:11-15, 469-473).
ShutdownIsFinal ==
    [][poolClosed => pool' = NoPool /\ created' = created /\ poolClosed']_poolVars

\* A statement that is not idempotent may be executed more than once only after
\* as many executions whose answer the process lost; one it reports as done or
\* refused before a loss was executed at most once (executeWithRetry).
RerunsFollowLostAnswers ==
    \A c \in Callers :
        /\ calls[c].executed <= calls[c].lost + 1
        /\ calls[c].at \in {"failed", "refused", "sleeping"} =>
               calls[c].executed = calls[c].lost
        /\ calls[c].at = "done" => calls[c].executed = calls[c].lost + 1

\* An attempt runs on a pool that is still open: replacing the pool under a
\* statement lets the statement finish, and the next attempt asks for the pool
\* anew instead of keeping the old one (createSqlClient, getCurrentPool).
AttemptsRunOnOpenPools ==
    \A c \in Callers : calls[c].at \in {"sent", "executed"} => calls[c].on \in openPools
=============================================================================
