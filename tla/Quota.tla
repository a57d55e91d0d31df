-------------------------------- MODULE Quota --------------------------------
(***************************************************************************)
(* src/src/utils/quota.js over the tables of migration 018: quota_usage    *)
(* (the counters used and reserved, one row per owner, channel and period) *)
(* and quota_reservations (one row per notification and channel).  One app *)
(* and one owner: rows of different owners never meet in a statement.      *)
(*                                                                         *)
(* Every operation runs in one database transaction that locks the counter *)
(* rows it changes until it commits, so it is one step here.  A missing    *)
(* counter row is a pair of zeros.  All callers reserve one unit.          *)
(***************************************************************************)
EXTENDS Ledger   \* for the rows (resv), the periods and the abstract specification

VARIABLES
    used,       \* quota_usage.used     by channel and period
    reserved    \* quota_usage.reserved by channel and period

quotaVars == <<period, used, reserved, resv>>

\* The reservations not settled yet.
Held == {s \in Notifs \X Channels : resv[s[1]][s[2]].state = "reserved"}

\* GREATEST(0, x - k)
Minus(x, k) == IF x > k THEN x - k ELSE 0

QuotaInit ==
    /\ period = [c \in Channels |-> 1]
    /\ used = [c \in Channels |-> [p \in Periods |-> 0]]
    /\ reserved = [c \in Channels |-> [p \in Periods |-> 0]]
    /\ resv = [n \in Notifs |-> [c \in Channels |-> NoRow]]

-----------------------------------------------------------------------------
(* Reserve.  The pre-check `units > limit`, then the WHERE of the upsert.   *)

\* Mutant: one unit too many.
BlockedLate(c) == used[c][period[c]] + reserved[c][period[c]] > Limit[c]

Blocked(c) ==
    \/ 1 > Limit[c]
    \/ used[c][period[c]] + reserved[c][period[c]] + 1 > Limit[c]

BlockedOf(chs) == {c \in chs \cap Limited : Blocked(c)}
GrantedOf(chs) == {c \in chs \cap Limited : ~Blocked(c)}

\* One transaction over the channels of a fresh notification id.
ReserveForChannels(n, chs) ==
    /\ \A c \in Channels : resv[n][c] = NoRow
    /\ reserved' = [c \in Channels |->
                      IF c \in GrantedOf(chs)
                      THEN [reserved[c] EXCEPT ![period[c]] = @ + 1]
                      ELSE reserved[c]]
    /\ resv' = [resv EXCEPT ![n] =
                  [c \in Channels |-> IF c \in GrantedOf(chs) THEN Row("reserved", period[c])
                                                              ELSE NoRow]]
    /\ UNCHANGED <<period, used>>

-----------------------------------------------------------------------------
(* Settle.  Only a row still 'reserved' is settled; the counters changed    *)
(* are those of the period recorded in the row.                             *)

\* Mutant: a settled row is settled again.
SettleTwice(n, c, outcome) ==
    LET p == resv[n][c].period
    IN IF resv[n][c] # NoRow
       THEN /\ resv' = [resv EXCEPT ![n][c] = Row(outcome, p)]
            /\ reserved' = [reserved EXCEPT ![c][p] = @ - 1]
            /\ used' = IF outcome = "consumed" THEN [used EXCEPT ![c][p] = @ + 1] ELSE used
            /\ UNCHANGED period
       ELSE UNCHANGED quotaVars

\* Mutant: the counters of the current period, not of the row's.
SettleToday(n, c, outcome) ==
    LET p == period[c]
    IN IF resv[n][c].state = "reserved"
       THEN /\ resv' = [resv EXCEPT ![n][c] = Row(outcome, resv[n][c].period)]
            /\ reserved' = [reserved EXCEPT ![c][p] = Minus(@, 1)]
            /\ used' = IF outcome = "consumed" THEN [used EXCEPT ![c][p] = @ + 1] ELSE used
            /\ UNCHANGED period
       ELSE UNCHANGED quotaVars

SettleOnClient(n, c, outcome) ==
    LET p == resv[n][c].period
    IN IF resv[n][c].state = "reserved"
       THEN /\ resv' = [resv EXCEPT ![n][c] = Row(outcome, p)]
            /\ reserved' = [reserved EXCEPT ![c][p] = Minus(@, 1)]
            /\ used' = IF outcome = "consumed" THEN [used EXCEPT ![c][p] = @ + 1] ELSE used
            /\ UNCHANGED period
       ELSE UNCHANGED quotaVars

-----------------------------------------------------------------------------
(* The stale sweep.  The rows older than the timeout that no other          *)
(* transaction has locked, at most 200 of each kind: some set S of held     *)
(* rows.  Each row decrements the counters of its own channel and period.   *)

Swept(S, c, p) == {n \in Notifs : <<n, c>> \in S /\ resv[n][c].period = p}

ReleaseStaleReservations(S) ==
    /\ S # {}
    /\ S \subseteq Held
    /\ resv' = [n \in Notifs |-> [c \in Channels |->
                  IF <<n, c>> \in S THEN Row("released", resv[n][c].period) ELSE resv[n][c]]]
    /\ reserved' = [c \in Channels |-> [p \in Periods |->
                      Minus(reserved[c][p], Cardinality(Swept(S, c, p)))]]
    /\ UNCHANGED <<period, used>>

\* The clock enters the next day or month of a channel's limit.
NewPeriod(c) ==
    /\ period[c] < MaxPeriod
    /\ period' = [period EXCEPT ![c] = @ + 1]
    /\ UNCHANGED <<used, reserved, resv>>

QuotaNext ==
    \/ \E n \in Notifs, chs \in SUBSET Channels : ReserveForChannels(n, chs)
    \/ \E n \in Notifs, c \in Channels, outcome \in {"consumed", "released"} :
          SettleOnClient(n, c, outcome)
    \/ \E S \in SUBSET (Notifs \X Channels) : ReleaseStaleReservations(S)
    \/ \E c \in Limited : NewPeriod(c)

QuotaSpec == QuotaInit /\ [][QuotaNext]_quotaVars

-----------------------------------------------------------------------------
(* Properties *)

QuotaTypeOK ==
    /\ period \in [Channels -> Periods]
    /\ used \in [Channels -> [Periods -> Nat]]
    /\ reserved \in [Channels -> [Periods -> Nat]]
    /\ resv \in [Notifs -> [Channels -> RowType]]

\* The denormalised counters never drift from the rows: quota_usage.reserved
\* counts the rows still held and quota_usage.used the rows charged, in every
\* period, whatever reserves, settlements, sweeps and period changes happened.
CountersMatchRows ==
    \A c \in Channels, p \in Periods :
        /\ reserved[c][p] = Cardinality(RowsIn("reserved", c, p))
        /\ used[c][p] = Cardinality(RowsIn("consumed", c, p))

\* What is charged and what is held never exceed the limit together, so no
\* order of settlements can push `used` beyond it.
WithinLimit ==
    \A c \in Limited, p \in Periods : used[c][p] + reserved[c][p] <= Limit[c]

\* The counters decide exactly as counting rows would.
ImplementsLedger == LedgerSpec
=============================================================================
