------------------------------- MODULE Ledger -------------------------------
(***************************************************************************)
(* What quota accounting promises, without its counters: the table         *)
(* quota_reservations alone.  A unit of a limited channel is admitted only *)
(* while the rows held or charged for that channel in its current period   *)
(* number fewer than the limit, and a row is settled at most once.  Quota  *)
(* keeps the two denormalised counters of quota_usage instead of counting  *)
(* rows, and is shown to implement this module.                            *)
(***************************************************************************)
EXTENDS Integers, FiniteSets

CONSTANTS
    Notifs,     \* notification ids
    Channels,   \* delivery channels
    Limited,    \* the channels for which a limit resolves
    Limit,      \* limit_count of each limited channel
    MaxPeriod   \* bound: quota periods 1..MaxPeriod

ASSUME LedgerAssumption ==
    /\ Limited \subseteq Channels
    /\ Limit \in [Limited -> Nat]
    /\ MaxPeriod \in Nat \ {0}

VARIABLES
    period,     \* the current period of each channel's limit
    resv        \* the reservation row of each notification and channel

ledgerVars == <<period, resv>>

Periods == 1 .. MaxPeriod
NoRow == [state |-> "none", period |-> 0]
Row(state, p) == [state |-> state, period |-> p]
RowType == {NoRow} \cup [state : {"reserved", "consumed", "released"}, period : Periods]

\* The notifications whose row for channel c and period p is in that state.
RowsIn(state, c, p) == {n \in Notifs : resv[n][c] = Row(state, p)}

\* The units of channel c in period p that are held or charged.
Load(c, p) == Cardinality(RowsIn("reserved", c, p)) + Cardinality(RowsIn("consumed", c, p))

LedgerInit ==
    /\ period = [c \in Channels |-> 1]
    /\ resv = [n \in Notifs |-> [c \in Channels |-> NoRow]]

\* A fresh notification is granted one unit of each channel of `granted`.
Admit(n, granted) ==
    /\ \A c \in Channels : resv[n][c] = NoRow
    /\ \A c \in granted : Load(c, period[c]) < Limit[c]
    /\ resv' = [resv EXCEPT ![n] =
                  [c \in Channels |-> IF c \in granted THEN Row("reserved", period[c])
                                                       ELSE NoRow]]
    /\ UNCHANGED period

\* A held unit is charged, in the period it was reserved in.
Charge(n, c) ==
    /\ resv[n][c].state = "reserved"
    /\ resv' = [resv EXCEPT ![n][c].state = "consumed"]
    /\ UNCHANGED period

\* Some held units are given back.
GiveBack(S) ==
    /\ \A s \in S : resv[s[1]][s[2]].state = "reserved"
    /\ resv' = [n \in Notifs |-> [c \in Channels |->
                  IF <<n, c>> \in S THEN [resv[n][c] EXCEPT !.state = "released"]
                                    ELSE resv[n][c]]]
    /\ UNCHANGED period

Turn(c) ==
    /\ period[c] < MaxPeriod
    /\ period' = [period EXCEPT ![c] = @ + 1]
    /\ UNCHANGED resv

LedgerNext ==
    \/ \E n \in Notifs, granted \in SUBSET Limited : Admit(n, granted)
    \/ \E n \in Notifs, c \in Channels : Charge(n, c)
    \/ \E S \in SUBSET (Notifs \X Channels) : GiveBack(S)
    \/ \E c \in Channels : Turn(c)

LedgerSpec == LedgerInit /\ [][LedgerNext]_ledgerVars
=============================================================================
