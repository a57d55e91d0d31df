---------------------------- MODULE Quota_proofs ----------------------------
(***************************************************************************)
(* For any sets of notifications and channels, any limits and any number   *)
(* of periods: the counters of quota_usage always equal the rows they      *)
(* stand for, they never exceed the limit, and the module implements       *)
(* Ledger.  The strengthening of CountersMatchRows says that each set of   *)
(* rows counted is finite, which lets the cardinalities be computed.       *)
(***************************************************************************)
EXTENDS Quota, FiniteSetTheorems, TLAPS

FiniteRows ==
    \A c \in Channels, p \in Periods :
        /\ IsFiniteSet(RowsIn("reserved", c, p))
        /\ IsFiniteSet(RowsIn("consumed", c, p))

QuotaInv == QuotaTypeOK /\ FiniteRows /\ CountersMatchRows /\ WithinLimit

-----------------------------------------------------------------------------
(* Cardinalities of the rows after one operation *)

\* Removing part of a finite set subtracts its size.
LEMMA RemoveSubset ==
    ASSUME NEW A, IsFiniteSet(A), NEW B \in SUBSET A
    PROVE  /\ IsFiniteSet(A \ B)
           /\ IsFiniteSet(B)
           /\ Cardinality(A \ B) = Cardinality(A) - Cardinality(B)
           /\ Cardinality(B) \in Nat
           /\ Cardinality(A) \in Nat
           /\ Cardinality(B) <= Cardinality(A)
<1>1. /\ IsFiniteSet(B)
      /\ IsFiniteSet(A \ B)
      /\ Cardinality(B) <= Cardinality(A)
  BY FS_Subset
<1>2. Cardinality((A \ B) \cup B) =
        Cardinality(A \ B) + Cardinality(B) - Cardinality((A \ B) \cap B)
  BY <1>1, FS_Union
<1>3. (A \ B) \cup B = A /\ (A \ B) \cap B = {}
  OBVIOUS
<1>4. /\ Cardinality(A) \in Nat
      /\ Cardinality(B) \in Nat
      /\ Cardinality(A \ B) \in Nat
      /\ Cardinality({}) = 0
  BY <1>1, FS_CardinalityType, FS_EmptySet
<1>5. Cardinality(A) = Cardinality(A \ B) + Cardinality(B) - Cardinality({})
  BY <1>2, <1>3, Zenon
<1>6. Cardinality(A \ B) = Cardinality(A) - Cardinality(B)
  BY <1>4, <1>5
<1>7. QED
  BY <1>1, <1>4, <1>6

\* The counted rows and the counters under the type invariant.
LEMMA RowsAreCounted ==
    ASSUME QuotaInv, NEW c \in Channels, NEW p \in Periods
    PROVE  /\ Cardinality(RowsIn("reserved", c, p)) \in Nat
           /\ Cardinality(RowsIn("consumed", c, p)) \in Nat
           /\ reserved[c][p] = Cardinality(RowsIn("reserved", c, p))
           /\ used[c][p] = Cardinality(RowsIn("consumed", c, p))
  BY FS_CardinalityType DEF QuotaInv, FiniteRows, CountersMatchRows

-----------------------------------------------------------------------------
(* Initial state *)

LEMMA InitInv == QuotaInit => QuotaInv
<1> SUFFICES ASSUME QuotaInit PROVE QuotaInv
  OBVIOUS
<1> USE LedgerAssumption
<1>1. 1 \in Periods
  BY DEF Periods
<1>2. QuotaTypeOK
  BY <1>1 DEF QuotaInit, QuotaTypeOK, RowType, NoRow
<1>3. ASSUME NEW c \in Channels, NEW p \in Periods
      PROVE  RowsIn("reserved", c, p) = {} /\ RowsIn("consumed", c, p) = {}
  BY <1>3 DEF QuotaInit, RowsIn, Row, NoRow
<1>4. FiniteRows
  BY <1>3, FS_EmptySet DEF FiniteRows
<1>5. CountersMatchRows
  BY <1>3, FS_EmptySet DEF CountersMatchRows, QuotaInit
<1>6. WithinLimit
  BY DEF WithinLimit, QuotaInit
<1>7. QED
  BY <1>2, <1>4, <1>5, <1>6 DEF QuotaInv

-----------------------------------------------------------------------------
(* Each operation preserves the invariant *)

\* A step that leaves quota alone.
LEMMA StutterInv ==
    ASSUME QuotaInv, UNCHANGED quotaVars
    PROVE  QuotaInv'
<1>1. period' = period /\ used' = used /\ reserved' = reserved /\ resv' = resv
  BY DEF quotaVars
<1>2. \A s, c, p : RowsIn(s, c, p)' = RowsIn(s, c, p)
  BY <1>1 DEF RowsIn
<1>3. QuotaTypeOK'
  BY <1>1 DEF QuotaInv, QuotaTypeOK
<1>4. FiniteRows' /\ CountersMatchRows'
  BY <1>1, <1>2, Zenon DEF QuotaInv, FiniteRows, CountersMatchRows
<1>5. WithinLimit'
  BY <1>1 DEF QuotaInv, WithinLimit
<1>6. QED
  BY <1>3, <1>4, <1>5 DEF QuotaInv

\* A reservation adds the fresh notification to the held rows of the channels
\* that had room, and the upsert's WHERE keeps their sum within the limit.
LEMMA ReserveInv ==
    ASSUME QuotaInv, NEW n \in Notifs, NEW chs \in SUBSET Channels,
           ReserveForChannels(n, chs)
    PROVE  QuotaInv'
<1> USE LedgerAssumption
<1>1. QuotaTypeOK'
  <2>1. reserved' \in [Channels -> [Periods -> Nat]]
    BY DEF QuotaInv, QuotaTypeOK, ReserveForChannels, GrantedOf
  <2>2. resv' \in [Notifs -> [Channels -> RowType]]
    <3>1. \A c \in Channels : Row("reserved", period[c]) \in RowType
      BY DEF QuotaInv, QuotaTypeOK, Row, RowType
    <3>2. NoRow \in RowType
      BY DEF RowType
    <3> HIDE DEF RowType, Row, NoRow
    <3>3. QED
      BY <3>1, <3>2 DEF QuotaInv, QuotaTypeOK, ReserveForChannels
  <2>3. QED
    BY <2>1, <2>2 DEF QuotaInv, QuotaTypeOK, ReserveForChannels
<1>2. ASSUME NEW c \in Channels, NEW p \in Periods
      PROVE  /\ n \notin RowsIn("reserved", c, p)
             /\ RowsIn("consumed", c, p)' = RowsIn("consumed", c, p)
             /\ RowsIn("reserved", c, p)' =
                   IF c \in GrantedOf(chs) /\ p = period[c]
                   THEN RowsIn("reserved", c, p) \cup {n}
                   ELSE RowsIn("reserved", c, p)
  <2>1. \A m \in Notifs : resv'[m][c] = IF m # n THEN resv[m][c]
                                        ELSE IF c \in GrantedOf(chs) THEN Row("reserved", period[c])
                                        ELSE NoRow
    BY <1>2 DEF QuotaInv, QuotaTypeOK, ReserveForChannels
  <2>2. resv[n][c] = NoRow
    BY <1>2 DEF ReserveForChannels
  <2>3. /\ NoRow # Row("reserved", p)
        /\ NoRow # Row("consumed", p)
        /\ Row("reserved", period[c]) # Row("consumed", p)
        /\ Row("reserved", period[c]) = Row("reserved", p) <=> p = period[c]
    BY DEF NoRow, Row
  <2> HIDE DEF NoRow, Row, GrantedOf
  <2>4. QED
    BY <2>1, <2>2, <2>3 DEF RowsIn
<1>3. ASSUME NEW c \in Channels, NEW p \in Periods
      PROVE  /\ used'[c][p] = used[c][p]
             /\ reserved'[c][p] = IF c \in GrantedOf(chs) /\ p = period[c]
                                   THEN reserved[c][p] + 1 ELSE reserved[c][p]
  BY <1>3 DEF QuotaInv, QuotaTypeOK, ReserveForChannels
<1>4. FiniteRows'
  <2> SUFFICES ASSUME NEW c \in Channels, NEW p \in Periods
               PROVE  /\ IsFiniteSet(RowsIn("reserved", c, p)')
                      /\ IsFiniteSet(RowsIn("consumed", c, p)')
    BY DEF FiniteRows
  <2>1. IsFiniteSet(RowsIn("reserved", c, p)) /\ IsFiniteSet(RowsIn("consumed", c, p))
    BY DEF QuotaInv, FiniteRows
  <2>2. IsFiniteSet(RowsIn("reserved", c, p) \cup {n})
    BY <2>1, FS_AddElement
  <2>3. QED
    BY <1>2, <2>1, <2>2, Zenon
<1>5. CountersMatchRows'
  <2> SUFFICES ASSUME NEW c \in Channels, NEW p \in Periods
               PROVE  /\ reserved'[c][p] = Cardinality(RowsIn("reserved", c, p)')
                      /\ used'[c][p] = Cardinality(RowsIn("consumed", c, p)')
    BY DEF CountersMatchRows
  <2>1. IsFiniteSet(RowsIn("reserved", c, p))
    BY DEF QuotaInv, FiniteRows
  <2>2. Cardinality(RowsIn("reserved", c, p) \cup {n}) = Cardinality(RowsIn("reserved", c, p)) + 1
    BY <1>2, <2>1, FS_AddElement
  <2>3. /\ reserved[c][p] = Cardinality(RowsIn("reserved", c, p))
        /\ used[c][p] = Cardinality(RowsIn("consumed", c, p))
    BY RowsAreCounted
  <2>4. CASE c \in GrantedOf(chs) /\ p = period[c]
    BY <1>2, <1>3, <2>2, <2>3, <2>4, Zenon
  <2>5. CASE ~(c \in GrantedOf(chs) /\ p = period[c])
    BY <1>2, <1>3, <2>3, <2>5, Zenon
  <2>6. QED
    BY <2>4, <2>5
<1>6. WithinLimit'
  <2> SUFFICES ASSUME NEW c \in Limited, NEW p \in Periods
               PROVE  used'[c][p] + reserved'[c][p] <= Limit[c]
    BY DEF WithinLimit
  <2>1. /\ used[c][p] \in Nat /\ reserved[c][p] \in Nat /\ Limit[c] \in Nat
        /\ used[c][p] + reserved[c][p] <= Limit[c]
    BY DEF QuotaInv, QuotaTypeOK, WithinLimit
  <2>2. CASE c \in GrantedOf(chs) /\ p = period[c]
    <3>1. used[c][p] + reserved[c][p] + 1 <= Limit[c]
      BY <2>1, <2>2 DEF GrantedOf, Blocked
    <3>2. QED
      BY <1>3, <2>1, <2>2, <3>1
  <2>3. CASE ~(c \in GrantedOf(chs) /\ p = period[c])
    BY <1>3, <2>1, <2>3
  <2>4. QED
    BY <2>2, <2>3
<1>7. QED
  BY <1>1, <1>4, <1>5, <1>6 DEF QuotaInv

\* A settlement moves one held row out of the held set and, if charged, into
\* the charged set.  GREATEST never truncates: the row is counted.
LEMMA SettleInv ==
    ASSUME QuotaInv, NEW n \in Notifs, NEW c \in Channels,
           NEW outcome \in {"consumed", "released"},
           SettleOnClient(n, c, outcome)
    PROVE  QuotaInv'
<1> USE LedgerAssumption
<1>1. CASE resv[n][c].state # "reserved"
  <2>1. UNCHANGED quotaVars
    BY <1>1 DEF SettleOnClient
  <2>2. QED
    BY <2>1, StutterInv
<1>2. CASE resv[n][c].state = "reserved"
  <2> DEFINE q == resv[n][c].period
  <2>1. q \in Periods /\ resv[n][c] = Row("reserved", q)
    BY <1>2 DEF QuotaInv, QuotaTypeOK, RowType, NoRow, Row
  <2>2. /\ resv' = [resv EXCEPT ![n][c] = Row(outcome, q)]
        /\ reserved' = [reserved EXCEPT ![c][q] = Minus(@, 1)]
        /\ used' = IF outcome = "consumed" THEN [used EXCEPT ![c][q] = @ + 1] ELSE used
        /\ period' = period
    BY <1>2 DEF SettleOnClient
  <2> HIDE DEF q
  <2>3. ASSUME NEW d \in Channels, NEW p \in Periods
        PROVE  /\ RowsIn("reserved", d, p)' = IF d = c /\ p = q THEN RowsIn("reserved", d, p) \ {n}
                                                              ELSE RowsIn("reserved", d, p)
               /\ RowsIn("consumed", d, p)' = IF d = c /\ p = q /\ outcome = "consumed"
                                            THEN RowsIn("consumed", d, p) \cup {n}
                                            ELSE RowsIn("consumed", d, p)
               /\ d = c /\ p = q => n \in RowsIn("reserved", d, p) /\ n \notin RowsIn("consumed", d, p)
    <3>1. \A m \in Notifs : resv'[m][d] = IF m = n /\ d = c THEN Row(outcome, q) ELSE resv[m][d]
      BY <2>2, <2>3 DEF QuotaInv, QuotaTypeOK
    <3>2. /\ Row("reserved", q) # Row("consumed", p)
          /\ Row(outcome, q) # Row("reserved", p)
          /\ Row("reserved", q) = Row("reserved", p) <=> p = q
          /\ Row(outcome, q) = Row("consumed", p) <=> p = q /\ outcome = "consumed"
      BY DEF Row
    <3> HIDE DEF Row
    <3>3. QED
      BY <2>1, <3>1, <3>2 DEF RowsIn
  <2>4. ASSUME NEW d \in Channels, NEW p \in Periods
        PROVE  /\ IsFiniteSet(RowsIn("reserved", d, p) \ {n})
               /\ IsFiniteSet(RowsIn("consumed", d, p) \cup {n})
               /\ n \in RowsIn("reserved", d, p) =>
                     Cardinality(RowsIn("reserved", d, p) \ {n}) = Cardinality(RowsIn("reserved", d, p)) - 1
               /\ n \notin RowsIn("consumed", d, p) =>
                     Cardinality(RowsIn("consumed", d, p) \cup {n}) = Cardinality(RowsIn("consumed", d, p)) + 1
    <3>1. IsFiniteSet(RowsIn("reserved", d, p)) /\ IsFiniteSet(RowsIn("consumed", d, p))
      BY DEF QuotaInv, FiniteRows
    <3>2. QED
      BY <3>1, FS_AddElement, FS_RemoveElement
  <2>5. reserved[c][q] \in Nat /\ reserved[c][q] >= 1
    <3>1. /\ Cardinality(RowsIn("reserved", c, q)) \in Nat
          /\ reserved[c][q] = Cardinality(RowsIn("reserved", c, q))
      BY <2>1, RowsAreCounted
    <3>2. IsFiniteSet(RowsIn("reserved", c, q)) /\ RowsIn("reserved", c, q) # {}
      BY <2>1, <2>3 DEF QuotaInv, FiniteRows
    <3>3. Cardinality(RowsIn("reserved", c, q)) # 0
      BY <3>2, FS_EmptySet
    <3>4. QED
      BY <3>1, <3>3
  <2>6. ASSUME NEW d \in Channels, NEW p \in Periods
        PROVE  /\ reserved'[d][p] = IF d = c /\ p = q THEN reserved[d][p] - 1 ELSE reserved[d][p]
               /\ used'[d][p] = IF d = c /\ p = q /\ outcome = "consumed"
                                 THEN used[d][p] + 1 ELSE used[d][p]
    BY <2>1, <2>2, <2>5 DEF QuotaInv, QuotaTypeOK, Minus
  <2>7. QuotaTypeOK'
    <3>1. Row(outcome, q) \in RowType
      BY <2>1 DEF Row, RowType
    <3>2. resv' \in [Notifs -> [Channels -> RowType]]
      BY <2>2, <3>1 DEF QuotaInv, QuotaTypeOK
    <3>3. Minus(reserved[c][q], 1) \in Nat
      BY <2>5 DEF Minus
    <3>4. reserved' \in [Channels -> [Periods -> Nat]]
      BY <2>1, <2>2, <3>3 DEF QuotaInv, QuotaTypeOK
    <3>5. used' \in [Channels -> [Periods -> Nat]]
      BY <2>1, <2>2 DEF QuotaInv, QuotaTypeOK
    <3>6. QED
      BY <2>2, <3>2, <3>4, <3>5 DEF QuotaInv, QuotaTypeOK
  <2>8. FiniteRows'
    <3> SUFFICES ASSUME NEW d \in Channels, NEW p \in Periods
                 PROVE  /\ IsFiniteSet(RowsIn("reserved", d, p)')
                        /\ IsFiniteSet(RowsIn("consumed", d, p)')
      BY DEF FiniteRows
    <3>1. IsFiniteSet(RowsIn("reserved", d, p)) /\ IsFiniteSet(RowsIn("consumed", d, p))
      BY DEF QuotaInv, FiniteRows
    <3>2. QED
      BY <2>3, <2>4, <3>1, Zenon
  <2>9. CountersMatchRows'
    <3> SUFFICES ASSUME NEW d \in Channels, NEW p \in Periods
                 PROVE  /\ reserved'[d][p] = Cardinality(RowsIn("reserved", d, p)')
                        /\ used'[d][p] = Cardinality(RowsIn("consumed", d, p)')
      BY DEF CountersMatchRows
    <3>1. /\ reserved[d][p] = Cardinality(RowsIn("reserved", d, p))
          /\ used[d][p] = Cardinality(RowsIn("consumed", d, p))
      BY RowsAreCounted
    <3>2. CASE d = c /\ p = q
      <4>1. reserved'[d][p] = Cardinality(RowsIn("reserved", d, p)')
        <5>1. RowsIn("reserved", d, p)' = RowsIn("reserved", d, p) \ {n}
              /\ n \in RowsIn("reserved", d, p)
          BY <2>3, <3>2, Zenon
        <5>2. Cardinality(RowsIn("reserved", d, p)') = Cardinality(RowsIn("reserved", d, p)) - 1
          BY <2>4, <5>1, Zenon
        <5>3. reserved'[d][p] = reserved[d][p] - 1
          BY <2>6, <3>2, Zenon
        <5>4. QED
          BY <3>1, <5>2, <5>3, Zenon
      <4>2. CASE outcome = "consumed"
        <5>1. RowsIn("consumed", d, p)' = RowsIn("consumed", d, p) \cup {n}
              /\ n \notin RowsIn("consumed", d, p)
          BY <2>3, <3>2, <4>2, Zenon
        <5>2. Cardinality(RowsIn("consumed", d, p)') = Cardinality(RowsIn("consumed", d, p)) + 1
          BY <2>4, <5>1, Zenon
        <5>3. used'[d][p] = used[d][p] + 1
          BY <2>6, <3>2, <4>2, Zenon
        <5>4. QED
          BY <3>1, <4>1, <5>2, <5>3, Zenon
      <4>3. CASE outcome # "consumed"
        <5>1. RowsIn("consumed", d, p)' = RowsIn("consumed", d, p) /\ used'[d][p] = used[d][p]
          BY <2>3, <2>6, <4>3, Zenon
        <5>2. QED
          BY <3>1, <4>1, <5>1, Zenon
      <4>4. QED
        BY <4>2, <4>3
    <3>3. CASE ~(d = c /\ p = q)
      BY <2>3, <2>6, <3>1, <3>3, Zenon
    <3>4. QED
      BY <3>2, <3>3
  <2>10. WithinLimit'
    <3> SUFFICES ASSUME NEW d \in Limited, NEW p \in Periods
                 PROVE  used'[d][p] + reserved'[d][p] <= Limit[d]
      BY DEF WithinLimit
    <3>1. /\ used[d][p] \in Nat /\ reserved[d][p] \in Nat /\ Limit[d] \in Nat
          /\ used[d][p] + reserved[d][p] <= Limit[d]
      BY DEF QuotaInv, QuotaTypeOK, WithinLimit
    <3>2. QED
      BY <2>6, <3>1
  <2>11. QED
    BY <2>7, <2>8, <2>9, <2>10 DEF QuotaInv
<1>3. QED
  BY <1>1, <1>2

\* The sweep takes the rows of S out of the held sets, counter by counter.
LEMMA ReleaseInv ==
    ASSUME QuotaInv, NEW S \in SUBSET (Notifs \X Channels), ReleaseStaleReservations(S)
    PROVE  QuotaInv'
<1> USE LedgerAssumption
<1>1. \A n \in Notifs, c \in Channels :
         <<n, c>> \in S => /\ resv[n][c].period \in Periods
                           /\ resv[n][c] = Row("reserved", resv[n][c].period)
  <2>1. ASSUME NEW n \in Notifs, NEW c \in Channels, <<n, c>> \in S
        PROVE  resv[n][c].state = "reserved" /\ resv[n][c] \in RowType
    BY <2>1 DEF QuotaInv, QuotaTypeOK, ReleaseStaleReservations, Held
  <2>2. QED
    BY <2>1 DEF RowType, NoRow, Row
<1>2. ASSUME NEW c \in Channels, NEW p \in Periods
      PROVE  /\ Swept(S, c, p) \subseteq RowsIn("reserved", c, p)
             /\ RowsIn("reserved", c, p)' = RowsIn("reserved", c, p) \ Swept(S, c, p)
             /\ RowsIn("consumed", c, p)' = RowsIn("consumed", c, p)
  <2>1. \A m \in Notifs : resv'[m][c] = IF <<m, c>> \in S THEN Row("released", resv[m][c].period)
                                        ELSE resv[m][c]
    BY <1>2 DEF ReleaseStaleReservations
  <2>2. \A m \in Notifs : <<m, c>> \in S =>
           /\ resv[m][c] = Row("reserved", p) <=> resv[m][c].period = p
           /\ resv[m][c] # Row("consumed", p)
           /\ Row("released", resv[m][c].period) # Row("reserved", p)
           /\ Row("released", resv[m][c].period) # Row("consumed", p)
    BY <1>1, <1>2 DEF Row
  <2> HIDE DEF Row
  <2>3. QED
    BY <2>1, <2>2 DEF RowsIn, Swept
<1>3. ASSUME NEW c \in Channels, NEW p \in Periods
      PROVE  /\ IsFiniteSet(RowsIn("reserved", c, p)')
             /\ IsFiniteSet(RowsIn("consumed", c, p)')
             /\ Cardinality(RowsIn("reserved", c, p)') =
                  Cardinality(RowsIn("reserved", c, p)) - Cardinality(Swept(S, c, p))
             /\ Cardinality(RowsIn("consumed", c, p)') = Cardinality(RowsIn("consumed", c, p))
             /\ Cardinality(Swept(S, c, p)) \in Nat
             /\ Cardinality(Swept(S, c, p)) <= Cardinality(RowsIn("reserved", c, p))
  <2>1. IsFiniteSet(RowsIn("reserved", c, p)) /\ IsFiniteSet(RowsIn("consumed", c, p))
    BY DEF QuotaInv, FiniteRows
  <2>2. /\ IsFiniteSet(RowsIn("reserved", c, p) \ Swept(S, c, p))
        /\ Cardinality(RowsIn("reserved", c, p) \ Swept(S, c, p)) =
             Cardinality(RowsIn("reserved", c, p)) - Cardinality(Swept(S, c, p))
        /\ Cardinality(Swept(S, c, p)) \in Nat
        /\ Cardinality(Swept(S, c, p)) <= Cardinality(RowsIn("reserved", c, p))
    BY <1>2, <2>1, RemoveSubset
  <2>3. QED
    BY <1>2, <2>1, <2>2, Zenon
<1>4. ASSUME NEW c \in Channels, NEW p \in Periods
      PROVE  /\ reserved'[c][p] = Cardinality(RowsIn("reserved", c, p)')
             /\ reserved'[c][p] \in Nat
             /\ reserved'[c][p] <= reserved[c][p]
             /\ used'[c][p] = used[c][p]
             /\ used'[c][p] = Cardinality(RowsIn("consumed", c, p)')
  <2>1. reserved'[c][p] = Minus(reserved[c][p], Cardinality(Swept(S, c, p))) /\ used' = used
    BY <1>4 DEF ReleaseStaleReservations
  <2>2. /\ reserved[c][p] = Cardinality(RowsIn("reserved", c, p))
        /\ Cardinality(RowsIn("reserved", c, p)) \in Nat
        /\ used[c][p] = Cardinality(RowsIn("consumed", c, p))
    BY RowsAreCounted
  <2>3. reserved'[c][p] = reserved[c][p] - Cardinality(Swept(S, c, p))
    BY <1>3, <2>1, <2>2 DEF Minus
  <2>4. used'[c][p] = Cardinality(RowsIn("consumed", c, p)')
    BY <1>3, <2>1, <2>2, Zenon
  <2>5. reserved'[c][p] = Cardinality(RowsIn("reserved", c, p)')
    BY <1>3, <2>2, <2>3, Zenon
  <2>6. QED
    BY <1>3, <2>1, <2>2, <2>3, <2>4, <2>5
<1>5. QuotaTypeOK'
  <2>1. resv' \in [Notifs -> [Channels -> RowType]]
    <3>1. \A n \in Notifs, c \in Channels :
             <<n, c>> \in S => Row("released", resv[n][c].period) \in RowType
      BY <1>1 DEF Row, RowType
    <3> HIDE DEF Row, RowType
    <3>2. QED
      BY <3>1 DEF QuotaInv, QuotaTypeOK, ReleaseStaleReservations
  <2>2. reserved' \in [Channels -> [Periods -> Nat]]
    <3>1. reserved' = [c \in Channels |-> [p \in Periods |->
                         Minus(reserved[c][p], Cardinality(Swept(S, c, p)))]]
      BY DEF ReleaseStaleReservations
    <3>2. \A c \in Channels, p \in Periods :
             Minus(reserved[c][p], Cardinality(Swept(S, c, p))) \in Nat
      BY <1>4, <3>1
    <3> HIDE DEF Minus
    <3>3. QED
      BY <3>1, <3>2
  <2>3. QED
    BY <2>1, <2>2 DEF QuotaInv, QuotaTypeOK, ReleaseStaleReservations
<1>6. FiniteRows'
  BY <1>3 DEF FiniteRows
<1>7. CountersMatchRows'
  BY <1>4 DEF CountersMatchRows
<1>8. WithinLimit'
  <2> SUFFICES ASSUME NEW c \in Limited, NEW p \in Periods
               PROVE  used'[c][p] + reserved'[c][p] <= Limit[c]
    BY DEF WithinLimit
  <2>1. /\ used[c][p] \in Nat /\ reserved[c][p] \in Nat /\ Limit[c] \in Nat
        /\ used[c][p] + reserved[c][p] <= Limit[c]
    BY DEF QuotaInv, QuotaTypeOK, WithinLimit
  <2>2. /\ reserved'[c][p] \in Nat /\ reserved'[c][p] <= reserved[c][p]
        /\ used'[c][p] = used[c][p]
    BY <1>4
  <2>3. QED
    BY <2>1, <2>2
<1>9. QED
  BY <1>5, <1>6, <1>7, <1>8 DEF QuotaInv

\* A new period leaves every counter and every row where it is.
LEMMA NewPeriodInv ==
    ASSUME QuotaInv, NEW c \in Channels, NewPeriod(c)
    PROVE  QuotaInv'
<1>1. used' = used /\ reserved' = reserved /\ resv' = resv
  BY DEF NewPeriod
<1>2. \A s, d, p : RowsIn(s, d, p)' = RowsIn(s, d, p)
  BY <1>1 DEF RowsIn
<1>3. QuotaTypeOK'
  <2>1. period[c] + 1 \in Periods
    BY LedgerAssumption DEF QuotaInv, QuotaTypeOK, NewPeriod, Periods
  <2>2. period' \in [Channels -> Periods]
    BY <2>1 DEF QuotaInv, QuotaTypeOK, NewPeriod
  <2>3. QED
    BY <1>1, <2>2 DEF QuotaInv, QuotaTypeOK
<1>4. FiniteRows' /\ CountersMatchRows'
  BY <1>1, <1>2, Zenon DEF QuotaInv, FiniteRows, CountersMatchRows
<1>5. WithinLimit'
  BY <1>1 DEF QuotaInv, WithinLimit
<1>6. QED
  BY <1>3, <1>4, <1>5 DEF QuotaInv

LEMMA QuotaNextInv == QuotaInv /\ [QuotaNext]_quotaVars => QuotaInv'
<1> SUFFICES ASSUME QuotaInv, [QuotaNext]_quotaVars
             PROVE  QuotaInv'
  OBVIOUS
<1>1. ASSUME NEW n \in Notifs, NEW chs \in SUBSET Channels, ReserveForChannels(n, chs)
      PROVE  QuotaInv'
  BY <1>1, ReserveInv
<1>2. ASSUME NEW n \in Notifs, NEW c \in Channels, NEW outcome \in {"consumed", "released"},
             SettleOnClient(n, c, outcome)
      PROVE  QuotaInv'
  BY <1>2, SettleInv
<1>3. ASSUME NEW S \in SUBSET (Notifs \X Channels), ReleaseStaleReservations(S)
      PROVE  QuotaInv'
  BY <1>3, ReleaseInv
<1>4. ASSUME NEW c \in Limited, NewPeriod(c)
      PROVE  QuotaInv'
  BY <1>4, NewPeriodInv, LedgerAssumption
<1>5. CASE UNCHANGED quotaVars
  BY <1>5, StutterInv
<1>6. QED
  BY <1>1, <1>2, <1>3, <1>4, <1>5 DEF QuotaNext

-----------------------------------------------------------------------------
(* Theorems *)

\* Every value of the four tables is well formed in every state.
THEOREM QuotaTypeCorrect == QuotaSpec => []QuotaTypeOK
<1>1. QuotaInv => QuotaTypeOK
  BY DEF QuotaInv
<1>2. QED
  BY <1>1, InitInv, QuotaNextInv, PTL DEF QuotaSpec

\* quota_usage.reserved and quota_usage.used always count the reservation
\* rows held and charged, whatever reservations, settlements, stale sweeps
\* and period changes happened in whatever order.
THEOREM QuotaCountersCorrect == QuotaSpec => []CountersMatchRows
<1>1. QuotaInv => CountersMatchRows
  BY DEF QuotaInv
<1>2. QED
  BY <1>1, InitInv, QuotaNextInv, PTL DEF QuotaSpec

\* The units charged and held of a limited channel never exceed its limit.
THEOREM QuotaLimitRespected == QuotaSpec => []WithinLimit
<1>1. QuotaInv => WithinLimit
  BY DEF QuotaInv
<1>2. QED
  BY <1>1, InitInv, QuotaNextInv, PTL DEF QuotaSpec

-----------------------------------------------------------------------------
(* Refinement: each operation on the counters is a step of Ledger *)

LEMMA ReserveAdmits ==
    ASSUME QuotaInv, NEW n \in Notifs, NEW chs \in SUBSET Channels,
           ReserveForChannels(n, chs)
    PROVE  Admit(n, GrantedOf(chs))
<1>1. ASSUME NEW c \in GrantedOf(chs)
      PROVE  Load(c, period[c]) < Limit[c]
  <2>1. c \in Limited /\ c \in Channels /\ period[c] \in Periods /\ ~Blocked(c)
    BY <1>1, LedgerAssumption DEF GrantedOf, QuotaInv, QuotaTypeOK
  <2>2. /\ Cardinality(RowsIn("reserved", c, period[c])) \in Nat
        /\ Cardinality(RowsIn("consumed", c, period[c])) \in Nat
        /\ reserved[c][period[c]] = Cardinality(RowsIn("reserved", c, period[c]))
        /\ used[c][period[c]] = Cardinality(RowsIn("consumed", c, period[c]))
    BY <2>1, RowsAreCounted
  <2>3. Limit[c] \in Nat
    BY <2>1, LedgerAssumption
  <2>4. QED
    BY <2>1, <2>2, <2>3 DEF Blocked, Load
<1>2. QED
  BY <1>1 DEF Admit, ReserveForChannels

LEMMA SettleIsLedgerStep ==
    ASSUME QuotaInv, NEW n \in Notifs, NEW c \in Channels,
           NEW outcome \in {"consumed", "released"},
           SettleOnClient(n, c, outcome)
    PROVE  [LedgerNext]_ledgerVars
<1>1. CASE resv[n][c].state # "reserved"
  BY <1>1 DEF SettleOnClient, quotaVars, ledgerVars
<1>2. CASE resv[n][c].state = "reserved"
  <2>1. /\ resv' = [resv EXCEPT ![n][c] = Row(outcome, resv[n][c].period)]
        /\ period' = period
    BY <1>2 DEF SettleOnClient
  <2>2. \A s : [resv[n][c] EXCEPT !.state = s] = Row(s, resv[n][c].period)
    BY <1>2 DEF QuotaInv, QuotaTypeOK, RowType, NoRow, Row
  <2> HIDE DEF Row
  <2>3. CASE outcome = "consumed"
    <3>1. Charge(n, c)
      BY <1>2, <2>1, <2>2, <2>3 DEF Charge, QuotaInv, QuotaTypeOK
    <3>2. QED
      BY <3>1 DEF LedgerNext
  <2>4. CASE outcome = "released"
    <3>1. GiveBack({<<n, c>>})
      <4>1. [resv[n][c] EXCEPT !.state = "released"] = Row("released", resv[n][c].period)
        BY <2>2
      <4>2. resv' = [m \in Notifs |-> [d \in Channels |->
                       IF <<m, d>> \in {<<n, c>>} THEN Row("released", resv[m][d].period)
                                                  ELSE resv[m][d]]]
        BY <2>1, <2>4 DEF QuotaInv, QuotaTypeOK
      <4>3. resv' = [m \in Notifs |-> [d \in Channels |->
                       IF <<m, d>> \in {<<n, c>>} THEN [resv[m][d] EXCEPT !.state = "released"]
                                                  ELSE resv[m][d]]]
        BY <4>1, <4>2
      <4>4. \A s \in {<<n, c>>} : resv[s[1]][s[2]].state = "reserved"
        BY <1>2
      <4>5. QED
        BY <2>1, <4>3, <4>4, Zenon DEF GiveBack
    <3>2. {<<n, c>>} \in SUBSET (Notifs \X Channels)
      OBVIOUS
    <3>3. QED
      BY <3>1, <3>2 DEF LedgerNext
  <2>5. QED
    BY <2>3, <2>4
<1>3. QED
  BY <1>1, <1>2

LEMMA ReleaseGivesBack ==
    ASSUME QuotaInv, NEW S \in SUBSET (Notifs \X Channels), ReleaseStaleReservations(S)
    PROVE  GiveBack(S)
<1>1. \A s \in S : resv[s[1]][s[2]].state = "reserved"
  BY DEF ReleaseStaleReservations, Held
<1>2. \A n \in Notifs, c \in Channels :
         <<n, c>> \in S => [resv[n][c] EXCEPT !.state = "released"] = Row("released", resv[n][c].period)
  <2>1. ASSUME NEW n \in Notifs, NEW c \in Channels, <<n, c>> \in S
        PROVE  resv[n][c].state = "reserved" /\ resv[n][c] \in RowType
    BY <2>1 DEF QuotaInv, QuotaTypeOK, ReleaseStaleReservations, Held
  <2>2. QED
    BY <2>1 DEF RowType, NoRow, Row
<1>3. QED
  BY <1>1, <1>2 DEF GiveBack, ReleaseStaleReservations

LEMMA QuotaStepIsLedgerStep ==
    QuotaInv /\ [QuotaNext]_quotaVars => [LedgerNext]_ledgerVars
<1> SUFFICES ASSUME QuotaInv, [QuotaNext]_quotaVars
             PROVE  [LedgerNext]_ledgerVars
  OBVIOUS
<1>1. ASSUME NEW n \in Notifs, NEW chs \in SUBSET Channels, ReserveForChannels(n, chs)
      PROVE  LedgerNext
  <2>1. Admit(n, GrantedOf(chs)) /\ GrantedOf(chs) \in SUBSET Limited
    BY <1>1, ReserveAdmits DEF GrantedOf
  <2>2. QED
    BY <2>1 DEF LedgerNext
<1>2. ASSUME NEW n \in Notifs, NEW c \in Channels, NEW outcome \in {"consumed", "released"},
             SettleOnClient(n, c, outcome)
      PROVE  [LedgerNext]_ledgerVars
  BY <1>2, SettleIsLedgerStep
<1>3. ASSUME NEW S \in SUBSET (Notifs \X Channels), ReleaseStaleReservations(S)
      PROVE  LedgerNext
  BY <1>3, ReleaseGivesBack DEF LedgerNext
<1>4. ASSUME NEW c \in Limited, NewPeriod(c)
      PROVE  LedgerNext
  BY <1>4, LedgerAssumption DEF NewPeriod, Turn, LedgerNext
<1>5. CASE UNCHANGED quotaVars
  BY <1>5 DEF quotaVars, ledgerVars
<1>6. QED
  BY <1>1, <1>2, <1>3, <1>4, <1>5 DEF QuotaNext

\* Deciding by the counters admits and settles exactly what counting the
\* reservation rows would: Quota implements Ledger.
THEOREM QuotaImplementsLedger == QuotaSpec => ImplementsLedger
<1>1. QuotaInit => LedgerInit
  BY DEF QuotaInit, LedgerInit
<1>2. QED
  BY <1>1, InitInv, QuotaNextInv, QuotaStepIsLedgerStep, PTL
     DEF QuotaSpec, LedgerSpec, ImplementsLedger
=============================================================================
